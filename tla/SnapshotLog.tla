---------------------------- MODULE SnapshotLog ----------------------------
(***************************************************************************)
(* What a release track promises of its snapshots, whoever asks and        *)
(* however requests interleave (the header of versioning-service.js:       *)
(* "Tagging is the ONLY in-place mutation on a snapshot").  The promise    *)
(* is void once a snapshot is saved at the timestamp of a deleted one.     *)
(***************************************************************************)
EXTENDS Naturals, Sequences

VARIABLES
  log,          \* the snapshots, by timestamp
  withdrawn,    \* the timestamps of deleted snapshots
  recycled      \* whether one of them was used again

logVars == <<log, withdrawn, recycled>>

NoVersion == <<>>

Earlier(v, w) == v[1] < w[1] \/ (v[1] = w[1] /\ v[2] < w[2])

Init ==
  /\ \E m \in DOMAIN log :
       /\ DOMAIN log = {m}
       /\ log[m].version = NoVersion
       /\ log[m].history = <<>>
  /\ withdrawn = {}
  /\ recycled = FALSE

\* The history of a document is true of the snapshots that are still there.
Truthful(h) ==
  \A i \in DOMAIN h :
    \/ h[i].snapshot \in withdrawn
    \/ h[i].snapshot \in DOMAIN log /\ log[h[i].snapshot].version = h[i].version

Kept(times) == \A m \in times : log'[m] = log[m]

(***************************************************************************)
(* A draft appears at a fresh timestamp.                                   *)
(***************************************************************************)
Publish ==
  /\ \E t \in DOMAIN log' \ DOMAIN log :
       /\ t \notin withdrawn
       /\ DOMAIN log' = DOMAIN log \cup {t}
       /\ log'[t].version = NoVersion
       /\ Truthful(log'[t].history)
  /\ Kept(DOMAIN log)
  /\ UNCHANGED <<withdrawn, recycled>>

(***************************************************************************)
(* A draft becomes a release, greater than all those it knows of.          *)
(***************************************************************************)
Release ==
  /\ DOMAIN log' = DOMAIN log
  /\ \E m \in DOMAIN log :
       /\ log[m].version = NoVersion
       /\ log'[m].version # NoVersion
       /\ \A i \in DOMAIN log[m].history : Earlier(log[m].history[i].version, log'[m].version)
       /\ log'[m].history =
            Append(log[m].history, [version |-> log'[m].version, snapshot |-> m])
       /\ log'[m].body.staged = <<>>
       /\ Kept(DOMAIN log \ {m})
  /\ UNCHANGED <<withdrawn, recycled>>

Withdraw ==
  /\ \E m \in DOMAIN log :
       /\ DOMAIN log' = DOMAIN log \ {m}
       /\ withdrawn' = withdrawn \cup {m}
       /\ Kept(DOMAIN log \ {m})
  /\ UNCHANGED recycled

Void == recycled'

Next == Publish \/ Release \/ Withdraw \/ Void

Spec == Init /\ [][Next]_logVars

=============================================================================
