---------------------------- MODULE JournalCatalog ----------------------------
(***************************************************************************)
(* The reader of a run journal: _dispatch_journal_catalog_record and       *)
(* _dispatch_journal_reconciliation_observations of                        *)
(* bench/engine/kaggle_capture_evidence.py accept the journal of one       *)
(* reconciled run as evidence.  Written from that reader, not from the     *)
(* writer in RunOnce, on the fields RunOnce keeps.                         *)
(***************************************************************************)
EXTENDS Naturals, Sequences

(* Every observation but the last fails or sees nothing new; the last one  *)
(* sees exactly the preflight runs and the bound run.                      *)
ObservationsBind(observations, before, run) ==
  /\ observations # <<>>
  /\ \A i \in DOMAIN observations :
       \/ observations[i].failed
       \/ /\ before \subseteq observations[i].ids
          /\ i < Len(observations) => observations[i].ids \subseteq before
  /\ ~observations[Len(observations)].failed
  /\ observations[Len(observations)].ids = before \cup {run}

(* The journal is evidence that `run`, a run of model `slug`, is the one   *)
(* that its command, targeting `target`, scheduled.  A response whose      *)
(* runSkippedReason is not None is refused, also when runScheduled is.     *)
Promotable(journal, target, run, slug) ==
  /\ journal.state = "reconciled"
  /\ ~journal.responseFailure
  /\ ~journal.failure
  /\ target = slug
  /\ run \notin journal.before
  /\ IF journal.dispatchFailure
     THEN journal.response = "none"
     ELSE journal.response = "scheduled"
  /\ journal.run = run
  /\ ObservationsBind(journal.observations, journal.before, run)
=============================================================================
