------------------------------- MODULE Evidence -------------------------------
(***************************************************************************)
(* The evidence ledger (evidence_ledger.py) under concurrent appends: each *)
(* append_record validates its record, takes the ledger lock, loads and    *)
(* checks the whole ledger, and replaces the file.  A process may be       *)
(* killed at any point; the kernel then releases its flock.                *)
(***************************************************************************)
EXTENDS EvidenceRecords, Sequences, SequencesExt

CONSTANTS
  Procs,      (* append commands                                          *)
  Free,       (* nobody holds the lock                                    *)
  Documents,  (* the records users try to append                          *)
  Ledgers,    (* the ledgers there may be to begin with                   *)
  MaxRecords  (* bound on the records of a ledger                         *)

\* The fields of a record that the model reads.
Fields ==
  {"schema_version", "upgraded_from", "run_ref", "task_family", "campaign", "pair", "route",
   "outcome", "independent_acceptance", "suite", "suite_digest", "candidate", "repair_rounds",
   "extra_repair_basis", "failure_class", "mode", "task", "policy", "first_pass", "elapsed",
   "tokens", "credits", "kind", "credit_source", "credit_uncertainty", "token_source",
   "token_uncertainty", "verification", "receipt", "window", "sol_model", "luna_model", "effort",
   "phase_seconds", "phase_credits"}

ASSUME LedgerAssumption ==
  /\ Free \notin Procs /\ MaxRecords \in Nat
  /\ None \notin Nat
  /\ \A d \in Documents : Fields \subseteq DOMAIN d /\ d = [f \in DOMAIN d |-> d[f]]
  /\ \A l \in Ledgers : l \in Seq(Range(l))
  /\ \A r \in Documents \cup UNION {Range(l) : l \in Ledgers} :
       {r.credits, r.tokens, r.elapsed} \subseteq Nat \cup {None}

VARIABLES
  ledger,     (* the ledger file, a sequence of records                   *)
  lock,       (* holder of the lock file                                  *)
  cmd         (* what each append command is doing                        *)

evidenceVars == <<ledger, lock, cmd>>

Idle == [step |-> "idle"]

EvidenceInit ==
  /\ ledger \in Ledgers
  /\ lock = Free
  /\ cmd = [p \in Procs |-> Idle]

\* What load_records raises on: a line that does not validate, a receipt twice.
Loads(records) ==
  /\ \A i \in DOMAIN records : Admissible(records[i])
  /\ \A i, j \in DOMAIN records :
       i # j /\ records[i].receipt # None => records[i].receipt # records[j].receipt

\* What append_record checks of a record against the records it loaded.
IsNew(record, records) ==
  \A i \in DOMAIN records :
    /\ record_id(records[i]) # record_id(record)
    /\ record.receipt # None => records[i].receipt # record.receipt

LockIsFree_Mutant == TRUE

LockIsFree == lock = Free

\* append_record takes a document that validate_record lets pass to the lock; up to
\* there it reads nothing that others write.
Take(p) ==
  /\ cmd[p] = Idle
  /\ LockIsFree
  /\ Len(ledger) < MaxRecords
  /\ \E d \in Documents :
       /\ Admissible(d)
       /\ cmd' = [cmd EXCEPT ![p] = [step |-> "locked", record |-> validate_record(d)]]
  /\ lock' = p
  /\ UNCHANGED ledger

\* load_records under the lock, and the checks for duplicates.
Load(p) ==
  /\ cmd[p].step = "locked"
  /\ IF Loads(ledger) /\ IsNew(cmd[p].record, ledger)
       THEN /\ cmd' = [cmd EXCEPT ![p] = [step |-> "loaded", record |-> cmd[p].record,
                                          records |-> ledger]]
            /\ UNCHANGED lock
       ELSE lock' = Free /\ cmd' = [cmd EXCEPT ![p] = Idle]
  /\ UNCHANGED ledger

\* atomic_write_records: the temporary file takes the place of the ledger.
Replace(p) ==
  /\ cmd[p].step = "loaded"
  /\ ledger' = Append(cmd[p].records, cmd[p].record)
  /\ cmd' = [cmd EXCEPT ![p] = [step |-> "written", record |-> cmd[p].record]]
  /\ UNCHANGED lock

\* The lock is given back and append_record returns the record.
Return(p) ==
  /\ cmd[p].step = "written"
  /\ lock' = Free
  /\ cmd' = [cmd EXCEPT ![p] = Idle]
  /\ UNCHANGED ledger

\* A kill, or an error of the file system before the replacement.
Die(p) ==
  /\ cmd[p] # Idle
  /\ lock' = IF lock = p THEN Free ELSE lock
  /\ cmd' = [cmd EXCEPT ![p] = Idle]
  /\ UNCHANGED ledger

Appends(p) == Take(p) \/ Load(p) \/ Replace(p) \/ Return(p) \/ Die(p)
=============================================================================
