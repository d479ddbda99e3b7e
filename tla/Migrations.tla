------------------------------ MODULE Migrations -----------------------------
(***************************************************************************)
(* db:migrate, run by deployments that carry different sets of migration   *)
(* files and may overlap, fail in a file or die: each checks the files     *)
(* that were applied against its own and applies the others in order,      *)
(* under an advisory lock that ends with its connection.                   *)
(***************************************************************************)
EXTENDS Naturals

CONSTANTS Deploy, Null,
          Files,    \* how many names of files there are, in their order
          Content,  \* what a file may say; its checksum stands for it
          Absent,   \* not among the files of a deployment
          Unknown   \* the checksum of a row from before they were recorded

VARIABLES
  file,    \* what each deployment has under each name
  row,     \* schema_migrations: no row, or its checksum
  holder,  \* who holds the advisory lock
  run      \* what each run is at: the rows it read, and the file it has come to

vars == <<file, row, holder, run>>

Name == 1..Files
Has(d) == {n \in Name : file[d][n] # Absent}

Init ==
  /\ file \in [Deploy -> [Name -> Content \cup {Absent}]]
  /\ row \in [Name -> {Null, Unknown}]
  /\ holder = Null /\ run = [d \in Deploy |-> Null]

(***************************************************************************)
(* runMigrations.                                                          *)
(***************************************************************************)
\* Variant: the lock of another kind of run does not exclude this one.
Unlocked(d) == TRUE

Free(d) == holder = Null

\* assertAppliedChecksum of a file: it is the one applied, as far as is known.
Matches(d, n) == row[n] \in {Null, Unknown} \/ file[d][n] = row[n]

\* Variant: only the files before the first new one are looked at.
FirstMatch(d) ==
  \A n \in Has(d) : (\A m \in 1..n : row[m] # Null) => Matches(d, n)

AllMatch(d) == \A n \in Has(d) : Matches(d, n)

\* The lock is had, the rows are read, and every applied file is checked.
Start(d) ==
  /\ run[d] = Null /\ Free(d)
  /\ IF AllMatch(d)
       THEN /\ holder' = d
            /\ run' = [run EXCEPT ![d] = [read |-> row, next |-> 1]]
       ELSE UNCHANGED <<holder, run>>
  /\ UNCHANGED <<file, row>>

Coming(d) == run[d] # Null /\ run[d].next \in Name
Onward(d) == run' = [run EXCEPT ![d].next = @ + 1]
End(d) == holder' = Null /\ run' = [run EXCEPT ![d] = Null]

\* A file that is applied already; a missing checksum is written.
Pass(d) ==
  LET n == run[d].next IN
  /\ Coming(d)
  /\ n \in Has(d) => run[d].read[n] # Null
  /\ row' = IF n \in Has(d) /\ run[d].read[n] = Unknown
              THEN [row EXCEPT ![n] = file[d][n]] ELSE row
  /\ Onward(d)
  /\ UNCHANGED <<file, holder>>

ToApply(d) ==
  Coming(d) /\ run[d].next \in Has(d) /\ run[d].read[run[d].next] = Null

\* A file and its row in one transaction; names are a primary key.
Apply(d) ==
  LET n == run[d].next IN
  /\ ToApply(d) /\ row[n] = Null
  /\ row' = [row EXCEPT ![n] = file[d][n]]
  /\ Onward(d)
  /\ UNCHANGED <<file, holder>>

\* Variant: the next file is tried all the same.
GoesOn(d) == Onward(d) /\ UNCHANGED holder

Fails(d) == End(d)

\* A statement of the file is refused, or its row: the transaction rolls back.
ApplyFails(d) ==
  /\ ToApply(d)
  /\ Fails(d)
  /\ UNCHANGED <<file, row>>

\* All files are done, or the process dies and its connection with it.
Finish(d) == run[d] # Null /\ End(d) /\ UNCHANGED <<file, row>>

Next == \E d \in Deploy :
  Start(d) \/ Pass(d) \/ Apply(d) \/ ApplyFails(d) \/ Finish(d)

Spec == Init /\ [][Next]_vars

(***************************************************************************)
(* Properties.                                                             *)
(***************************************************************************)
TypeOK ==
  /\ file \in [Deploy -> [Name -> Content \cup {Absent}]]
  /\ row \in [Name -> Content \cup {Null, Unknown}]
  /\ holder \in Deploy \cup {Null}
  /\ \A d \in Deploy : run[d] # Null =>
       run[d].read \in [Name -> Content \cup {Null, Unknown}] /\ run[d].next \in 1..(Files + 1)

\* A file is about to be applied only when the files before it were, by this
\* deployment or another, and no file of the deployment, before it or after it,
\* is known to be another than the one applied (api/migration-runner.ts:39-57).
AppliesRightly ==
  \A d \in Deploy : ToApply(d) =>
    \A n \in Has(d) : Matches(d, n) /\ (n < run[d].next => row[n] # Null)
==============================================================================
