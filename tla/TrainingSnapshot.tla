-------------------------- MODULE TrainingSnapshot --------------------------
(***************************************************************************)
(* Publication of a training snapshot (ops/gcp/publish_training_snapshot.py). *)
(* Commands for one root each refuse a root that is not empty, then create *)
(* their files one by one and a completion marker last.  Commands overlap,  *)
(* die, and leave requests behind that are executed later.                  *)
(***************************************************************************)
EXTENDS Naturals, Sequences

CONSTANTS
  Publisher,     \* runs of the command; each has content of its own
  Name,          \* names under the root, the marker's aside
  FilesOf,       \* [Publisher -> its files in the order of their names]
  Marker,        \* the name COMPLETION_MARKER
  NoObject

SnapshotAssumption ==
  /\ Marker \notin Name /\ NoObject \notin Publisher
  /\ \A p \in Publisher :
       /\ FilesOf[p] \in Seq(Name)
       /\ \A i, j \in DOMAIN FilesOf[p] : FilesOf[p][i] = FilesOf[p][j] => i = j

VARIABLES
  remote,        \* [name -> the run whose content the object has, or NoObject]
  at,            \* where each run is
  done,          \* files created and read back
  verified,      \* files verified since the last listing
  unanswered     \* creations whose client is gone

vars == <<remote, at, done, verified, unanswered>>

Count(p) == Len(FilesOf[p])

Init ==
  /\ remote = [n \in Name \cup {Marker} |-> NoObject]
  /\ at = [p \in Publisher |-> "new"]
  /\ done = [p \in Publisher |-> 0]
  /\ verified = [p \in Publisher |-> 0]
  /\ unanswered = {}

Goto(p, where) == at' = [at EXCEPT ![p] = where]

Listed == {n \in Name \cup {Marker} : remote[n] # NoObject}
Inventory(p) == {FilesOf[p][i] : i \in 1..done[p]}

\* "training snapshot destination already exists"
ListEmpty(p) ==
  /\ at[p] = "new"
  /\ Goto(p, IF Listed = {} THEN "create" ELSE "failed")
  /\ UNCHANGED <<remote, done, verified, unanswered>>

\* The object of the next creation of p: a file, then the marker.
Target(p) == IF at[p] = "mark" THEN Marker ELSE FilesOf[p][done[p] + 1]

Creating(p) ==
  \/ at[p] = "mark"
  \/ at[p] = "create" /\ done[p] < Count(p)

Created(p) == Goto(p, IF at[p] = "mark" THEN "readMarker" ELSE "read")

\* Mutant: a creation without if_generation_match=0.
CreateAnyway(p) ==
  /\ Creating(p)
  /\ remote' = [remote EXCEPT ![Target(p)] = p] /\ Created(p)
  /\ UNCHANGED <<done, verified, unanswered>>

\* Create-only: "destination object exists".
Create(p) ==
  /\ Creating(p)
  /\ IF remote[Target(p)] = NoObject
     THEN remote' = [remote EXCEPT ![Target(p)] = p] /\ Created(p)
     ELSE Goto(p, "failed") /\ UNCHANGED remote
  /\ UNCHANGED <<done, verified, unanswered>>

\* The client gets no answer, or is killed; there is no retry.
CreateFails(p) ==
  /\ Creating(p)
  /\ unanswered' = unanswered \cup {<<p, Target(p)>>}
  /\ Goto(p, "failed")
  /\ UNCHANGED <<remote, done, verified>>

Land(p, n) ==
  /\ <<p, n>> \in unanswered
  /\ unanswered' = unanswered \ {<<p, n>>}
  /\ remote' = IF remote[n] = NoObject THEN [remote EXCEPT ![n] = p] ELSE remote
  /\ UNCHANGED <<at, done, verified>>

ReadBack(p) ==
  /\ at[p] = "read"
  /\ IF remote[Target(p)] = p
     THEN done' = [done EXCEPT ![p] = @ + 1] /\ Goto(p, "create")
     ELSE Goto(p, "failed") /\ UNCHANGED done
  /\ UNCHANGED <<remote, verified, unanswered>>

\* A listing must be the inventory, before the marker and with it.
List(p, from, expected, to) ==
  /\ at[p] = from
  /\ IF Listed = expected
     THEN Goto(p, to) /\ verified' = [verified EXCEPT ![p] = 0]
     ELSE Goto(p, "failed") /\ UNCHANGED verified
  /\ UNCHANGED <<remote, done, unanswered>>

Precommit(p) == done[p] = Count(p) /\ List(p, "create", Inventory(p), "verify")
ListFinal(p) == List(p, "listFinal", Inventory(p) \cup {Marker}, "verifyFinal")

\* Every file is read again at its generation.
VerifyNext(p) ==
  /\ at[p] \in {"verify", "verifyFinal"} /\ verified[p] < done[p]
  /\ IF remote[FilesOf[p][verified[p] + 1]] = p
     THEN verified' = [verified EXCEPT ![p] = @ + 1] /\ UNCHANGED at
     ELSE Goto(p, "failed") /\ UNCHANGED verified
  /\ UNCHANGED <<remote, done, unanswered>>

Verified(p) ==
  /\ verified[p] = done[p]
  /\ \/ at[p] = "verify" /\ Goto(p, "mark")
     \/ at[p] = "verifyFinal" /\ Goto(p, IF remote[Marker] = p THEN "published" ELSE "failed")
  /\ UNCHANGED <<remote, done, verified, unanswered>>

ReadMarker(p) ==
  /\ at[p] = "readMarker"
  /\ Goto(p, IF remote[Marker] = p THEN "listFinal" ELSE "failed")
  /\ UNCHANGED <<remote, done, verified, unanswered>>

\* A listing or a read fails, or the run is killed.
Fail(p) ==
  /\ at[p] \notin {"published", "failed"}
  /\ Goto(p, "failed")
  /\ UNCHANGED <<remote, done, verified, unanswered>>

Next ==
  \/ \E p \in Publisher :
       \/ ListEmpty(p) \/ Create(p) \/ CreateFails(p) \/ ReadBack(p)
       \/ Precommit(p) \/ VerifyNext(p) \/ Verified(p) \/ ReadMarker(p) \/ ListFinal(p)
       \/ Fail(p)
  \/ \E request \in unanswered : Land(request[1], request[2])

Spec == Init /\ [][Next]_vars

-----------------------------------------------------------------------------
Where == {"new", "create", "read", "verify", "mark", "readMarker", "listFinal", "verifyFinal",
          "published", "failed"}

TypeOK ==
  /\ remote \in [Name \cup {Marker} -> Publisher \cup {NoObject}]
  /\ at \in [Publisher -> Where]
  /\ done \in [Publisher -> Nat] /\ verified \in [Publisher -> Nat]
  /\ \A p \in Publisher : done[p] <= Count(p)
  /\ unanswered \subseteq Publisher \X (Name \cup {Marker})

\* "The completion marker is the commit point": whatever overlapping and dead runs have
\* left, a marker is followed by no change of the files it lists, all of them the content
\* of the run that wrote it; and a second run never reports the root published.
CompletionIsTrue ==
  /\ remote[Marker] # NoObject =>
       \A i \in 1..Count(remote[Marker]) : remote[FilesOf[remote[Marker]][i]] = remote[Marker]
  /\ \A p \in Publisher : at[p] = "published" => remote[Marker] = p
=============================================================================
