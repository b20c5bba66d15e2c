------------------------- MODULE DatasetStore_proofs -------------------------
(* DatasetStore, for every set of processes, resolutions and files, and any  *)
(* number of calls, errors, interrupts and kills.                            *)
EXTENDS DatasetStore, SequenceTheorems, TLAPS

-----------------------------------------------------------------------------
(* The inductive invariant.                                                  *)

\* Labels at which a call has a build; at which the build has not been renamed,
\* is downloaded, verified, prepared, recorded.
Working == {"staged"} \union InTry \union Handlers
BeforeRename == Working \ {"manifest", "seal", "mark"}
Recorded == {"unstate", "rename", "manifest", "seal"}
Prepared == Recorded \union {"target", "record"}
Verified == Prepared \union {"preparing", "prepare", "prepared"}
Downloaded == Verified \union {"verifying", "verify"}

AllGood(b) == \A f \in Files : b.raw[f] = "good"

\* What a call at label l knows of its build b.
Knows(l, b) ==
  /\ l \in BeforeRename => b.place = "staging"
  /\ l \in {"manifest", "seal"} => b.place = "path"
  /\ l \in Downloaded => \A f \in Files : b.raw[f] \in {"good", "changed"}
  /\ l \in Verified => AllGood(b)
  /\ l \in Prepared => b.prepared = "complete"
  /\ l \in Recorded => b.record

\* What holds of every build.
Sound(b) ==
  /\ b.place = "path" => AllGood(b) /\ b.prepared = "complete" /\ b.record
  /\ b.manifest => b.place = "path"
  /\ Bridge # "local" => \A f \in Files : b.raw[f] # "changed"

CallsKnow ==
  \A p \in Processes :
    /\ work[p] # 0 <=> pc[p] \in Working
    /\ work[p] # 0 => Mine(p).res = res[p] /\ Knows(pc[p], Mine(p))

BuildsSound == \A b \in Indices : Sound(builds[b])

LocksExclude ==
  \A p \in Processes, q \in Processes :
    p # q /\ pc[p] \in Locked /\ pc[q] \in Locked => res[p] # res[q]

OneAtPath == \A b \in AtPath, c \in AtPath : b = c

StoreInv == TypeOK /\ CallsKnow /\ BuildsSound /\ LocksExclude /\ OneAtPath

-----------------------------------------------------------------------------
(* Sequences of builds.                                                      *)

LEMMA UpdatedBuilds ==
  ASSUME TypeOK, NEW i \in Indices, NEW b \in Build, builds' = [builds EXCEPT ![i] = b]
  PROVE  /\ builds' \in Seq(Build)
         /\ Len(builds') = Len(builds)
         /\ builds'[i] = b
         /\ \A j \in Indices \ {i} : builds'[j] = builds[j]
<1>1. builds \in Seq(Build) /\ i \in 1..Len(builds)
  BY DEF TypeOK, Indices
<1> QED BY <1>1, ExceptSeq DEF Indices

LEMMA AppendedBuilds ==
  ASSUME TypeOK, NEW b \in Build, builds' = Append(builds, b)
  PROVE  /\ builds' \in Seq(Build)
         /\ Len(builds') = Len(builds) + 1
         /\ builds'[Len(builds) + 1] = b
         /\ \A j \in Indices : builds'[j] = builds[j]
<1>1. builds \in Seq(Build)
  BY DEF TypeOK
<1> QED BY <1>1, AppendProperties DEF Indices

LEMMA MineTyped ==
  ASSUME TypeOK, NEW p \in Processes, work[p] # 0
  PROVE  work[p] \in Indices /\ Mine(p) \in Build
<1>1. work[p] \in 0..Len(builds) /\ Len(builds) \in Nat /\ builds \in Seq(Build)
  BY DEF TypeOK
<1>2. work[p] \in 1..Len(builds)
  BY <1>1
<1> QED BY <1>1, <1>2 DEF Mine, Indices

LEMMA Exclusive == StoreInv => ExclusiveStaging
<1> SUFFICES ASSUME StoreInv, NEW p \in Processes, NEW q \in Processes, p # q, work[p] # 0,
                    work[p] = work[q]
             PROVE  FALSE
  BY DEF ExclusiveStaging
<1>1. pc[p] \in Working /\ pc[q] \in Working /\ res[p] = res[q]
  BY DEF StoreInv, CallsKnow, Mine
<1>2. Working \subseteq Locked
  BY DEF Working, Locked, BeforeTry
<1> QED BY <1>1, <1>2 DEF StoreInv, LocksExclude

-----------------------------------------------------------------------------
(* Shapes of a step of process p.                                            *)

\* Nothing is written to the store.
LEMMA MoveKeeps ==
  ASSUME StoreInv, TypeOK', NEW p \in Processes, NEW l, pc' = [pc EXCEPT ![p] = l],
         builds' = builds,
         work' = work \/ work' = [work EXCEPT ![p] = 0],
         work'[p] # 0 <=> l \in Working,
         work'[p] # 0 => res'[p] = res[p] /\ Knows(l, Mine(p)),
         \A q \in Processes \ {p} : res'[q] = res[q],
         l \in Locked => res'[p] = res[p] /\ (pc[p] \in Locked \/ LockFree(p))
  PROVE  StoreInv'
<1>1. pc'[p] = l /\ \A q \in Processes \ {p} : pc'[q] = pc[q] /\ work'[q] = work[q]
  BY DEF StoreInv, TypeOK
<1>2. CallsKnow'
  <2> SUFFICES ASSUME NEW q \in Processes
               PROVE  /\ work'[q] # 0 <=> pc'[q] \in Working
                      /\ work'[q] # 0 => builds'[work'[q]].res = res'[q]
                                           /\ Knows(pc'[q], builds'[work'[q]])
    BY DEF CallsKnow, Mine, Knows, AllGood
  <2>1. CASE q # p
    BY <1>1, <2>1 DEF StoreInv, CallsKnow, Mine
  <2>2. CASE q = p
    <3>1. work'[p] # 0 => work'[p] = work[p]
      BY DEF StoreInv, TypeOK
    <3> QED BY <1>1, <2>2, <3>1 DEF StoreInv, CallsKnow, Mine
  <2> QED BY <2>1, <2>2
<1>3. BuildsSound'
  BY DEF StoreInv, BuildsSound, Indices, Sound, AllGood
<1>4. OneAtPath'
  BY DEF StoreInv, OneAtPath, AtPath, Indices
<1>5. LocksExclude'
  <2> SUFFICES ASSUME NEW q \in Processes, NEW r \in Processes, q # r, pc'[q] \in Locked,
                      pc'[r] \in Locked
               PROVE  res'[q] # res'[r]
    BY DEF LocksExclude
  <2>1. CASE q # p /\ r # p
    BY <1>1, <2>1 DEF StoreInv, LocksExclude
  <2>2. CASE q = p
    BY <1>1, <2>2 DEF StoreInv, LocksExclude, LockFree
  <2>3. CASE r = p
    BY <1>1, <2>3 DEF StoreInv, LocksExclude, LockFree
  <2> QED BY <2>1, <2>2, <2>3
<1> QED BY <1>2, <1>3, <1>4, <1>5 DEF StoreInv

\* The build of the call becomes b.
LEMMA WriteKeeps ==
  ASSUME StoreInv, TypeOK', NEW p \in Processes, NEW l, NEW b \in Build, work[p] # 0,
         builds' = [builds EXCEPT ![work[p]] = b],
         pc' = [pc EXCEPT ![p] = l], UNCHANGED res,
         \/ work' = work /\ l \in Working
         \/ work' = [work EXCEPT ![p] = 0] /\ l = "idle",
         b.res = Mine(p).res, l # "idle" => Knows(l, b), Sound(b),
         b.place = "path" => Mine(p).place = "path" \/ AtPath = {}
  PROVE  StoreInv'
<1>1. /\ pc'[p] = l
      /\ (work'[p] = work[p] /\ l \in Working) \/ (work'[p] = 0 /\ l = "idle")
      /\ \A q \in Processes \ {p} : pc'[q] = pc[q] /\ work'[q] = work[q]
  <2>1. /\ pc \in [Processes -> {"idle", "lock"} \union Locked]
        /\ work \in [Processes -> 0..Len(builds)]
    BY DEF StoreInv, TypeOK
  <2>2. CASE work' = work /\ l \in Working
    BY <2>1, <2>2
  <2>3. CASE work' = [work EXCEPT ![p] = 0] /\ l = "idle"
    BY <2>1, <2>3
  <2> QED BY <2>2, <2>3
<1>2. /\ work[p] \in Indices /\ Indices' = Indices /\ builds'[work[p]] = b
      /\ \A j \in Indices \ {work[p]} : builds'[j] = builds[j]
  <2>1. work[p] \in Indices
    BY MineTyped DEF StoreInv
  <2> QED BY <2>1, UpdatedBuilds DEF StoreInv, Indices
<1>3. \A q \in Processes \ {p} : work[q] # 0 => work[q] # work[p] /\ work[q] \in Indices
  BY Exclusive, MineTyped DEF StoreInv, ExclusiveStaging
<1>4. CallsKnow'
  <2> SUFFICES ASSUME NEW q \in Processes
               PROVE  /\ work'[q] # 0 <=> pc'[q] \in Working
                      /\ work'[q] # 0 => builds'[work'[q]].res = res'[q]
                                           /\ Knows(pc'[q], builds'[work'[q]])
    BY DEF CallsKnow, Mine, Knows, AllGood
  <2>1. CASE q # p
    BY <1>1, <1>2, <1>3, <2>1 DEF StoreInv, CallsKnow, Mine
  <2>2. CASE q = p
    <3>1. "idle" \notin Working
      BY DEF Working, InTry, Handlers
    <3>2. Mine(p).res = res[p]
      BY DEF StoreInv, CallsKnow
    <3> QED BY <1>1, <1>2, <2>2, <3>1, <3>2
  <2> QED BY <2>1, <2>2
<1>5. BuildsSound'
  <2>1. \A j \in Indices : Sound(builds'[j])
    BY <1>2 DEF StoreInv, BuildsSound
  <2> QED BY <1>2, <2>1 DEF BuildsSound, Sound, AllGood
<1>6. OneAtPath'
  <2>1. CASE b.place = "path" /\ AtPath = {}
    BY <1>2, <2>1 DEF OneAtPath, AtPath
  <2>2. CASE b.place # "path" \/ Mine(p).place = "path"
    <3>1. AtPath' \subseteq AtPath
      BY <1>2, <2>2 DEF AtPath, Mine
    <3> QED BY <3>1 DEF StoreInv, OneAtPath
  <2> QED BY <2>1, <2>2
<1>7. LocksExclude'
  <2>1. \A q \in Processes : pc'[q] \in Locked => pc[q] \in Locked
    <3>1. "idle" \notin Locked /\ Working \subseteq Locked
      BY DEF Locked, Working, BeforeTry, InTry, Handlers
    <3>2. pc[p] \in Working
      BY DEF StoreInv, CallsKnow
    <3> QED BY <1>1, <3>1, <3>2
  <2> QED BY <2>1 DEF StoreInv, LocksExclude
<1> QED BY <1>4, <1>5, <1>6, <1>7 DEF StoreInv

LEMMA Labels ==
  /\ Working \subseteq Locked
  /\ "idle" \notin Locked /\ "lock" \notin Locked
  /\ InTry \subseteq Working
BY DEF Working, Locked, BeforeTry, InTry, Handlers

LEMMA ReadKeeps ==
  ASSUME StoreInv, NEW p \in Processes, NEW l \in Locked, Read(p, l),
         work[p] # 0 <=> l \in Working, work[p] # 0 => Knows(l, Mine(p)),
         pc[p] \in Locked \/ LockFree(p)
  PROVE  StoreInv'
<1>1. TypeOK'
  BY DEF StoreInv, TypeOK, Read, Goto
<1> QED BY <1>1, MoveKeeps DEF Read, Goto

LEMMA LeaveKeeps ==
  ASSUME StoreInv, NEW p \in Processes, NEW kind \in Kinds, Goto(p, "idle"),
         outcome' = [outcome EXCEPT ![p] = [kind |-> kind, build |-> work[p]]],
         work' = [work EXCEPT ![p] = 0], UNCHANGED <<res, builds, exc>>,
         disturbed' \in [Processes -> BOOLEAN],
         budget' \in [calls: Nat, errors: Nat, interrupts: Nat, kills: Nat]
  PROVE  StoreInv'
<1>1. work[p] \in Nat /\ work'[p] = 0 /\ work' \in [Processes -> 0..Len(builds)]
  BY DEF StoreInv, TypeOK
<1>2. [kind |-> kind, build |-> work[p]] \in [kind: Kinds, build: Nat]
  BY <1>1
<1>3. outcome' \in [Processes -> [kind: Kinds, build: Nat]]
  BY <1>2 DEF StoreInv, TypeOK
<1>4. TypeOK'
  BY <1>1, <1>3 DEF StoreInv, TypeOK, Goto
<1> QED BY <1>1, <1>4, MoveKeeps, Labels DEF Goto

LEMMA CaughtKeeps ==
  ASSUME StoreInv, NEW p \in Processes, NEW kind \in {"failed", "interrupted"}, Caught(p, kind),
         pc[p] \in InTry, UNCHANGED <<res, work, builds, outcome>>,
         disturbed' \in [Processes -> BOOLEAN],
         budget' \in [calls: Nat, errors: Nat, interrupts: Nat, kills: Nat]
  PROVE  StoreInv'
<1>1. "mark" \in Locked /\ "mark" \in Working /\ work[p] # 0
  BY DEF StoreInv, CallsKnow, Locked, Working, Handlers
<1>2. TypeOK'
  BY <1>1 DEF StoreInv, TypeOK, Caught, Goto
<1>3. Knows("mark", Mine(p))
  BY DEF Knows, BeforeRename, Downloaded, Verified, Prepared, Recorded
<1> QED BY <1>1, <1>2, <1>3, MoveKeeps, Labels DEF Caught, Goto

LEMMA RefuseKeeps ==
  ASSUME StoreInv, NEW p \in Processes, Refuse(p), pc[p] \in InTry
  PROVE  StoreInv'
BY CaughtKeeps DEF Refuse, StoreInv, TypeOK

LEMMA WrittenKeeps ==
  ASSUME StoreInv, NEW p \in Processes, NEW l \in Working, NEW b \in Build, Write(p, b, l),
         pc[p] \in Working, b.res = Mine(p).res, Knows(l, b), Sound(b),
         b.place = "path" => Mine(p).place = "path" \/ AtPath = {}
  PROVE  StoreInv'
<1>1. work[p] # 0
  BY DEF StoreInv, CallsKnow
<1>2. work[p] \in Indices
  BY <1>1, MineTyped DEF StoreInv
<1>3. builds' \in Seq(Build) /\ Len(builds') = Len(builds)
  BY <1>2, UpdatedBuilds DEF StoreInv, Write
<1>4. TypeOK'
  BY <1>3, Labels DEF StoreInv, TypeOK, Write, Goto
<1>5. l # "idle"
  BY Labels
<1> QED BY <1>1, <1>4, <1>5, WriteKeeps DEF Write, Goto

-----------------------------------------------------------------------------
(* The actions.                                                              *)

\* What a call in the try block knows of its build.
LEMMA OwnBuild ==
  ASSUME StoreInv, NEW p \in Processes, pc[p] \in Working
  PROVE  /\ work[p] # 0 /\ work[p] \in Indices
         /\ Mine(p) \in Build /\ Knows(pc[p], Mine(p)) /\ Sound(Mine(p))
<1>1. work[p] # 0 /\ Knows(pc[p], Mine(p))
  BY DEF StoreInv, CallsKnow
<1>2. work[p] \in Indices /\ Mine(p) \in Build
  BY <1>1, MineTyped DEF StoreInv
<1> QED BY <1>1, <1>2 DEF StoreInv, BuildsSound, Mine

LEMMA BeginKeeps ==
  ASSUME StoreInv, NEW p \in Processes, NEW r \in Resolutions, Begin(p, r)
  PROVE  StoreInv'
<1>1. work[p] = 0 /\ work'[p] = 0 /\ res' \in [Processes -> Resolutions]
  BY Labels DEF StoreInv, TypeOK, CallsKnow, Begin
<1>2. TypeOK'
  <2>1. work' \in [Processes -> 0..Len(builds')]
    <3>1. work \in [Processes -> 0..Len(builds)] /\ Len(builds) \in Nat
      BY DEF StoreInv, TypeOK
    <3>2. 0 \in 0..Len(builds)
      BY <3>1
    <3> QED BY <3>1, <3>2 DEF Begin
  <2>2. budget' \in [calls: Nat, errors: Nat, interrupts: Nat, kills: Nat]
    <3>1. budget \in [calls: Nat, errors: Nat, interrupts: Nat, kills: Nat] /\ budget.calls - 1 \in Nat
      BY DEF StoreInv, TypeOK, Begin
    <3> QED BY <3>1 DEF Begin
  <2>3. pc' \in [Processes -> {"idle", "lock"} \union Locked]
    BY DEF StoreInv, TypeOK, Begin, Goto
  <2>4. /\ exc' \in [Processes -> {"none", "failed", "interrupted"}]
        /\ disturbed' \in [Processes -> BOOLEAN]
    BY DEF StoreInv, TypeOK, Begin
  <2> QED BY <1>1, <2>1, <2>2, <2>3, <2>4 DEF StoreInv, TypeOK, Begin
<1>3. \A q \in Processes \ {p} : res'[q] = res[q]
  BY DEF StoreInv, TypeOK, Begin
<1> QED BY <1>1, <1>2, <1>3, MoveKeeps, Labels DEF Begin, Goto

LEMMA FindingKeeps ==
  ASSUME StoreInv, NEW p \in Processes, Finding(p)
  PROVE  StoreInv'
<1>1. {"find", "verify_ready", "slot", "stage"} \subseteq Locked \ Working
  BY DEF Locked, Working, BeforeTry, InTry, Handlers
<1>2. CASE Lock(p)
  <2>1. pc[p] = "lock" /\ LockFree(p) /\ Read(p, "find")
    BY <1>2 DEF Lock
  <2>2. work[p] = 0
    BY <2>1, Labels DEF StoreInv, CallsKnow
  <2> QED BY <1>1, <2>1, <2>2, ReadKeeps
<1>3. CASE FindResolution(p)
  <2>1. pc[p] = "find" /\ (Read(p, "verify_ready") \/ Read(p, "slot"))
    BY <1>3 DEF FindResolution
  <2>2. work[p] = 0
    BY <1>1, <2>1 DEF StoreInv, CallsKnow
  <2> QED BY <1>1, <2>1, <2>2, ReadKeeps
<1>4. CASE VerifyReady(p)
  <2>1. End(p, "reused") \/ End(p, "failed")
    BY <1>4 DEF VerifyReady
  <2> QED BY <2>1, LeaveKeeps DEF End, Kinds, StoreInv, TypeOK
<1>5. CASE CheckSlot(p)
  <2>1. pc[p] = "slot" /\ (Read(p, "stage") \/ End(p, "failed"))
    BY <1>5 DEF CheckSlot
  <2>2. work[p] = 0
    BY <1>1, <2>1 DEF StoreInv, CallsKnow
  <2>3. CASE Read(p, "stage")
    BY <1>1, <2>1, <2>2, <2>3, ReadKeeps
  <2>4. CASE End(p, "failed")
    BY <2>4, LeaveKeeps DEF End, Kinds, StoreInv, TypeOK
  <2> QED BY <2>1, <2>3, <2>4
<1> QED BY <1>2, <1>3, <1>4, <1>5 DEF Finding

LEMMA NewBuildType ==
  ASSUME NEW r \in Resolutions
  PROVE  /\ NewBuild(r) \in Build /\ NewBuild(r).res = r
         /\ Knows("staged", NewBuild(r)) /\ Sound(NewBuild(r))
<1>1. [f \in Files |-> "absent"] \in [Files -> Status]
  BY DEF Status
<1>2. NewBuild(r) \in Build
  BY <1>1 DEF NewBuild, Build
<1>3. Knows("staged", NewBuild(r))
  BY DEF NewBuild, Knows, Downloaded, Verified, Prepared, Recorded
<1>4. Sound(NewBuild(r))
  BY DEF NewBuild, Sound
<1> QED BY <1>2, <1>3, <1>4 DEF NewBuild

\* A new staging directory.
LEMMA StageNewKeeps ==
  ASSUME StoreInv, NEW p \in Processes, pc[p] = "stage",
         builds' = Append(builds, NewBuild(res[p])),
         work' = [work EXCEPT ![p] = Len(builds) + 1], Goto(p, "staged"),
         UNCHANGED <<res, exc, outcome, disturbed, budget>>
  PROVE  StoreInv'
<1> DEFINE b == NewBuild(res[p])
           n == Len(builds) + 1
<1>1. res[p] \in Resolutions /\ builds \in Seq(Build) /\ work \in [Processes -> 0..Len(builds)]
      /\ Len(builds) \in Nat
  BY DEF StoreInv, TypeOK
<1>2. b \in Build /\ b.res = res[p] /\ Knows("staged", b) /\ Sound(b) /\ b.place = "staging"
  BY <1>1, NewBuildType DEF NewBuild
<1>3. /\ builds' \in Seq(Build) /\ Len(builds') = n /\ builds'[n] = b
      /\ \A j \in Indices : builds'[j] = builds[j]
  BY <1>1, <1>2, AppendedBuilds DEF StoreInv
<1>4. Indices' = Indices \union {n} /\ n \notin Indices /\ n # 0
  BY <1>1, <1>3 DEF Indices
<1>5. /\ work'[p] = n /\ pc'[p] = "staged" /\ "staged" \in Working /\ "staged" \in Locked
      /\ \A q \in Processes \ {p} : work'[q] = work[q] /\ pc'[q] = pc[q]
  BY <1>1 DEF StoreInv, TypeOK, Goto, Working, Locked, BeforeTry
<1>6. TypeOK'
  <2>1. work' \in [Processes -> 0..Len(builds')]
    BY <1>1, <1>3
  <2>2. pc' \in [Processes -> {"idle", "lock"} \union Locked]
    BY <1>5 DEF StoreInv, TypeOK, Goto
  <2> QED BY <1>3, <2>1, <2>2 DEF StoreInv, TypeOK
<1>7. CallsKnow'
  <2> SUFFICES ASSUME NEW q \in Processes
               PROVE  /\ work'[q] # 0 <=> pc'[q] \in Working
                      /\ work'[q] # 0 => builds'[work'[q]].res = res'[q]
                                           /\ Knows(pc'[q], builds'[work'[q]])
    BY DEF CallsKnow, Mine, Knows, AllGood
  <2>1. CASE q = p
    BY <1>2, <1>3, <1>4, <1>5, <2>1
  <2>2. CASE q # p
    <3>1. work[q] # 0 => work[q] \in Indices
      BY MineTyped DEF StoreInv
    <3>2. /\ work[q] # 0 <=> pc[q] \in Working
          /\ work[q] # 0 => builds[work[q]].res = res[q] /\ Knows(pc[q], builds[work[q]])
      BY DEF StoreInv, CallsKnow, Mine
    <3>3. work'[q] = work[q] /\ pc'[q] = pc[q] /\ res'[q] = res[q]
      BY <1>5, <2>2
    <3>4. work[q] # 0 => builds'[work[q]] = builds[work[q]]
      BY <1>3, <3>1
    <3> HIDE DEF b, n
    <3> QED BY <3>2, <3>3, <3>4
  <2> QED BY <2>1, <2>2
<1>8. BuildsSound'
  <2>1. \A j \in Indices \union {n} : Sound(builds'[j])
    BY <1>2, <1>3 DEF StoreInv, BuildsSound
  <2> QED BY <1>4, <2>1 DEF BuildsSound, Sound, AllGood
<1>9. OneAtPath'
  <2>1. AtPath' \subseteq AtPath
    BY <1>2, <1>3, <1>4 DEF AtPath
  <2> QED BY <2>1 DEF StoreInv, OneAtPath
<1>10. LocksExclude'
  <2>1. \A q \in Processes : pc'[q] \in Locked => pc[q] \in Locked
    BY <1>5 DEF Locked, BeforeTry
  <2> QED BY <2>1 DEF StoreInv, LocksExclude
<1> QED BY <1>6, <1>7, <1>8, <1>9, <1>10 DEF StoreInv

\* A staging directory is resumed: the lock of its resolution keeps others off.
LEMMA ResumeKeeps ==
  ASSUME StoreInv, NEW p \in Processes, pc[p] = "stage", NEW b \in Recoverable(res[p]),
         work' = [work EXCEPT ![p] = b], Goto(p, "clean"),
         UNCHANGED <<res, builds, exc, outcome, disturbed, budget>>
  PROVE  StoreInv'
<1>1. /\ b \in Indices /\ builds[b].place = "staging" /\ builds[b].res = res[p]
      /\ b # 0 /\ b \in 0..Len(builds)
  <2>1. Len(builds) \in Nat
    BY DEF StoreInv, TypeOK
  <2> QED BY <2>1 DEF Recoverable, Indices
<1>2. /\ work'[p] = b /\ pc'[p] = "clean" /\ "clean" \in Working
      /\ \A q \in Processes \ {p} : work'[q] = work[q] /\ pc'[q] = pc[q]
  BY DEF StoreInv, TypeOK, Goto, Working, InTry
<1>3. TypeOK'
  <2>1. pc' \in [Processes -> {"idle", "lock"} \union Locked]
    BY Labels, <1>2 DEF StoreInv, TypeOK, Goto
  <2>2. work' \in [Processes -> 0..Len(builds')]
    BY <1>1 DEF StoreInv, TypeOK
  <2> QED BY <2>1, <2>2 DEF StoreInv, TypeOK
<1>4. CallsKnow'
  <2> SUFFICES ASSUME NEW q \in Processes
               PROVE  /\ work'[q] # 0 <=> pc'[q] \in Working
                      /\ work'[q] # 0 => builds'[work'[q]].res = res'[q]
                                           /\ Knows(pc'[q], builds'[work'[q]])
    BY DEF CallsKnow, Mine, Knows, AllGood
  <2>1. CASE q = p
    <3>1. Knows("clean", builds[b])
      BY <1>1 DEF Knows, Downloaded, Verified, Prepared, Recorded
    <3> QED BY <1>1, <1>2, <2>1, <3>1
  <2>2. CASE q # p
    BY <1>2, <2>2 DEF StoreInv, CallsKnow, Mine
  <2> QED BY <2>1, <2>2
<1>5. BuildsSound'
  BY DEF StoreInv, BuildsSound, Indices, Sound, AllGood
<1>6. OneAtPath'
  BY DEF StoreInv, OneAtPath, AtPath, Indices
<1>7. LocksExclude'
  <2>1. \A q \in Processes : pc'[q] \in Locked => pc[q] \in Locked
    BY <1>2 DEF Locked, BeforeTry
  <2> QED BY <2>1 DEF StoreInv, LocksExclude
<1> QED BY <1>3, <1>4, <1>5, <1>6, <1>7 DEF StoreInv

LEMMA StageKeeps ==
  ASSUME StoreInv, NEW p \in Processes, Stage(p)
  PROVE  StoreInv'
<1>1. CASE /\ \E b \in Recoverable(res[p]) : work' = [work EXCEPT ![p] = b]
           /\ Goto(p, "clean") /\ UNCHANGED builds
  BY <1>1, ResumeKeeps DEF Stage
<1>2. CASE /\ builds' = Append(builds, NewBuild(res[p]))
           /\ work' = [work EXCEPT ![p] = Len(builds) + 1] /\ Goto(p, "staged")
  BY <1>2, StageNewKeeps DEF Stage
<1> QED BY <1>1, <1>2 DEF Stage

\* One write of the try block that leaves the files, what was prepared and the
\* place of the build alone.
LEMMA AcquiringKeeps ==
  ASSUME StoreInv, NEW p \in Processes, Acquiring(p)
  PROVE  StoreInv'
<1>1. CASE Stage(p)
  BY <1>1, StageKeeps
<1>2. CASE EnterTry(p)
  <2>1. pc[p] = "staged" /\ Read(p, "downloading") /\ pc[p] \in Working
    BY <1>2 DEF EnterTry, Working
  <2>2. work[p] # 0 /\ Mine(p).place = "staging"
    BY <2>1, OwnBuild DEF Knows, BeforeRename
  <2>3. "downloading" \in Working /\ "downloading" \in Locked /\ pc[p] \in Locked
    BY <2>1, Labels DEF Working, InTry
  <2>4. Knows("downloading", Mine(p))
    BY <2>2 DEF Knows, Downloaded, Verified, Prepared, Recorded
  <2> QED BY <2>1, <2>2, <2>3, <2>4, ReadKeeps
<1>3. CASE Clean(p)
  <2>1. pc[p] = "clean" /\ pc[p] \in Working /\ "downloading" \in Working
    BY <1>3 DEF Clean, Working, InTry
  <2>2. Mine(p) \in Build /\ Mine(p).place = "staging" /\ Sound(Mine(p))
    BY <2>1, OwnBuild DEF Knows, BeforeRename
  <2> DEFINE b == [Mine(p) EXCEPT !.prepared = "none"]
             c == [Mine(p) EXCEPT !.record = FALSE]
  <2>3. b \in Build /\ b.res = Mine(p).res /\ b.place = "staging" /\ b.raw = Mine(p).raw
        /\ b.manifest = Mine(p).manifest
    BY <2>2 DEF Build
  <2>4. c \in Build /\ c.res = Mine(p).res /\ c.place = "staging" /\ c.raw = Mine(p).raw
        /\ c.manifest = Mine(p).manifest
    BY <2>2 DEF Build
  <2>5. Write(p, b, "clean") \/ Write(p, c, "downloading")
    BY <1>3 DEF Clean
  <2> HIDE DEF b, c
  <2>6. CASE Write(p, b, "clean")
    <3>1. Knows("clean", b) /\ Sound(b)
      BY <2>2, <2>3 DEF Knows, Sound, Downloaded, Verified, Prepared, Recorded
    <3> QED BY <2>1, <2>3, <2>6, <3>1, WrittenKeeps
  <2>7. CASE Write(p, c, "downloading")
    <3>1. Knows("downloading", c) /\ Sound(c)
      BY <2>2, <2>4 DEF Knows, Sound, Downloaded, Verified, Prepared, Recorded
    <3> QED BY <2>1, <2>4, <2>7, <3>1, WrittenKeeps
  <2> QED BY <2>5, <2>6, <2>7
<1>4. CASE MarkDownloading(p)
  <2>1. pc[p] = "downloading" /\ pc[p] \in Working /\ "acquire" \in Working
    BY <1>4 DEF MarkDownloading, Working, InTry
  <2>2. Mine(p) \in Build /\ Mine(p).place = "staging" /\ Sound(Mine(p))
    BY <2>1, OwnBuild DEF Knows, BeforeRename
  <2> DEFINE b == [Mine(p) EXCEPT !.state = "downloading"]
  <2>3. b \in Build /\ b.res = Mine(p).res /\ b.place = "staging" /\ b.raw = Mine(p).raw
        /\ b.manifest = Mine(p).manifest
    BY <2>2 DEF Build
  <2>4. Write(p, b, "acquire")
    BY <1>4 DEF MarkDownloading
  <2> HIDE DEF b
  <2>5. Knows("acquire", b) /\ Sound(b)
    BY <2>2, <2>3 DEF Knows, Sound, Downloaded, Verified, Prepared, Recorded
  <2> QED BY <2>1, <2>3, <2>4, <2>5, WrittenKeeps
<1>5. CASE OpenRaw(p)
  <2>1. pc[p] = "acquire" /\ pc[p] \in Working /\ "acquire" \in Working
    BY <1>5 DEF OpenRaw, Working, InTry
  <2>2. Mine(p) \in Build /\ Mine(p).place = "staging" /\ Sound(Mine(p))
    BY <2>1, OwnBuild DEF Knows, BeforeRename
  <2> DEFINE b == [Mine(p) EXCEPT !.rawDir = TRUE]
  <2>3. b \in Build /\ b.res = Mine(p).res /\ b.place = "staging" /\ b.raw = Mine(p).raw
        /\ b.manifest = Mine(p).manifest
    BY <2>2 DEF Build
  <2>4. Write(p, b, "acquire")
    BY <1>5 DEF OpenRaw
  <2> HIDE DEF b
  <2>5. Knows("acquire", b) /\ Sound(b)
    BY <2>2, <2>3 DEF Knows, Sound, Downloaded, Verified, Prepared, Recorded
  <2> QED BY <2>1, <2>3, <2>4, <2>5, WrittenKeeps
<1>6. CASE FetchFile(p)
  <2>1. pc[p] = "acquire" /\ pc[p] \in Working /\ "acquire" \in Working
    BY <1>6 DEF FetchFile, Working, InTry
  <2>2. Mine(p) \in Build /\ Mine(p).place = "staging" /\ Sound(Mine(p))
    BY <2>1, OwnBuild DEF Knows, BeforeRename
  <2>3. PICK f \in Files, s \in Status :
          /\ Write(p, [Mine(p) EXCEPT !.raw[f] = s], "acquire")
          /\ Bridge # "local" => s # "changed"
    <3>1. PICK f \in Missing(p) :
            \E s \in IF Bridge = "local" THEN {"good", "changed"}
                     ELSE IF Mine(p).raw[f] = "partial" THEN {"good"} ELSE {"partial"} :
              Write(p, [Mine(p) EXCEPT !.raw[f] = s], "acquire")
      BY <1>6 DEF FetchFile
    <3>2. PICK s \in IF Bridge = "local" THEN {"good", "changed"}
                     ELSE IF Mine(p).raw[f] = "partial" THEN {"good"} ELSE {"partial"} :
              Write(p, [Mine(p) EXCEPT !.raw[f] = s], "acquire")
      BY <3>1
    <3>3. s \in Status /\ (Bridge # "local" => s # "changed") /\ f \in Files
      BY DEF Status, Missing
    <3> QED BY <3>2, <3>3
  <2> DEFINE b == [Mine(p) EXCEPT !.raw[f] = s]
  <2>4. b.raw = [Mine(p).raw EXCEPT ![f] = s] /\ Mine(p).raw \in [Files -> Status]
    BY <2>2 DEF Build
  <2>5. b \in Build /\ b.res = Mine(p).res /\ b.place = "staging"
        /\ b.manifest = Mine(p).manifest
    BY <2>2, <2>4 DEF Build
  <2> HIDE DEF b
  <2>6. Bridge # "local" => \A g \in Files : b.raw[g] # "changed"
    BY <2>2, <2>3, <2>4 DEF Sound
  <2>7. Knows("acquire", b) /\ Sound(b)
    BY <2>2, <2>5, <2>6 DEF Knows, Sound, Downloaded, Verified, Prepared, Recorded
  <2> QED BY <2>1, <2>3, <2>5, <2>7, WrittenKeeps DEF b
<1>7. CASE Acquired(p)
  <2>1. pc[p] = "acquire" /\ pc[p] \in Working /\ "verifying" \in Working /\ "verifying" \in Locked
        /\ pc[p] \in Locked /\ Read(p, "verifying")
    BY <1>7, Labels DEF Acquired, Working, InTry
  <2>2. work[p] # 0 /\ Mine(p) \in Build /\ Mine(p).place = "staging"
    BY <2>1, OwnBuild DEF Knows, BeforeRename
  <2>3. \A f \in Files : Mine(p).raw[f] \in {"good", "changed"}
    BY <1>7, <2>2 DEF Acquired, Missing, Build, Status
  <2>4. Knows("verifying", Mine(p))
    BY <2>2, <2>3 DEF Knows, Verified, Prepared, Recorded
  <2> QED BY <2>1, <2>2, <2>4, ReadKeeps
<1> QED BY <1>1, <1>2, <1>3, <1>4, <1>5, <1>6, <1>7 DEF Acquiring

LEMMA PreparingKeeps ==
  ASSUME StoreInv, NEW p \in Processes, Preparing(p)
  PROVE  StoreInv'
<1>1. CASE MarkVerifying(p)
  <2>1. pc[p] = "verifying" /\ pc[p] \in Working /\ "verify" \in Working /\ pc[p] \in Downloaded
    BY <1>1 DEF MarkVerifying, Working, InTry, Downloaded
  <2>2. /\ Mine(p) \in Build /\ Mine(p).place = "staging" /\ Sound(Mine(p))
        /\ \A f \in Files : Mine(p).raw[f] \in {"good", "changed"}
    BY <2>1, OwnBuild DEF Knows, BeforeRename
  <2> DEFINE b == [Mine(p) EXCEPT !.state = "verifying"]
  <2>3. b \in Build /\ b.res = Mine(p).res /\ b.place = "staging" /\ b.raw = Mine(p).raw
        /\ b.manifest = Mine(p).manifest
    BY <2>2 DEF Build
  <2>4. Write(p, b, "verify")
    BY <1>1 DEF MarkVerifying
  <2> HIDE DEF b
  <2>5. Knows("verify", b) /\ Sound(b)
    BY <2>2, <2>3 DEF Knows, Sound, Verified, Prepared, Recorded
  <2> QED BY <2>1, <2>3, <2>4, <2>5, WrittenKeeps
<1>2. CASE VerifyRaw(p)
  <2>1. pc[p] = "verify" /\ pc[p] \in InTry /\ pc[p] \in Downloaded /\ "preparing" \in Working
        /\ pc[p] \in Working
    BY <1>2 DEF VerifyRaw, Working, InTry, Downloaded
  <2>2. /\ Mine(p) \in Build /\ Mine(p).place = "staging" /\ Sound(Mine(p)) /\ work[p] # 0
        /\ \A f \in Files : Mine(p).raw[f] \in {"good", "changed"}
    BY <2>1, OwnBuild DEF Knows, BeforeRename
  <2>3. CASE DigestMatches(p) /\ Read(p, "preparing")
    <3>1. AllGood(Mine(p))
      <4>1. CASE Bridge = "libero"
        BY <2>2, <4>1 DEF Sound, AllGood
      <4>2. CASE Bridge # "libero"
        BY <2>3, <4>2 DEF DigestMatches, Complete, AllGood, Mine
      <4> QED BY <4>1, <4>2
    <3>2. Knows("preparing", Mine(p))
      BY <2>2, <3>1 DEF Knows, Prepared, Recorded
    <3>3. pc[p] \in Locked /\ "preparing" \in Locked
      BY <2>1, Labels
    <3> QED BY <2>1, <2>2, <2>3, <3>2, <3>3, ReadKeeps
  <2>4. CASE Refuse(p)
    BY <2>1, <2>4, RefuseKeeps
  <2> QED BY <1>2, <2>3, <2>4 DEF VerifyRaw
<1>3. CASE MarkPreparing(p)
  <2>1. pc[p] = "preparing" /\ pc[p] \in Working /\ "prepare" \in Working /\ pc[p] \in Verified
    BY <1>3 DEF MarkPreparing, Working, InTry, Verified
  <2>2. /\ Mine(p) \in Build /\ Mine(p).place = "staging" /\ Sound(Mine(p)) /\ AllGood(Mine(p))
    BY <2>1, OwnBuild DEF Knows, BeforeRename
  <2> DEFINE b == [Mine(p) EXCEPT !.state = "preparing"]
  <2>3. b \in Build /\ b.res = Mine(p).res /\ b.place = "staging" /\ b.raw = Mine(p).raw
        /\ b.manifest = Mine(p).manifest
    BY <2>2 DEF Build
  <2>4. Write(p, b, "prepare")
    BY <1>3 DEF MarkPreparing
  <2> HIDE DEF b
  <2>5. Knows("prepare", b) /\ Sound(b)
    BY <2>2, <2>3 DEF Knows, Sound, AllGood, Prepared, Recorded
  <2> QED BY <2>1, <2>3, <2>4, <2>5, WrittenKeeps
<1>4. CASE OpenPrepared(p)
  <2>1. pc[p] = "prepare" /\ pc[p] \in InTry /\ pc[p] \in Working /\ "prepared" \in Working
        /\ pc[p] \in Verified
    BY <1>4 DEF OpenPrepared, Working, InTry, Verified
  <2>2. /\ Mine(p) \in Build /\ Mine(p).place = "staging" /\ Sound(Mine(p)) /\ AllGood(Mine(p))
    BY <2>1, OwnBuild DEF Knows, BeforeRename
  <2> DEFINE b == [Mine(p) EXCEPT !.prepared = "partial"]
  <2>3. b \in Build /\ b.res = Mine(p).res /\ b.place = "staging" /\ b.raw = Mine(p).raw
        /\ b.manifest = Mine(p).manifest
    BY <2>2 DEF Build
  <2>4. Write(p, b, "prepared") \/ Refuse(p)
    BY <1>4 DEF OpenPrepared
  <2> HIDE DEF b
  <2>5. Knows("prepared", b) /\ Sound(b)
    BY <2>2, <2>3 DEF Knows, Sound, AllGood, Prepared, Recorded
  <2>6. CASE Write(p, b, "prepared")
    BY <2>1, <2>3, <2>6, <2>5, WrittenKeeps
  <2>7. CASE Refuse(p)
    BY <2>1, <2>7, RefuseKeeps
  <2> QED BY <2>4, <2>6, <2>7
<1>5. CASE Prepare(p)
  <2>1. pc[p] = "prepared" /\ pc[p] \in Working /\ "target" \in Working /\ pc[p] \in Verified
    BY <1>5 DEF Prepare, Working, InTry, Verified
  <2>2. /\ Mine(p) \in Build /\ Mine(p).place = "staging" /\ Sound(Mine(p)) /\ AllGood(Mine(p))
    BY <2>1, OwnBuild DEF Knows, BeforeRename
  <2> DEFINE b == [Mine(p) EXCEPT !.prepared = "complete"]
  <2>3. b \in Build /\ b.res = Mine(p).res /\ b.place = "staging" /\ b.raw = Mine(p).raw
        /\ b.manifest = Mine(p).manifest /\ b.prepared = "complete"
    BY <2>2 DEF Build
  <2>4. Write(p, b, "target")
    BY <1>5 DEF Prepare
  <2> HIDE DEF b
  <2>5. Knows("target", b) /\ Sound(b)
    BY <2>2, <2>3 DEF Knows, Sound, AllGood, Recorded
  <2> QED BY <2>1, <2>3, <2>4, <2>5, WrittenKeeps
<1> QED BY <1>1, <1>2, <1>3, <1>4, <1>5 DEF Preparing

LEMMA PublishingKeeps ==
  ASSUME StoreInv, NEW p \in Processes, Publishing(p)
  PROVE  StoreInv'
<1>1. CASE CheckTarget(p)
  <2>1. pc[p] = "target" /\ pc[p] \in InTry /\ pc[p] \in Working /\ "record" \in Working
        /\ pc[p] \in Locked /\ "record" \in Locked
    BY <1>1, Labels DEF CheckTarget, Working, InTry
  <2>2. work[p] # 0 /\ Knows("target", Mine(p))
    BY <2>1, OwnBuild
  <2>3. Knows("record", Mine(p))
    BY <2>2 DEF Knows, BeforeRename, Working, InTry, Handlers, Downloaded, Verified, Prepared, Recorded
  <2>4. CASE Read(p, "record")
    BY <2>1, <2>2, <2>3, <2>4, ReadKeeps
  <2>5. CASE Refuse(p)
    BY <2>1, <2>5, RefuseKeeps
  <2> QED BY <1>1, <2>4, <2>5 DEF CheckTarget
<1>2. CASE WriteRecord(p)
  <2>1. pc[p] = "record" /\ pc[p] \in Working /\ "unstate" \in Working /\ pc[p] \in Prepared
        /\ pc[p] \in Verified
    BY <1>2 DEF WriteRecord, Working, InTry, Prepared, Verified
  <2>2. /\ Mine(p) \in Build /\ Mine(p).place = "staging" /\ Sound(Mine(p)) /\ AllGood(Mine(p))
        /\ Mine(p).prepared = "complete"
    BY <2>1, OwnBuild DEF Knows, BeforeRename
  <2> DEFINE b == [Mine(p) EXCEPT !.record = TRUE]
  <2>3. b \in Build /\ b.res = Mine(p).res /\ b.place = "staging" /\ b.raw = Mine(p).raw
        /\ b.manifest = Mine(p).manifest /\ b.prepared = "complete" /\ b.record
    BY <2>2 DEF Build
  <2>4. Write(p, b, "unstate")
    BY <1>2 DEF WriteRecord
  <2> HIDE DEF b
  <2>5. Knows("unstate", b) /\ Sound(b)
    BY <2>2, <2>3 DEF Knows, Sound, AllGood
  <2> QED BY <2>1, <2>3, <2>4, <2>5, WrittenKeeps
<1>3. CASE RemoveState(p)
  <2>1. pc[p] = "unstate" /\ pc[p] \in Working /\ "rename" \in Working /\ pc[p] \in Recorded
        /\ pc[p] \in Prepared /\ pc[p] \in Verified
    BY <1>3 DEF RemoveState, Working, InTry, Recorded, Prepared, Verified
  <2>2. /\ Mine(p) \in Build /\ Mine(p).place = "staging" /\ Sound(Mine(p)) /\ AllGood(Mine(p))
        /\ Mine(p).prepared = "complete" /\ Mine(p).record
    BY <2>1, OwnBuild DEF Knows, BeforeRename
  <2> DEFINE b == [Mine(p) EXCEPT !.state = "none"]
  <2>3. b \in Build /\ b.res = Mine(p).res /\ b.place = "staging" /\ b.raw = Mine(p).raw
        /\ b.manifest = Mine(p).manifest /\ b.prepared = "complete" /\ b.record
    BY <2>2 DEF Build
  <2>4. Write(p, b, "rename")
    BY <1>3 DEF RemoveState
  <2> HIDE DEF b
  <2>5. Knows("rename", b) /\ Sound(b)
    BY <2>2, <2>3 DEF Knows, Sound, AllGood
  <2> QED BY <2>1, <2>3, <2>4, <2>5, WrittenKeeps
<1>4. CASE Rename(p)
  <2>1. pc[p] = "rename" /\ pc[p] \in InTry /\ pc[p] \in Working /\ "manifest" \in Working
        /\ pc[p] \in Recorded /\ pc[p] \in Prepared /\ pc[p] \in Verified
    BY <1>4 DEF Rename, Working, InTry, Recorded, Prepared, Verified
  <2>2. /\ Mine(p) \in Build /\ Mine(p).place = "staging" /\ Sound(Mine(p)) /\ AllGood(Mine(p))
        /\ Mine(p).prepared = "complete" /\ Mine(p).record
    BY <2>1, OwnBuild DEF Knows, BeforeRename
  <2> DEFINE b == [Mine(p) EXCEPT !.place = "path"]
  <2>3. b \in Build /\ b.res = Mine(p).res /\ b.place = "path" /\ b.raw = Mine(p).raw
        /\ b.prepared = "complete" /\ b.record
    BY <2>2 DEF Build
  <2>4. (AtPath = {} /\ Write(p, b, "manifest")) \/ Refuse(p)
    BY <1>4 DEF Rename
  <2> HIDE DEF b
  <2>5. Knows("manifest", b) /\ Sound(b)
    BY <2>2, <2>3 DEF Knows, Sound, AllGood, BeforeRename
  <2>6. CASE AtPath = {} /\ Write(p, b, "manifest")
    BY <2>1, <2>3, <2>5, <2>6, WrittenKeeps
  <2>7. CASE Refuse(p)
    BY <2>1, <2>7, RefuseKeeps
  <2> QED BY <2>4, <2>6, <2>7
<1>5. CASE WriteManifest(p)
  <2>1. pc[p] = "manifest" /\ pc[p] \in Working /\ "seal" \in Working /\ pc[p] \in Verified
    BY <1>5 DEF WriteManifest, Working, InTry, Recorded, Prepared, Verified
  <2>2. /\ Mine(p) \in Build /\ Mine(p).place = "path" /\ Sound(Mine(p))
    BY <2>1, OwnBuild DEF Knows
  <2> DEFINE b == [Mine(p) EXCEPT !.manifest = TRUE]
  <2>3. b \in Build /\ b.res = Mine(p).res /\ b.place = "path" /\ b.raw = Mine(p).raw
        /\ b.prepared = Mine(p).prepared /\ b.record = Mine(p).record
    BY <2>2 DEF Build
  <2>4. Write(p, b, "seal")
    BY <1>5 DEF WriteManifest
  <2> HIDE DEF b
  <2>5. Knows("seal", b) /\ Sound(b)
    BY <2>2, <2>3 DEF Knows, Sound, AllGood, BeforeRename
  <2> QED BY <2>1, <2>2, <2>3, <2>4, <2>5, WrittenKeeps
<1>6. CASE Seal(p)
  BY <1>6, LeaveKeeps DEF Seal, End, Kinds, StoreInv, TypeOK
<1> QED BY <1>1, <1>2, <1>3, <1>4, <1>5, <1>6 DEF Publishing

LEMMA MarkKeeps ==
  ASSUME StoreInv, NEW p \in Processes, Mark(p)
  PROVE  StoreInv'
<1> DEFINE b == [Mine(p) EXCEPT !.state = exc[p]]
<1>1. pc[p] = "mark" /\ pc[p] \in Working /\ exc[p] \in {"none", "failed", "interrupted"}
  BY DEF Mark, Working, Handlers, StoreInv, TypeOK
<1>2. work[p] # 0 /\ work[p] \in Indices /\ Mine(p) \in Build /\ Sound(Mine(p))
  BY <1>1, OwnBuild
<1>3. b \in Build /\ b.res = Mine(p).res /\ b.place = Mine(p).place /\ b.raw = Mine(p).raw
      /\ b.prepared = Mine(p).prepared /\ b.record = Mine(p).record
      /\ b.manifest = Mine(p).manifest
  BY <1>1, <1>2 DEF Build
<1>4. builds' = [builds EXCEPT ![work[p]] = b] \/ builds' = builds
  BY DEF Mark
<1> HIDE DEF b
<1>5. CASE builds' = [builds EXCEPT ![work[p]] = b]
  <2>1. builds' \in Seq(Build) /\ Len(builds') = Len(builds)
    BY <1>2, <1>3, <1>5, UpdatedBuilds DEF StoreInv
  <2>2. work[p] \in Nat /\ work' = [work EXCEPT ![p] = 0] /\ work' \in [Processes -> 0..Len(builds)]
    BY DEF Mark, StoreInv, TypeOK
  <2>3. [kind |-> exc[p], build |-> work[p]] \in [kind: Kinds, build: Nat]
    BY <1>1, <2>2 DEF Kinds
  <2>4. outcome' \in [Processes -> [kind: Kinds, build: Nat]]
    BY <2>3 DEF Mark, StoreInv, TypeOK
  <2>5. TypeOK'
    BY <2>1, <2>2, <2>4 DEF Mark, StoreInv, TypeOK, Goto
  <2>6. Sound(b)
    BY <1>2, <1>3 DEF Sound, AllGood
  <2>7. pc' = [pc EXCEPT ![p] = "idle"] /\ UNCHANGED res
    BY DEF Mark, Goto
  <2> QED BY <1>2, <1>3, <1>5, <2>2, <2>5, <2>6, <2>7, WriteKeeps
<1>6. CASE builds' = builds
  <2>1. exc[p] \in Kinds
    BY <1>1 DEF Kinds
  <2>2. /\ disturbed' \in [Processes -> BOOLEAN]
        /\ budget' \in [calls: Nat, errors: Nat, interrupts: Nat, kills: Nat]
    BY DEF Mark, StoreInv, TypeOK
  <2> QED BY <1>6, <2>1, <2>2, LeaveKeeps DEF Mark
<1> QED BY <1>4, <1>5, <1>6

LEMMA CallKeeps ==
  ASSUME StoreInv, NEW p \in Processes, Call(p)
  PROVE  StoreInv'
BY FindingKeeps, AcquiringKeeps, PreparingKeeps, PublishingKeeps, MarkKeeps DEF Call

LEMMA ErrorKeeps ==
  ASSUME StoreInv, NEW p \in Processes, Error(p)
  PROVE  StoreInv'
<1>1. /\ disturbed' \in [Processes -> BOOLEAN]
      /\ budget' \in [calls: Nat, errors: Nat, interrupts: Nat, kills: Nat]
  <2>1. /\ budget \in [calls: Nat, errors: Nat, interrupts: Nat, kills: Nat]
        /\ budget.errors - 1 \in Nat
    BY DEF Error, StoreInv, TypeOK
  <2>2. budget' = [budget EXCEPT !.errors = @ - 1]
    BY DEF Error
  <2>3. disturbed' \in [Processes -> BOOLEAN]
    BY DEF Error, StoreInv, TypeOK
  <2> QED BY <2>1, <2>2, <2>3
<1>2. CASE pc[p] \in InTry /\ Caught(p, "failed") /\ UNCHANGED <<work, outcome>>
  BY <1>1, <1>2, CaughtKeeps DEF Error
<1>3. CASE /\ Goto(p, "idle")
           /\ outcome' = [outcome EXCEPT ![p] = [kind |-> "failed", build |-> work[p]]]
           /\ work' = [work EXCEPT ![p] = 0] /\ UNCHANGED exc
  BY <1>1, <1>3, LeaveKeeps DEF Error, Kinds
<1> QED BY <1>2, <1>3 DEF Error

LEMMA InterruptKeeps ==
  ASSUME StoreInv, NEW p \in Processes, Interrupt(p)
  PROVE  StoreInv'
<1>1. /\ disturbed' \in [Processes -> BOOLEAN]
      /\ budget' \in [calls: Nat, errors: Nat, interrupts: Nat, kills: Nat]
  <2>1. /\ budget \in [calls: Nat, errors: Nat, interrupts: Nat, kills: Nat]
        /\ budget.interrupts - 1 \in Nat
    BY DEF Interrupt, StoreInv, TypeOK
  <2>2. budget' = [budget EXCEPT !.interrupts = @ - 1]
    BY DEF Interrupt
  <2>3. disturbed' \in [Processes -> BOOLEAN]
    BY DEF Interrupt, StoreInv, TypeOK
  <2> QED BY <2>1, <2>2, <2>3
<1>2. CASE pc[p] \in InTry /\ Caught(p, "interrupted") /\ UNCHANGED <<work, outcome>>
  BY <1>1, <1>2, CaughtKeeps DEF Interrupt
<1>3. CASE pc[p] = "acquire" /\ Caught(p, "failed") /\ UNCHANGED <<work, outcome>>
  BY <1>1, <1>3, CaughtKeeps DEF Interrupt, InTry
<1>4. CASE /\ Goto(p, "idle")
           /\ outcome' = [outcome EXCEPT ![p] = [kind |-> "interrupted", build |-> work[p]]]
           /\ work' = [work EXCEPT ![p] = 0] /\ UNCHANGED exc
  BY <1>1, <1>4, LeaveKeeps DEF Interrupt, Kinds
<1> QED BY <1>2, <1>3, <1>4 DEF Interrupt

LEMMA KillKeeps ==
  ASSUME StoreInv, NEW p \in Processes, Kill(p)
  PROVE  StoreInv'
<1>1. /\ disturbed' \in [Processes -> BOOLEAN]
      /\ budget' \in [calls: Nat, errors: Nat, interrupts: Nat, kills: Nat]
  <2>1. /\ budget \in [calls: Nat, errors: Nat, interrupts: Nat, kills: Nat]
        /\ budget.kills - 1 \in Nat
    BY DEF Kill, StoreInv, TypeOK
  <2>2. budget' = [budget EXCEPT !.kills = @ - 1]
    BY DEF Kill
  <2>3. disturbed' \in [Processes -> BOOLEAN]
    BY DEF Kill, StoreInv, TypeOK
  <2> QED BY <2>1, <2>2, <2>3
<1> QED BY <1>1, LeaveKeeps DEF Kill, Kinds

-----------------------------------------------------------------------------
(* The theorems.                                                             *)

LEMMA StoreInvInit == Init => StoreInv
<1> SUFFICES ASSUME Init PROVE StoreInv
  OBVIOUS
<1>1. (CHOOSE r \in Resolutions : TRUE) \in Resolutions
  BY StoreAssumption
<1>2. builds = <<>> /\ builds \in Seq(Build) /\ Len(builds) = 0 /\ Indices = {}
  BY DEF Init, Indices
<1>3. TypeOK
  <2>1. [kind |-> "none", build |-> 0] \in [kind: Kinds, build: Nat]
    BY DEF Kinds
  <2>2. outcome \in [Processes -> [kind: Kinds, build: Nat]]
    BY <2>1 DEF Init
  <2>3. /\ res \in [Processes -> Resolutions]
        /\ budget \in [calls: Nat, errors: Nat, interrupts: Nat, kills: Nat]
    BY <1>1, StoreAssumption DEF Init
  <2>4. work \in [Processes -> 0..Len(builds)]
    BY <1>2 DEF Init
  <2> QED BY <1>2, <2>2, <2>3, <2>4 DEF Init, TypeOK
<1>4. CallsKnow /\ LocksExclude
  BY Labels DEF Init, CallsKnow, LocksExclude
<1>5. BuildsSound /\ OneAtPath
  BY <1>2 DEF BuildsSound, OneAtPath, AtPath
<1> QED BY <1>3, <1>4, <1>5 DEF StoreInv

LEMMA StoreInvNext == StoreInv /\ [Next]_vars => StoreInv'
<1> SUFFICES ASSUME StoreInv, [Next]_vars PROVE StoreInv'
  OBVIOUS
<1>1. CASE Next
  BY <1>1, BeginKeeps, CallKeeps, ErrorKeeps, InterruptKeeps, KillKeeps DEF Next
<1>2. CASE UNCHANGED vars
  BY <1>2 DEF vars, StoreInv, TypeOK, CallsKnow, BuildsSound, LocksExclude, OneAtPath, Mine, Indices,
              AtPath, Knows, Sound, AllGood
<1> QED BY <1>1, <1>2

LEMMA StoreInvAlways == Spec => []StoreInv
BY StoreInvInit, StoreInvNext, PTL DEF Spec

\* Every variable of the store keeps its type in every step of every call.
THEOREM TypeCorrect == Spec => []TypeOK
<1>1. StoreInv => TypeOK
  BY DEF StoreInv
<1> QED BY <1>1, StoreInvAlways, PTL

\* What the registry lists is whole, whatever was killed, interrupted or
\* retried before (WriteManifest follows Rename, which follows every check).
THEOREM ReadyDatasetsAreComplete == Spec => []ReadyIsComplete
<1>1. StoreInv => ReadyIsComplete
  BY DEF StoreInv, BuildsSound, Sound, AllGood, ReadyIsComplete, Complete
<1> QED BY <1>1, StoreInvAlways, PTL

\* Two calls never share a staging directory: the lock of the resolution and
\* the resolution a staging directory belongs to keep them apart.
THEOREM StagingIsExclusive == Spec => []ExclusiveStaging
BY Exclusive, StoreInvAlways, PTL

-----------------------------------------------------------------------------
(* What a step does to the store, whoever takes it.                          *)

\* Build i becomes b.
Rewrite(i, b) ==
  /\ builds' = [builds EXCEPT ![i] = b]
  /\ b.res = builds[i].res
  /\ \A f \in Files : builds[i].raw[f] \in {"good", "changed"} => b.raw[f] = builds[i].raw[f]
  /\ \/ builds[i].place = "staging" /\ b.place = "staging" /\ b.manifest = builds[i].manifest
     \/ builds[i].place = "staging" /\ b.place = "path" /\ b.manifest = builds[i].manifest /\ AtPath = {}
     \/ builds[i].place = "path" /\ b = [builds[i] EXCEPT !.manifest = TRUE]
     \/ builds[i].place = "path" /\ b = [builds[i] EXCEPT !.state = b.state]

StoreStep ==
  \/ UNCHANGED builds
  \/ \E r \in Resolutions : builds' = Append(builds, NewBuild(r))
  \/ \E i \in Indices, b \in Build : Rewrite(i, b)

LEMMA AcquiringStep ==
  ASSUME StoreInv, NEW p \in Processes, Acquiring(p)
  PROVE  StoreStep
<1>1. CASE Stage(p)
  BY <1>1 DEF Stage, StoreStep, StoreInv, TypeOK
<1>2. CASE EnterTry(p) \/ Acquired(p)
  BY <1>2 DEF EnterTry, Acquired, Read, StoreStep
<1>3. CASE Clean(p) \/ MarkDownloading(p) \/ OpenRaw(p) \/ FetchFile(p)
  <2>1. pc[p] \in BeforeRename /\ pc[p] \in Working
    BY <1>3 DEF Clean, MarkDownloading, OpenRaw, FetchFile, BeforeRename, Working, InTry, Handlers
  <2>2. work[p] \in Indices /\ Mine(p) \in Build /\ Mine(p).place = "staging"
    BY <2>1, OwnBuild DEF Knows
  <2>3. \E b \in Build :
          /\ builds' = [builds EXCEPT ![work[p]] = b]
          /\ b.res = Mine(p).res /\ b.place = Mine(p).place /\ b.manifest = Mine(p).manifest
          /\ \A f \in Files : Mine(p).raw[f] \in {"good", "changed"} => b.raw[f] = Mine(p).raw[f]
    <3>1. CASE Clean(p)
      <4>1. /\ [Mine(p) EXCEPT !.prepared = "none"] \in Build
            /\ [Mine(p) EXCEPT !.record = FALSE] \in Build
        BY <2>2 DEF Build
      <4> QED BY <2>2, <3>1, <4>1 DEF Clean, Write, Build
    <3>2. CASE MarkDownloading(p)
      <4>1. [Mine(p) EXCEPT !.state = "downloading"] \in Build
        BY <2>2 DEF Build
      <4> QED BY <2>2, <3>2, <4>1 DEF MarkDownloading, Write, Build
    <3>3. CASE OpenRaw(p)
      <4>1. [Mine(p) EXCEPT !.rawDir = TRUE] \in Build
        BY <2>2 DEF Build
      <4> QED BY <2>2, <3>3, <4>1 DEF OpenRaw, Write, Build
    <3>4. CASE FetchFile(p)
      <4>1. PICK f \in Missing(p) :
              \E s \in IF Bridge = "local" THEN {"good", "changed"}
                       ELSE IF Mine(p).raw[f] = "partial" THEN {"good"} ELSE {"partial"} :
                Write(p, [Mine(p) EXCEPT !.raw[f] = s], "acquire")
        BY <3>4 DEF FetchFile
      <4>2. PICK s \in IF Bridge = "local" THEN {"good", "changed"}
                       ELSE IF Mine(p).raw[f] = "partial" THEN {"good"} ELSE {"partial"} :
              Write(p, [Mine(p) EXCEPT !.raw[f] = s], "acquire")
        BY <4>1
      <4>3. f \in Files /\ Mine(p).raw[f] \notin {"good", "changed"} /\ s \in Status
        BY DEF Missing, Status
      <4> DEFINE b == [Mine(p) EXCEPT !.raw[f] = s]
      <4>4. Mine(p).raw \in [Files -> Status] /\ b.raw = [Mine(p).raw EXCEPT ![f] = s]
        BY <2>2 DEF Build
      <4>5. b \in Build /\ b.res = Mine(p).res /\ b.place = Mine(p).place
            /\ b.manifest = Mine(p).manifest
        BY <2>2, <4>3, <4>4 DEF Build
      <4>6. builds' = [builds EXCEPT ![work[p]] = b]
        BY <4>2 DEF Write
      <4> HIDE DEF b
      <4>7. \A g \in Files : Mine(p).raw[g] \in {"good", "changed"} => b.raw[g] = Mine(p).raw[g]
        BY <4>3, <4>4
      <4> QED BY <4>5, <4>6, <4>7
    <3> QED BY <1>3, <3>1, <3>2, <3>3, <3>4
  <2> QED BY <2>2, <2>3 DEF StoreStep, Rewrite, Mine
<1> QED BY <1>1, <1>2, <1>3 DEF Acquiring

LEMMA PreparingStep ==
  ASSUME StoreInv, NEW p \in Processes, Preparing(p)
  PROVE  StoreStep
<1>1. CASE builds' = builds
  BY <1>1 DEF StoreStep
<1>2. CASE builds' # builds
  <2>1. pc[p] \in BeforeRename /\ pc[p] \in Working
    BY DEF Preparing, MarkVerifying, VerifyRaw, MarkPreparing, OpenPrepared, Prepare, BeforeRename,
           Working, InTry, Handlers
  <2>2. work[p] \in Indices /\ Mine(p) \in Build /\ Mine(p).place = "staging"
    BY <2>1, OwnBuild DEF Knows
  <2> DEFINE b == [Mine(p) EXCEPT !.state = "verifying"]
             c == [Mine(p) EXCEPT !.state = "preparing"]
             d == [Mine(p) EXCEPT !.prepared = "partial"]
             e == [Mine(p) EXCEPT !.prepared = "complete"]
  <2>3. \A x \in {b, c, d, e} :
          /\ x \in Build /\ x.res = Mine(p).res /\ x.place = Mine(p).place
          /\ x.manifest = Mine(p).manifest /\ x.raw = Mine(p).raw
    BY <2>2 DEF Build
  <2>4. \E x \in {b, c, d, e} : builds' = [builds EXCEPT ![work[p]] = x]
    BY <1>2 DEF Preparing, MarkVerifying, VerifyRaw, MarkPreparing, OpenPrepared, Prepare, Write, Read,
                Refuse
  <2> HIDE DEF b, c, d, e
  <2>5. PICK x \in {b, c, d, e} : builds' = [builds EXCEPT ![work[p]] = x]
    BY <2>4
  <2>6. /\ x \in Build /\ x.res = Mine(p).res /\ x.place = Mine(p).place
        /\ x.manifest = Mine(p).manifest /\ x.raw = Mine(p).raw
    BY <2>3
  <2> QED BY <2>2, <2>5, <2>6 DEF StoreStep, Rewrite, Mine
<1> QED BY <1>1, <1>2

LEMMA PublishingStep ==
  ASSUME StoreInv, NEW p \in Processes, Publishing(p)
  PROVE  StoreStep
<1>1. CASE builds' = builds
  BY <1>1 DEF StoreStep
<1>2. CASE WriteRecord(p) \/ RemoveState(p)
  <2>1. pc[p] \in BeforeRename /\ pc[p] \in Working
    BY <1>2 DEF WriteRecord, RemoveState, BeforeRename, Working, InTry, Handlers
  <2>2. work[p] \in Indices /\ Mine(p) \in Build /\ Mine(p).place = "staging"
    BY <2>1, OwnBuild DEF Knows
  <2> DEFINE b == [Mine(p) EXCEPT !.record = TRUE]
             c == [Mine(p) EXCEPT !.state = "none"]
  <2>3. \A x \in {b, c} :
          /\ x \in Build /\ x.res = Mine(p).res /\ x.place = Mine(p).place
          /\ x.manifest = Mine(p).manifest /\ x.raw = Mine(p).raw
    BY <2>2 DEF Build
  <2>4. \E x \in {b, c} : builds' = [builds EXCEPT ![work[p]] = x]
    BY <1>2 DEF WriteRecord, RemoveState, Write
  <2> HIDE DEF b, c
  <2> QED BY ZenonT(40), <2>2, <2>3, <2>4 DEF StoreStep, Rewrite, Mine
<1>3. CASE Rename(p) /\ builds' # builds
  <2>1. pc[p] \in BeforeRename /\ pc[p] \in Working
    BY <1>3 DEF Rename, BeforeRename, Working, InTry, Handlers
  <2>2. work[p] \in Indices /\ Mine(p) \in Build /\ Mine(p).place = "staging"
    BY <2>1, OwnBuild DEF Knows
  <2> DEFINE b == [Mine(p) EXCEPT !.place = "path"]
  <2>3. b \in Build /\ b.res = Mine(p).res /\ b.place = "path" /\ b.manifest = Mine(p).manifest
        /\ b.raw = Mine(p).raw
    BY <2>2 DEF Build
  <2>4. AtPath = {} /\ builds' = [builds EXCEPT ![work[p]] = b]
    BY <1>3 DEF Rename, Write, Refuse
  <2> HIDE DEF b
  <2> QED BY <2>2, <2>3, <2>4 DEF StoreStep, Rewrite, Mine
<1>4. CASE WriteManifest(p)
  <2>1. pc[p] = "manifest" /\ pc[p] \in Working
    BY <1>4 DEF WriteManifest, Working, InTry
  <2>2. work[p] \in Indices /\ Mine(p) \in Build /\ Mine(p).place = "path"
    BY <2>1, OwnBuild DEF Knows
  <2> DEFINE b == [Mine(p) EXCEPT !.manifest = TRUE]
  <2>3. b \in Build /\ b.res = Mine(p).res /\ b.raw = Mine(p).raw
    BY <2>2 DEF Build
  <2>4. builds' = [builds EXCEPT ![work[p]] = b]
    BY <1>4 DEF WriteManifest, Write
  <2>5. b = [builds[work[p]] EXCEPT !.manifest = TRUE]
    BY DEF Mine
  <2> HIDE DEF b
  <2> QED BY <2>2, <2>3, <2>4, <2>5 DEF StoreStep, Rewrite, Mine
<1> QED BY <1>1, <1>2, <1>3, <1>4 DEF Publishing, CheckTarget, Read, Refuse, Seal, End

LEMMA MarkStep ==
  ASSUME StoreInv, NEW p \in Processes, Mark(p)
  PROVE  StoreStep
<1> DEFINE b == [Mine(p) EXCEPT !.state = exc[p]]
<1>1. pc[p] \in Working /\ exc[p] \in {"none", "failed", "interrupted"}
  BY DEF Mark, Working, Handlers, StoreInv, TypeOK
<1>2. work[p] \in Indices /\ Mine(p) \in Build
  BY <1>1, OwnBuild
<1>3. b \in Build /\ b.res = Mine(p).res /\ b.place = Mine(p).place /\ b.raw = Mine(p).raw
      /\ b.manifest = Mine(p).manifest /\ b = [Mine(p) EXCEPT !.state = b.state]
  BY <1>1, <1>2 DEF Build
<1>4. builds' = [builds EXCEPT ![work[p]] = b] \/ builds' = builds
  BY DEF Mark
<1>5. Mine(p).place \in {"staging", "path"}
  BY <1>2 DEF Build
<1> HIDE DEF b
<1> QED BY <1>2, <1>3, <1>4, <1>5 DEF StoreStep, Rewrite, Mine

LEMMA StepOfStore == StoreInv /\ [Next]_vars => StoreStep
<1> SUFFICES ASSUME StoreInv, [Next]_vars PROVE StoreStep
  OBVIOUS
<1>1. CASE UNCHANGED vars
  BY <1>1 DEF vars, StoreStep
<1>2. ASSUME NEW p \in Processes, Call(p) PROVE StoreStep
  <2>1. CASE Finding(p)
    BY <2>1 DEF Finding, Lock, FindResolution, VerifyReady, CheckSlot, Read, End, StoreStep
  <2> QED BY <1>2, <2>1, AcquiringStep, PreparingStep, PublishingStep, MarkStep DEF Call
<1>3. CASE Next
  BY <1>2, <1>3 DEF Next, Begin, Error, Interrupt, Kill, StoreStep
<1> QED BY <1>1, <1>3

\* A publication never changes under its readers: only its manifest appears.
\* (The state.json of an interrupt goes to the former staging directory.)
THEOREM PublicationsStay == Spec => PublishedNeverChanges
<1> DEFINE Stays == \A b \in AtPath :
             /\ builds'[b].manifest \/ ~builds[b].manifest
             /\ builds'[b] = [builds[b] EXCEPT !.manifest = builds'[b].manifest,
                                              !.state = builds'[b].state]
<1>1. StoreInv /\ [Next]_vars => Stays
  <2> SUFFICES ASSUME StoreInv, [Next]_vars, NEW j \in AtPath
               PROVE  /\ builds'[j].manifest \/ ~builds[j].manifest
                      /\ builds'[j] = [builds[j] EXCEPT !.manifest = builds'[j].manifest,
                                                       !.state = builds'[j].state]
    OBVIOUS
  <2>1. j \in Indices /\ builds[j].place = "path" /\ builds[j] \in Build
    BY DEF StoreInv, TypeOK, AtPath, Indices
  <2>2. CASE builds'[j] = builds[j]
    BY <2>1, <2>2 DEF Build
  <2>3. ASSUME NEW r \in Resolutions, builds' = Append(builds, NewBuild(r))
        PROVE  builds'[j] = builds[j]
    BY <2>1, <2>3, NewBuildType, AppendedBuilds DEF StoreInv
  <2>4. ASSUME NEW i \in Indices, NEW b \in Build, Rewrite(i, b), i # j
        PROVE  builds'[j] = builds[j]
    BY <2>1, <2>4, UpdatedBuilds DEF StoreInv, Rewrite
  <2>5. ASSUME NEW b \in Build, Rewrite(j, b)
        PROVE  /\ builds'[j].manifest \/ ~builds[j].manifest
               /\ builds'[j] = [builds[j] EXCEPT !.manifest = builds'[j].manifest,
                                                !.state = builds'[j].state]
    <3>1. builds'[j] = b
      BY <2>1, <2>5, UpdatedBuilds DEF StoreInv, Rewrite
    <3>2. CASE b = [builds[j] EXCEPT !.manifest = TRUE]
      <4>1. b.manifest = TRUE /\ b.state = builds[j].state
        BY <2>1, <3>2 DEF Build
      <4>2. [builds[j] EXCEPT !.manifest = TRUE, !.state = builds[j].state]
              = [builds[j] EXCEPT !.manifest = TRUE]
        BY <2>1 DEF Build
      <4> QED BY <3>1, <3>2, <4>1, <4>2
    <3>3. CASE b = [builds[j] EXCEPT !.state = b.state]
      BY <2>1, <3>1, <3>3 DEF Build
    <3> QED BY <2>1, <2>5, <3>2, <3>3 DEF Rewrite
  <2> QED BY <2>2, <2>3, <2>4, <2>5, StepOfStore DEF StoreStep
<1> QED BY <1>1, StoreInvAlways, PTL DEF Spec, PublishedNeverChanges

\* A file that was staged whole survives every failure, interrupt, kill and
\* retry (FetchFile takes only what is missing, Clean leaves raw/ alone).
THEOREM StagedFilesStay == Spec => StagedFilesKept
<1> DEFINE Stays == \A b \in Indices, f \in Files :
             builds[b].raw[f] = "good" => builds'[b].raw[f] = "good"
<1>1. StoreInv /\ [Next]_vars => Stays
  <2> SUFFICES ASSUME StoreInv, [Next]_vars, NEW j \in Indices, NEW f \in Files,
                      builds[j].raw[f] = "good"
               PROVE  builds'[j].raw[f] = "good"
    OBVIOUS
  <2>1. ASSUME NEW r \in Resolutions, builds' = Append(builds, NewBuild(r))
        PROVE  builds'[j] = builds[j]
    BY <2>1, NewBuildType, AppendedBuilds DEF StoreInv
  <2>2. ASSUME NEW i \in Indices, NEW b \in Build, Rewrite(i, b)
        PROVE  builds'[j].raw[f] = "good"
    BY <2>2, UpdatedBuilds DEF StoreInv, Rewrite
  <2> QED BY <2>1, <2>2, StepOfStore DEF StoreStep
<1> QED BY <1>1, StoreInvAlways, PTL DEF Spec, StagedFilesKept

-----------------------------------------------------------------------------
(* The store implements PublicationSlot.                                     *)

LEMMA SlotStep == StoreInv /\ StoreInv' /\ StoreStep => [Slot!SlotNext]_(Slot!slotVars)
<1> DEFINE Owner == { builds[b].res : b \in AtPath }
           Ready == \E b \in AtPath : builds[b].manifest
<1> SUFFICES ASSUME StoreInv, StoreInv', StoreStep
             PROVE  \/ Owner' = Owner /\ Ready' = Ready
                    \/ Owner = {} /\ (\E r \in Resolutions : Owner' = {r}) /\ Ready' = Ready
                    \/ Owner # {} /\ ~Ready /\ Ready' /\ Owner' = Owner
  BY DEF Slot!SlotNext, Slot!Place, Slot!Announce, Slot!slotVars
<1>1. \A j \in Indices : builds[j] \in Build
  BY DEF StoreInv, TypeOK, Indices
<1>2. CASE UNCHANGED builds
  BY <1>2 DEF AtPath, Indices
<1>3. ASSUME NEW r \in Resolutions, builds' = Append(builds, NewBuild(r))
      PROVE  Owner' = Owner /\ Ready' = Ready
  <2>1. /\ Len(builds') = Len(builds) + 1 /\ builds'[Len(builds) + 1] = NewBuild(r)
        /\ \A j \in Indices : builds'[j] = builds[j]
    BY <1>3, NewBuildType, AppendedBuilds DEF StoreInv
  <2>2. Len(builds) \in Nat /\ NewBuild(r).place = "staging"
    BY DEF StoreInv, TypeOK, NewBuild
  <2>3. Indices' = Indices \union {Len(builds) + 1}
    BY <2>1, <2>2 DEF Indices
  <2>4. AtPath' = AtPath /\ \A j \in AtPath : builds'[j] = builds[j]
    BY <2>1, <2>2, <2>3 DEF AtPath
  <2> QED BY <2>4
<1>4. ASSUME NEW i \in Indices, NEW b \in Build, Rewrite(i, b)
      PROVE  \/ Owner' = Owner /\ Ready' = Ready
             \/ Owner = {} /\ (\E r \in Resolutions : Owner' = {r}) /\ Ready' = Ready
             \/ Owner # {} /\ ~Ready /\ Ready' /\ Owner' = Owner
  <2>1. /\ Indices' = Indices /\ builds'[i] = b
        /\ \A j \in Indices \ {i} : builds'[j] = builds[j]
    BY <1>4, UpdatedBuilds DEF StoreInv, Rewrite, Indices
  <2>2. builds[i] \in Build /\ b.res = builds[i].res /\ b.res \in Resolutions
    BY <1>1, <1>4 DEF Rewrite, Build
  <2>3. CASE builds[i].place = "staging" /\ b.place = "staging"
    <3>1. AtPath' = AtPath /\ i \notin AtPath
      BY <2>1, <2>3 DEF AtPath
    <3>2. \A j \in AtPath : builds'[j] = builds[j]
      BY <2>1, <3>1 DEF AtPath
    <3> QED BY <3>1, <3>2
  <2>4. CASE builds[i].place = "staging" /\ b.place = "path" /\ b.manifest = builds[i].manifest
             /\ AtPath = {}
    <3>1. AtPath' = {i}
      BY <2>1, <2>4 DEF AtPath
    <3>2. ~b.manifest
      BY <2>4 DEF StoreInv, BuildsSound, Sound
    <3>3. Owner = {} /\ ~Ready /\ Owner' = {b.res} /\ ~Ready'
      BY <2>1, <2>4, <3>1, <3>2
    <3> QED BY <2>2, <3>3
  <2>5. CASE builds[i].place = "path" /\ b.place = "path"
    <3>1. AtPath = {i} /\ AtPath' = {i}
      BY <2>1, <2>5 DEF StoreInv, OneAtPath, AtPath
    <3>2. /\ Owner = {b.res} /\ Owner' = {b.res}
          /\ Ready <=> builds[i].manifest
          /\ Ready' <=> b.manifest
      BY <2>1, <2>2, <3>1
    <3>3. builds[i].manifest => b.manifest
      BY <1>4, <2>2, <2>5 DEF Rewrite, Build
    <3> QED BY <2>2, <3>2, <3>3 DEF Build
  <2>6. b.place = "path" \/ (b.place = "staging" /\ builds[i].place = "staging")
    BY <1>4, <2>2 DEF Rewrite, Build
  <2> QED BY <1>4, <2>2, <2>3, <2>4, <2>5, <2>6 DEF Rewrite
<1> QED BY <1>2, <1>3, <1>4 DEF StoreStep

\* Competing resolutions never take the path from each other: it is placed
\* once, by Rename, and announced once, by WriteManifest.
THEOREM StoreImplementsSlot == Spec => ImplementsSlot
<1>1. Init => Slot!SlotInit
  BY DEF Init, Slot!SlotInit, AtPath, Indices
<1>2. StoreInv /\ StoreInv' /\ [Next]_vars => [Slot!SlotNext]_(Slot!slotVars)
  BY SlotStep, StepOfStore
<1> QED BY <1>1, <1>2, StoreInvAlways, PTL DEF Spec, ImplementsSlot, Slot!SlotSpec

-----------------------------------------------------------------------------
(* A retry finds at most one directory to resume, and a call that nothing    *)
(* struck fails only for a reason that lasts.                                *)

\* A call at work on a build holds the lock of its resolution: no other build
\* of the resolution is there to be resumed.
Lone == \A p \in Processes : pc[p] \in Working => Recoverable(res[p]) \subseteq {work[p]}

Unworked(b) == \A q \in Processes : work[q] # b

\* The path is taken by another identity, or by a publication that nobody will
\* complete any more.
Blocked(p) == \E b \in AtPath : builds[b].res # res[p] \/ (~builds[b].manifest /\ Unworked(b))

Altered(b) == b \in Indices /\ \E f \in Files : builds[b].raw[f] = "changed"

\* Labels at which the path has been found free of the resolution, and at which
\* prepared/ has been removed or not been made yet.
Unpublished == {"stage"} \union BeforeRename
Unprepared == {"staged", "downloading", "acquire", "verifying", "verify", "preparing", "prepare"}

Reason(p) ==
  /\ pc[p] = "slot" => \A b \in AtPath : builds[b].res = res[p] => ~builds[b].manifest
  /\ pc[p] \in Unpublished => \A b \in AtPath : builds[b].res # res[p]
  /\ pc[p] \in Unprepared => Mine(p).prepared = "none"
  /\ pc[p] = "mark" /\ ~disturbed[p] =>
       /\ exc[p] = "failed"
       /\ (\E b \in AtPath : builds[b].res # res[p]) \/ Altered(work[p])
  /\ pc[p] = "idle" /\ ~disturbed[p] /\ outcome[p].kind = "failed" =>
       Blocked(p) \/ Altered(outcome[p].build)

RetryInv ==
  /\ StoreInv
  /\ Lone
  /\ NothingToChoose
  /\ \A p \in Processes : Reason(p)

\* A step of p writes to its own build, or creates one.
OwnWrite(p) ==
  \/ UNCHANGED builds
  \/ work[p] # 0 /\ \E b : builds' = [builds EXCEPT ![work[p]] = b]
  \/ builds' = Append(builds, NewBuild(res[p])) /\ pc[p] = "stage"

LEMMA StepWritesOwn ==
  ASSUME StoreInv, NEW p \in Processes,
         (\E r \in Resolutions : Begin(p, r)) \/ Call(p) \/ Error(p) \/ Interrupt(p) \/ Kill(p)
  PROVE  OwnWrite(p)
<1>1. CASE (\E r \in Resolutions : Begin(p, r)) \/ Error(p) \/ Interrupt(p) \/ Kill(p)
  BY <1>1 DEF Begin, Error, Interrupt, Kill, OwnWrite
<1>2. CASE Finding(p)
  BY <1>2 DEF Finding, Lock, FindResolution, VerifyReady, CheckSlot, Read, End, OwnWrite
<1>3. CASE Stage(p)
  BY <1>3 DEF Stage, OwnWrite
<1>4. CASE ~Stage(p) /\ (Acquiring(p) \/ Preparing(p) \/ Publishing(p) \/ Mark(p))
  <2>1. pc[p] \in Working
    BY <1>4 DEF Acquiring, EnterTry, Clean, MarkDownloading, OpenRaw, FetchFile, Acquired,
                Preparing, MarkVerifying, VerifyRaw, MarkPreparing, OpenPrepared, Prepare,
                Publishing, CheckTarget, WriteRecord, RemoveState, Rename, WriteManifest, Seal,
                Mark, Working, InTry, Handlers
  <2>2. work[p] # 0
    BY <2>1, OwnBuild
  <2>3. builds' = builds \/ \E b : builds' = [builds EXCEPT ![work[p]] = b]
    <3>1. CASE Acquiring(p)
      BY <1>4, <3>1 DEF Acquiring, EnterTry, Clean, MarkDownloading, OpenRaw, FetchFile, Acquired,
                        Write, Read
    <3>2. CASE Preparing(p)
      BY <3>2 DEF Preparing, MarkVerifying, VerifyRaw, MarkPreparing, OpenPrepared, Prepare, Write,
                  Read, Refuse
    <3>3. CASE Publishing(p)
      BY <3>3 DEF Publishing, CheckTarget, WriteRecord, RemoveState, Rename, WriteManifest, Seal,
                  Write, Read, Refuse, End
    <3>4. CASE Mark(p)
      BY <3>4 DEF Mark
    <3> QED BY <1>4, <3>1, <3>2, <3>3, <3>4
  <2> QED BY <2>2, <2>3 DEF OwnWrite
<1> QED BY <1>1, <1>2, <1>3, <1>4 DEF Call

\* What every step keeps of every build.
LEMMA BuildsKept ==
  ASSUME StoreInv, StoreInv', StoreStep, NEW p \in Processes, OwnWrite(p), NEW j \in Indices
  PROVE  /\ j \in Indices' /\ builds[j] \in Build /\ builds'[j] \in Build
         /\ builds'[j] # builds[j] => j = work[p]
         /\ builds'[j].res = builds[j].res
         /\ builds[j].place = "path" => builds'[j].place = "path"
         /\ \A f \in Files : builds[j].raw[f] = "changed" => builds'[j].raw[f] = "changed"
<1>1. /\ builds \in Seq(Build) /\ builds' \in Seq(Build)
  BY DEF StoreInv, TypeOK
<1>2. j \in 1..Len(builds)
  BY DEF Indices
<1>3. CASE UNCHANGED builds
  BY <1>1, <1>2, <1>3 DEF Indices
<1>4. ASSUME NEW r \in Resolutions, builds' = Append(builds, NewBuild(r))
      PROVE  j \in Indices' /\ builds'[j] = builds[j]
  <2>1. Len(builds') = Len(builds) + 1 /\ builds'[j] = builds[j] /\ Len(builds) \in Nat
    BY <1>1, <1>2, <1>4, NewBuildType, AppendedBuilds DEF StoreInv
  <2> QED BY <1>2, <2>1 DEF Indices
<1>5. ASSUME NEW i \in Indices, NEW b \in Build, Rewrite(i, b)
      PROVE  /\ j \in Indices'
             /\ builds'[j].res = builds[j].res
             /\ builds[j].place = "path" => builds'[j].place = "path"
             /\ \A f \in Files : builds[j].raw[f] = "changed" => builds'[j].raw[f] = "changed"
  <2>1. /\ Indices' = Indices /\ builds'[i] = b
        /\ \A k \in Indices \ {i} : builds'[k] = builds[k]
    BY <1>5, UpdatedBuilds DEF StoreInv, Rewrite, Indices
  <2>2. CASE j # i
    BY <2>1, <2>2
  <2>3. CASE j = i
    <3>1. builds[i] \in Build
      BY <1>1, <1>2, <2>3
    <3>2. builds[i].place = "path" => b.place = "path"
      BY <1>5, <3>1 DEF Rewrite, Build
    <3> QED BY <1>5, <2>1, <2>3, <3>2 DEF Rewrite
  <2> QED BY <2>2, <2>3
<1>6. builds'[j] # builds[j] => j = work[p]
  <2>1. CASE work[p] # 0 /\ \E b : builds' = [builds EXCEPT ![work[p]] = b]
    BY <1>1, <1>2, <2>1
  <2>2. CASE builds' = Append(builds, NewBuild(res[p]))
    <3>1. res[p] \in Resolutions
      BY DEF StoreInv, TypeOK
    <3> QED BY <1>4, <2>2, <3>1
  <2> QED BY <2>1, <2>2 DEF OwnWrite
<1>7. j \in Indices'
  BY <1>3, <1>4, <1>5 DEF StoreStep
<1>8. builds[j] \in Build /\ builds'[j] \in Build
  BY <1>1, <1>2, <1>7 DEF Indices
<1> QED BY <1>3, <1>4, <1>5, <1>6, <1>7, <1>8 DEF StoreStep

\* A new build has just been staged.
LEMMA NewBuilds ==
  ASSUME StoreInv, StoreInv', NEW p \in Processes, OwnWrite(p), NEW j \in Indices' \ Indices
  PROVE  builds'[j] = NewBuild(res[p])
<1>1. builds \in Seq(Build) /\ builds' \in Seq(Build) /\ res[p] \in Resolutions
  BY DEF StoreInv, TypeOK
<1>2. CASE builds' = Append(builds, NewBuild(res[p]))
  <2>1. Len(builds') = Len(builds) + 1 /\ builds'[Len(builds) + 1] = NewBuild(res[p])
        /\ Len(builds) \in Nat
    BY <1>1, <1>2, NewBuildType, AppendedBuilds DEF StoreInv
  <2>2. j \in 1..(Len(builds) + 1) /\ j \notin 1..Len(builds)
    BY <2>1 DEF Indices
  <2>3. j = Len(builds) + 1
    BY <2>1, <2>2
  <2> QED BY <2>1, <2>3
<1>3. CASE ~(builds' = Append(builds, NewBuild(res[p])))
  <2>1. Len(builds') = Len(builds)
    <3>1. CASE UNCHANGED builds
      BY <3>1
    <3>2. ASSUME NEW b, builds' = [builds EXCEPT ![work[p]] = b] PROVE Len(builds') = Len(builds)
      <4>1. DOMAIN builds' = DOMAIN builds
        BY <3>2
      <4>2. DOMAIN builds = 1..Len(builds) /\ DOMAIN builds' = 1..Len(builds')
            /\ Len(builds) \in Nat /\ Len(builds') \in Nat
        BY <1>1
      <4> QED BY <4>1, <4>2
    <3> QED BY <1>3, <3>1, <3>2 DEF OwnWrite
  <2> QED BY <2>1 DEF Indices
<1> QED BY <1>2, <1>3

\* A step of p leaves the other processes where they are.
OthersStay(p) ==
  \A q \in Processes \ {p} :
    /\ pc'[q] = pc[q] /\ res'[q] = res[q] /\ work'[q] = work[q]
    /\ exc'[q] = exc[q] /\ outcome'[q] = outcome[q] /\ disturbed'[q] = disturbed[q]

ProcessStep(p) ==
  (\E r \in Resolutions : Begin(p, r)) \/ Call(p) \/ Error(p) \/ Interrupt(p) \/ Kill(p)

LEMMA OthersStand ==
  ASSUME TypeOK, NEW p \in Processes, ProcessStep(p)
  PROVE  OthersStay(p)
<1>1. /\ pc \in [Processes -> {"idle", "lock"} \union Locked]
      /\ res \in [Processes -> Resolutions]
      /\ work \in [Processes -> 0..Len(builds)]
      /\ exc \in [Processes -> {"none", "failed", "interrupted"}]
      /\ outcome \in [Processes -> [kind: Kinds, build: Nat]]
      /\ disturbed \in [Processes -> BOOLEAN]
  BY DEF TypeOK
<1>2. CASE (\E r \in Resolutions : Begin(p, r)) \/ Error(p) \/ Interrupt(p) \/ Kill(p)
  BY <1>1, <1>2 DEF OthersStay, Begin, Error, Interrupt, Kill, Caught, Goto
<1>3. CASE Finding(p) \/ Mark(p)
  BY <1>1, <1>3 DEF OthersStay, Finding, Lock, FindResolution, VerifyReady, CheckSlot, Mark, Read,
                    End, Goto
<1>4. CASE Acquiring(p)
  BY <1>1, <1>4 DEF OthersStay, Acquiring, Stage, EnterTry, Clean, MarkDownloading, OpenRaw,
                    FetchFile, Acquired, Read, Write, Goto
<1>5. CASE Preparing(p)
  BY <1>1, <1>5 DEF OthersStay, Preparing, MarkVerifying, VerifyRaw, MarkPreparing, OpenPrepared,
                    Prepare, Read, Write, Refuse, Caught, Goto
<1>6. CASE Publishing(p)
  BY <1>1, <1>6 DEF OthersStay, Publishing, CheckTarget, WriteRecord, RemoveState, Rename,
                    WriteManifest, Seal, Read, Write, Refuse, Caught, End, Goto
<1> QED BY <1>2, <1>3, <1>4, <1>5, <1>6 DEF ProcessStep, Call

\* A call takes up a build only by staging, and keeps it till it ends.
TakesUp(p) ==
  \/ work'[p] = 0
  \/ work'[p] = work[p] /\ res'[p] = res[p] /\ pc[p] \in Working
  \/ Stage(p)

LEMMA WorkTaken ==
  ASSUME StoreInv, NEW p \in Processes, ProcessStep(p)
  PROVE  TakesUp(p)
<1>1. /\ work \in [Processes -> 0..Len(builds)] /\ work[p] \in Nat
      /\ work[p] # 0 => pc[p] \in Working
  BY DEF StoreInv, TypeOK, CallsKnow
<1>2. CASE (\E r \in Resolutions : Begin(p, r)) \/ Error(p) \/ Interrupt(p) \/ Kill(p)
  BY <1>1, <1>2 DEF TakesUp, Begin, Error, Interrupt, Kill
<1>3. CASE Finding(p) \/ Mark(p)
  BY <1>1, <1>3 DEF TakesUp, Finding, Lock, FindResolution, VerifyReady, CheckSlot, Mark, Read, End
<1>4. CASE Acquiring(p)
  BY <1>1, <1>4 DEF TakesUp, Acquiring, EnterTry, Clean, MarkDownloading, OpenRaw, FetchFile,
                    Acquired, Read, Write
<1>5. CASE Preparing(p)
  BY <1>1, <1>5 DEF TakesUp, Preparing, MarkVerifying, VerifyRaw, MarkPreparing, OpenPrepared,
                    Prepare, Read, Write, Refuse
<1>6. CASE Publishing(p)
  BY <1>1, <1>6 DEF TakesUp, Publishing, CheckTarget, WriteRecord, RemoveState, Rename,
                    WriteManifest, Seal, Read, Write, Refuse, End
<1> QED BY <1>2, <1>3, <1>4, <1>5, <1>6 DEF ProcessStep, Call

LEMMA OthersUnaffected ==
  ASSUME StoreInv, NEW p \in Processes, NEW q \in Processes, p # q, pc[p] \in Working,
         pc[q] \in Locked
  PROVE  res[p] # res[q]
BY Labels DEF StoreInv, LocksExclude

\* The builds that can be resumed are those that could, and the one of p.
LEMMA ChoiceKept ==
  ASSUME RetryInv, StoreInv', StoreStep, NEW p \in Processes, ProcessStep(p)
  PROVE  Lone' /\ NothingToChoose'
<1>1. StoreInv /\ Lone /\ NothingToChoose /\ OwnWrite(p) /\ OthersStay(p) /\ TakesUp(p) /\ TypeOK
  BY StepWritesOwn, OthersStand, WorkTaken DEF RetryInv, StoreInv, ProcessStep
<1>2. ASSUME NEW r \in Resolutions, NEW b \in Recoverable(r)'
      PROVE  /\ b \in Indices
             /\ b \in Recoverable(r) \/ (b = work[p] /\ pc[p] \in Working /\ r = res[p])
  <2>1. b \in Indices' /\ builds'[b].place = "staging" /\ builds'[b].res = r
        /\ builds'[b].state \in {"failed", "interrupted"} /\ builds'[b].rawDir
        /\ Bridge = "libero"
    BY <1>2 DEF Recoverable
  <2>2. b \in Indices
    <3>1. ASSUME b \notin Indices PROVE FALSE
      <4>1. builds'[b] = NewBuild(res[p])
        BY <1>1, <2>1, <3>1, NewBuilds
      <4> QED BY <2>1, <4>1 DEF NewBuild
    <3> QED BY <3>1
  <2>3. builds'[b].res = builds[b].res /\ (builds'[b] # builds[b] => b = work[p])
    BY <1>1, <2>2, BuildsKept
  <2>4. CASE builds'[b] = builds[b]
    BY <2>1, <2>2, <2>4 DEF Recoverable
  <2>5. CASE builds'[b] # builds[b]
    <3>1. b = work[p] /\ work[p] # 0
      BY <2>2, <2>3, <2>5 DEF Indices
    <3>2. pc[p] \in Working /\ Mine(p).res = res[p]
      BY <1>1, <3>1 DEF StoreInv, CallsKnow
    <3> QED BY <2>1, <2>2, <2>3, <3>1, <3>2 DEF Mine
  <2> QED BY <2>2, <2>4, <2>5
<1>3. NothingToChoose'
  <2> SUFFICES ASSUME NEW r \in Resolutions, NEW b \in Recoverable(r)', NEW c \in Recoverable(r)'
               PROVE  b = c
    BY DEF NothingToChoose
  <2>1. CASE b \in Recoverable(r) /\ c \in Recoverable(r)
    BY <1>1, <2>1 DEF NothingToChoose
  <2>2. CASE pc[p] \in Working /\ r = res[p]
    BY <1>1, <1>2, <2>2 DEF Lone
  <2> QED BY <1>2, <2>1, <2>2
<1>4. Lone'
  <2> SUFFICES ASSUME NEW q \in Processes, pc'[q] \in Working, NEW b \in Recoverable(res[q])'
               PROVE  b = work'[q]
    BY DEF Lone
  <2>1. res'[q] \in Resolutions
    BY DEF StoreInv, TypeOK
  <2>2. PICK r \in Resolutions : r = res'[q]
    BY <2>1
  <2>3. b \in Recoverable(r)'
    BY <2>2 DEF Recoverable
  <2>4. b \in Recoverable(r) \/ (b = work[p] /\ pc[p] \in Working /\ r = res[p])
    BY <1>2, <2>3
  <2>5. CASE q # p
    <3>1. pc[q] \in Working /\ r = res[q] /\ work'[q] = work[q]
      BY <1>1, <2>2, <2>5 DEF OthersStay
    <3>2. ~(pc[p] \in Working /\ r = res[p])
      BY <1>1, <2>5, <3>1, OthersUnaffected, Labels
    <3> QED BY <1>1, <2>4, <3>1, <3>2 DEF Lone
  <2>6. CASE q = p
    <3>1. work'[p] # 0
      BY <2>6 DEF StoreInv, CallsKnow
    <3>2. CASE work'[p] = work[p] /\ res'[p] = res[p] /\ pc[p] \in Working
      BY <1>1, <2>2, <2>4, <2>6, <3>2 DEF Lone
    <3>3. CASE Stage(p)
      <4>1. pc[p] \notin Working /\ res' = res
        BY <3>3 DEF Stage, Working, InTry, Handlers
      <4>2. b \in Recoverable(r) /\ r = res[p]
        BY <2>2, <2>4, <2>6, <4>1
      <4>3. PICK c \in Recoverable(res[p]) : work' = [work EXCEPT ![p] = c]
        BY <3>3, <4>2 DEF Stage
      <4>4. work'[p] = c
        BY <1>1, <4>3 DEF TypeOK
      <4> QED BY <1>1, <2>6, <4>2, <4>4 DEF NothingToChoose
    <3> QED BY <1>1, <3>1, <3>2, <3>3 DEF TakesUp
  <2> QED BY <2>5, <2>6
<1> QED BY <1>3, <1>4

\* What the other processes know of the path and of their builds lasts.
LEMMA ReasonStands ==
  ASSUME RetryInv, StoreInv', StoreStep, NEW p \in Processes, ProcessStep(p),
         NEW q \in Processes, q # p
  PROVE  Reason(q)'
<1>1. StoreInv /\ Reason(q) /\ OwnWrite(p) /\ OthersStay(p) /\ TakesUp(p) /\ TypeOK
  BY StepWritesOwn, OthersStand, WorkTaken DEF RetryInv, StoreInv, ProcessStep
<1>2. /\ pc'[q] = pc[q] /\ res'[q] = res[q] /\ work'[q] = work[q] /\ exc'[q] = exc[q]
      /\ outcome'[q] = outcome[q] /\ disturbed'[q] = disturbed[q]
  BY <1>1 DEF OthersStay
<1>3. ASSUME NEW b \in AtPath' PROVE b \in Indices /\ builds'[b].res = builds[b].res
  <2>1. b \in Indices
    <3>1. ASSUME b \notin Indices PROVE FALSE
      <4>1. builds'[b] = NewBuild(res[p])
        BY <1>1, <3>1, NewBuilds DEF AtPath
      <4> QED BY <4>1 DEF NewBuild, AtPath
    <3> QED BY <3>1
  <2> QED BY <1>1, <2>1, BuildsKept
<1>4. ASSUME NEW b \in AtPath'
      PROVE  (b \in AtPath /\ builds'[b] = builds[b]) \/ (pc[p] \in Working /\ builds[b].res = res[p])
  <2>1. CASE builds'[b] = builds[b]
    BY <1>3, <2>1 DEF AtPath
  <2>2. CASE builds'[b] # builds[b]
    <3>1. b = work[p] /\ work[p] # 0
      BY <1>1, <1>3, <2>2, BuildsKept DEF Indices
    <3> QED BY <1>1, <3>1 DEF StoreInv, CallsKnow, Mine
  <2> QED BY <2>1, <2>2
<1>5. pc[q] \in Locked => ~(pc[p] \in Working /\ res[p] = res[q])
  BY <1>1, OthersUnaffected
<1>6. pc'[q] = "slot" => \A b \in AtPath' : builds'[b].res = res'[q] => ~builds'[b].manifest
  <2> SUFFICES ASSUME pc[q] = "slot", NEW b \in AtPath', builds[b].res = res[q]
               PROVE  ~builds'[b].manifest
    BY <1>2, <1>3
  <2>1. pc[q] \in Locked
    BY DEF Locked, BeforeTry
  <2>2. b \in AtPath /\ builds'[b] = builds[b]
    BY <1>4, <1>5, <2>1
  <2> QED BY <1>1, <2>2 DEF Reason
<1>7. pc'[q] \in Unpublished => \A b \in AtPath' : builds'[b].res # res'[q]
  <2> SUFFICES ASSUME pc[q] \in Unpublished, NEW b \in AtPath' PROVE builds[b].res # res[q]
    BY <1>2, <1>3
  <2>1. pc[q] \in Locked
    BY Labels DEF Unpublished, BeforeRename, Locked, BeforeTry
  <2> QED BY <1>1, <1>4, <1>5, <2>1 DEF Reason
<1>8. work[q] # 0 => work[q] \in Indices /\ builds'[work[q]] = builds[work[q]]
  <2> SUFFICES ASSUME work[q] # 0
               PROVE  work[q] \in Indices /\ builds'[work[q]] = builds[work[q]]
    OBVIOUS
  <2>1. work[q] # work[p]
    BY <1>1, Exclusive DEF ExclusiveStaging
  <2>2. work[q] \in Indices
    BY <1>1, MineTyped
  <2> QED BY <1>1, <2>1, <2>2, BuildsKept
<1>9. pc'[q] \in Unprepared => builds'[work'[q]].prepared = "none"
  <2> SUFFICES ASSUME pc[q] \in Unprepared PROVE builds'[work[q]].prepared = "none"
    BY <1>2
  <2>1. pc[q] \in Working
    BY DEF Unprepared, Working, InTry
  <2>2. work[q] # 0
    BY <1>1, <2>1, OwnBuild
  <2> QED BY <1>1, <1>8, <2>2 DEF Reason, Mine
<1>10. \A b : Altered(b) => Altered(b)'
  BY <1>1, BuildsKept DEF Altered
<1>11. ASSUME NEW b \in AtPath PROVE b \in AtPath' /\ builds'[b].res = builds[b].res
  BY <1>1, BuildsKept DEF AtPath
<1>12. pc'[q] = "mark" /\ ~disturbed'[q] =>
         /\ exc'[q] = "failed"
         /\ (\E b \in AtPath' : builds'[b].res # res'[q]) \/ Altered(work[q])'
  <2> SUFFICES ASSUME pc[q] = "mark", ~disturbed[q]
               PROVE  /\ exc[q] = "failed"
                      /\ (\E b \in AtPath' : builds'[b].res # res[q]) \/ Altered(work[q])'
    BY <1>2
  <2>1. exc[q] = "failed" /\ ((\E b \in AtPath : builds[b].res # res[q]) \/ Altered(work[q]))
    BY <1>1 DEF Reason
  <2>2. Altered(work[q]) => Altered(work[q])'
    BY <1>2, <1>10 DEF Altered
  <2> QED BY <1>11, <2>1, <2>2
<1>13. Blocked(q) => Blocked(q)'
  <2> SUFFICES ASSUME NEW b \in AtPath,
                      builds[b].res # res[q] \/ (~builds[b].manifest /\ Unworked(b))
               PROVE  builds'[b].res # res'[q] \/ (~builds'[b].manifest /\ Unworked(b)')
    BY <1>11 DEF Blocked, Unworked
  <2>1. CASE builds[b].res # res[q]
    BY <1>2, <1>11, <2>1
  <2>2. CASE ~builds[b].manifest /\ Unworked(b)
    <3>1. b \in Indices /\ builds[b].place = "path"
      BY DEF AtPath
    <3>2. builds'[b] = builds[b]
      BY <1>1, <2>2, <3>1, BuildsKept DEF Unworked
    <3>3. ASSUME NEW s \in Processes, work'[s] = b PROVE FALSE
      <4>1. s = p
        BY <1>1, <2>2, <3>3 DEF OthersStay, Unworked
      <4>2. work'[p] # 0 /\ work'[p] # work[p]
        BY <2>2, <3>1, <3>3, <4>1 DEF Unworked, Indices
      <4>3. Stage(p)
        BY <1>1, <4>2 DEF TakesUp
      <4>4. work'[p] \in Recoverable(res[p]) \/ work'[p] = Len(builds) + 1
        BY <1>1, <4>3 DEF Stage, TypeOK
      <4>5. work'[p] # Len(builds) + 1
        BY <1>1, <3>1, <3>3, <4>1 DEF Indices, TypeOK
      <4> QED BY <3>1, <3>3, <4>1, <4>4, <4>5 DEF Recoverable
    <3> QED BY <2>2, <3>2, <3>3 DEF Unworked
  <2> QED BY <2>1, <2>2
<1>14. pc'[q] = "idle" /\ ~disturbed'[q] /\ outcome'[q].kind = "failed" =>
         Blocked(q)' \/ Altered(outcome[q].build)'
  <2>1. Altered(outcome[q].build) => Altered(outcome[q].build)'
    BY <1>2, <1>10 DEF Altered
  <2> QED BY <1>1, <1>2, <1>13, <2>1 DEF Reason
<1> QED BY <1>6, <1>7, <1>9, <1>12, <1>14 DEF Reason, Mine

LEMMA LabelGroups ==
  /\ Unprepared \subseteq BeforeRename /\ BeforeRename \subseteq Working
  /\ "mark" \notin Unpublished /\ "idle" \notin Unpublished /\ "slot" \notin Unpublished
  /\ "lock" \notin Unpublished /\ "find" \notin Unpublished /\ "verify_ready" \notin Unpublished
  /\ "manifest" \notin Unpublished /\ "seal" \notin Unpublished
  /\ "mark" \notin Unprepared /\ "idle" \notin Unprepared /\ "slot" \notin Unprepared
  /\ Unprepared \subseteq Unpublished
BY DEF Unprepared, Unpublished, BeforeRename, Working, InTry, Handlers

\* The path stays free of the resolution until the call renames its build.
LEMMA StillUnpublished ==
  ASSUME RetryInv, StoreInv', StoreStep, NEW p \in Processes, ProcessStep(p), res'[p] = res[p],
         pc[p] \in Unpublished, pc'[p] \in BeforeRename
  PROVE  \A b \in AtPath' : builds'[b].res # res'[p]
<1> SUFFICES ASSUME NEW b \in AtPath' PROVE builds'[b].res # res[p]
  OBVIOUS
<1>1. StoreInv /\ Reason(p) /\ OwnWrite(p) /\ TakesUp(p)
  BY StepWritesOwn, WorkTaken DEF RetryInv, ProcessStep
<1>2. b \in Indices' /\ builds'[b].place = "path"
  BY DEF AtPath
<1>3. b \in Indices
  <2>1. ASSUME b \notin Indices PROVE FALSE
    <3>1. builds'[b] = NewBuild(res[p])
      BY <1>1, <1>2, <2>1, NewBuilds
    <3> QED BY <1>2, <3>1 DEF NewBuild
  <2> QED BY <2>1
<1>4. CASE builds'[b] = builds[b]
  BY <1>1, <1>2, <1>3, <1>4 DEF Reason, AtPath
<1>5. CASE builds'[b] # builds[b]
  <2>1. b = work[p] /\ work[p] # 0
    BY <1>1, <1>3, <1>5, BuildsKept DEF Indices
  <2>2. pc[p] \in Working
    BY <1>1, <2>1 DEF StoreInv, CallsKnow
  <2>3. ~Stage(p)
    BY <2>2 DEF Stage, Working, InTry, Handlers
  <2>4. pc'[p] \in Working
    BY LabelGroups
  <2>5. work'[p] # 0 /\ Knows(pc[p], Mine(p))'
    BY <2>4 DEF StoreInv, CallsKnow
  <2>6. work'[p] = work[p]
    BY <1>1, <2>3, <2>5 DEF TakesUp
  <2>7. builds'[work'[p]].place = "staging"
    BY <2>5 DEF Knows, Mine
  <2> QED BY <1>2, <2>1, <2>6, <2>7
<1> QED BY <1>4, <1>5

\* A step of the try block that does not move the build to the path.
LEMMA ReadReason ==
  ASSUME RetryInv, StoreInv', StoreStep, NEW p \in Processes, ProcessStep(p), NEW l,
         pc'[p] = l, res'[p] = res[p], pc[p] \in Unpublished, l \in BeforeRename,
         l \in Unprepared => Mine(p)'.prepared = "none"
  PROVE  Reason(p)'
<1>1. l \notin {"slot", "mark", "idle"}
  BY LabelGroups DEF Unpublished
<1>2. \A b \in AtPath' : builds'[b].res # res'[p]
  BY StillUnpublished
<1> QED BY <1>1, <1>2 DEF Reason

\* A call that leaves, or is sent to the except clauses, struck.
LEMMA StruckReason ==
  ASSUME NEW p \in Processes, pc'[p] \in {"idle", "mark"},
         disturbed'[p] \/ (pc'[p] = "idle" /\ outcome'[p].kind # "failed")
  PROVE  Reason(p)'
BY LabelGroups DEF Reason

\* A check of the try block fails for a reason that lasts.
LEMMA RefusedReason ==
  ASSUME StoreInv, NEW p \in Processes, Refuse(p),
         (\E b \in AtPath : builds[b].res # res[p]) \/ Altered(work[p])
  PROVE  Reason(p)'
<1>1. pc'[p] = "mark" /\ exc'[p] = "failed" /\ UNCHANGED <<res, work, builds, disturbed>>
  BY DEF Refuse, Caught, Goto, StoreInv, TypeOK
<1>2. AtPath' = AtPath /\ (Altered(work[p]) => Altered(work[p])')
  BY <1>1 DEF AtPath, Altered, Indices
<1> QED BY <1>1, <1>2, LabelGroups DEF Reason

LEMMA BeginReason ==
  ASSUME StoreInv, NEW p \in Processes, NEW r \in Resolutions, Begin(p, r)
  PROVE  Reason(p)'
<1>1. pc'[p] = "lock"
  BY DEF Begin, Goto, StoreInv, TypeOK
<1> QED BY <1>1, LabelGroups DEF Reason, Unprepared

LEMMA StruckKeeps ==
  ASSUME StoreInv, NEW p \in Processes, Error(p) \/ Interrupt(p) \/ Kill(p)
  PROVE  Reason(p)'
<1>1. /\ pc \in [Processes -> {"idle", "lock"} \union Locked]
      /\ outcome \in [Processes -> [kind: Kinds, build: Nat]]
      /\ disturbed \in [Processes -> BOOLEAN]
  BY DEF StoreInv, TypeOK
<1>2. CASE Error(p) \/ Interrupt(p)
  <2>1. pc'[p] \in {"idle", "mark"} /\ disturbed'[p]
    BY <1>1, <1>2 DEF Error, Interrupt, Caught, Goto
  <2> QED BY <2>1, StruckReason
<1>3. CASE Kill(p)
  <2>1. pc'[p] = "idle" /\ outcome'[p].kind = "killed"
    BY <1>1, <1>3 DEF Kill, Goto
  <2> QED BY <2>1, StruckReason
<1> QED BY <1>2, <1>3

\* Looking for a publication: the slot is refused only to what stays there.
LEMMA FindingReason ==
  ASSUME RetryInv, NEW p \in Processes, Finding(p)
  PROVE  Reason(p)'
<1>1. StoreInv /\ Reason(p) /\ pc \in [Processes -> {"idle", "lock"} \union Locked]
      /\ outcome \in [Processes -> [kind: Kinds, build: Nat]]
  BY DEF RetryInv, StoreInv, TypeOK
<1>2. CASE Lock(p)
  <2>1. pc'[p] = "find"
    BY <1>1, <1>2 DEF Lock, Read, Goto
  <2> QED BY <2>1, LabelGroups DEF Reason, Unprepared
<1>3. CASE FindResolution(p)
  <2>1. UNCHANGED <<res, builds>> /\ AtPath' = AtPath
    BY <1>3 DEF FindResolution, Read, AtPath, Indices
  <2>2. CASE \E b \in AtPath : builds[b].manifest /\ builds[b].res = res[p]
    <3>1. pc'[p] = "verify_ready"
      BY <1>1, <1>3, <2>2 DEF FindResolution, Read, Goto
    <3> QED BY <3>1, LabelGroups DEF Reason, Unprepared
  <2>3. CASE ~\E b \in AtPath : builds[b].manifest /\ builds[b].res = res[p]
    <3>1. pc'[p] = "slot"
      BY <1>1, <1>3, <2>3 DEF FindResolution, Read, Goto
    <3> QED BY <2>1, <2>3, <3>1, LabelGroups DEF Reason
  <2> QED BY <2>2, <2>3
<1>4. CASE VerifyReady(p)
  <2>1. \A b \in AtPath : Complete(b) /\ builds[b].prepared = "complete"
    BY <1>1 DEF StoreInv, BuildsSound, Sound, AtPath, Complete, AllGood
  <2>2. pc'[p] = "idle" /\ outcome'[p].kind = "reused"
    BY <1>1, <1>4, <2>1 DEF VerifyReady, End, Goto
  <2> QED BY <2>2, StruckReason
<1>5. CASE CheckSlot(p)
  <2>1. UNCHANGED <<res, builds>> /\ AtPath' = AtPath /\ pc[p] = "slot"
    BY <1>5 DEF CheckSlot, Read, End, AtPath, Indices
  <2>2. CASE AtPath = {}
    <3>1. pc'[p] = "stage"
      BY <1>1, <1>5, <2>2 DEF CheckSlot, Read, Goto
    <3> QED BY <2>1, <2>2, <3>1 DEF Reason, Unprepared
  <2>3. CASE AtPath # {}
    <3>1. pc'[p] = "idle" /\ work' = [work EXCEPT ![p] = 0]
      BY <1>1, <1>5, <2>3 DEF CheckSlot, End, Goto
    <3>2. PICK b \in AtPath : TRUE
      BY <2>3
    <3>3. builds[b].res = res[p] => ~builds[b].manifest
      BY <1>1, <2>1, <3>2 DEF Reason
    <3>4. builds[b].res = res[p] => Unworked(b)'
      <4> SUFFICES ASSUME builds[b].res = res[p], NEW q \in Processes, work'[q] = b PROVE FALSE
        BY DEF Unworked
      <4>1. b \in Indices /\ b # 0
        BY <3>2 DEF AtPath, Indices
      <4>2. work'[q] = IF q = p THEN 0 ELSE work[q]
        BY <1>1, <3>1 DEF StoreInv, TypeOK
      <4>3. q # p /\ work[q] = b
        BY <4>1, <4>2
      <4>4. pc[q] \in Working /\ res[q] = res[p]
        BY <1>1, <4>1, <4>3 DEF StoreInv, CallsKnow, Mine
      <4>5. pc[p] \in Locked
        BY <2>1 DEF Locked, BeforeTry
      <4> QED BY <1>1, <4>3, <4>4, <4>5, OthersUnaffected
    <3>5. Blocked(p)'
      BY <2>1, <3>2, <3>3, <3>4 DEF Blocked
    <3> QED BY <3>1, <3>5, LabelGroups DEF Reason
  <2> QED BY <2>2, <2>3
<1> QED BY <1>2, <1>3, <1>4, <1>5 DEF Finding

\* Staging and acquiring: prepared/ is removed before anything is downloaded.
LEMMA AcquiringReason ==
  ASSUME RetryInv, StoreInv', StoreStep, NEW p \in Processes, Acquiring(p)
  PROVE  Reason(p)'
<1>1. /\ StoreInv /\ Reason(p) /\ ProcessStep(p)
      /\ pc \in [Processes -> {"idle", "lock"} \union Locked]
      /\ work \in [Processes -> 0..Len(builds)]
      /\ builds \in Seq(Build)
  BY DEF RetryInv, StoreInv, TypeOK, ProcessStep, Call
<1>2. res' = res
  BY DEF Acquiring, Stage, EnterTry, Clean, MarkDownloading, OpenRaw, FetchFile, Acquired, Read,
         Write
<1>3. ASSUME NEW l \in BeforeRename, pc'[p] = l, pc[p] \in Unpublished,
             l \in Unprepared => Mine(p)'.prepared = "none"
      PROVE  Reason(p)'
  BY <1>1, <1>2, <1>3, ReadReason
<1>4. CASE Stage(p)
  <2>1. pc[p] = "stage"
    BY <1>4 DEF Stage
  <2>2. CASE Recoverable(res[p]) # {}
    <3>1. pc'[p] = "clean"
      BY <1>1, <1>4, <2>2 DEF Stage, Goto
    <3>2. "clean" \in BeforeRename /\ "clean" \notin Unprepared
      BY DEF BeforeRename, Working, InTry, Unprepared
    <3> QED BY <1>3, <2>1, <3>1, <3>2 DEF Unpublished
  <2>3. CASE Recoverable(res[p]) = {}
    <3>1. /\ pc'[p] = "staged" /\ builds' = Append(builds, NewBuild(res[p]))
          /\ work'[p] = Len(builds) + 1
      <4>1. /\ pc' = [pc EXCEPT ![p] = "staged"] /\ builds' = Append(builds, NewBuild(res[p]))
            /\ work' = [work EXCEPT ![p] = Len(builds) + 1]
        BY <1>4, <2>3 DEF Stage, Goto
      <4> QED BY <1>1, <4>1
    <3>2. builds'[work'[p]] = NewBuild(res[p])
      <4>1. res[p] \in Resolutions
        BY DEF RetryInv, StoreInv, TypeOK
      <4> QED BY <1>1, <3>1, <4>1, NewBuildType, AppendedBuilds DEF StoreInv
    <3>3. Mine(p)'.prepared = "none"
      BY <3>2 DEF Mine, NewBuild
    <3>4. "staged" \in BeforeRename
      BY DEF BeforeRename, Working, InTry
    <3> QED BY <1>3, <2>1, <3>1, <3>3, <3>4 DEF Unpublished
  <2> QED BY <2>2, <2>3
<1>5. CASE ~Stage(p)
  <2>1. pc[p] \in BeforeRename /\ pc[p] \in Working /\ pc[p] \in Unpublished
    BY <1>5 DEF Acquiring, EnterTry, Clean, MarkDownloading, OpenRaw, FetchFile, Acquired,
                Unpublished, BeforeRename, Working, InTry, Handlers
  <2>2. work[p] \in Indices /\ Mine(p) \in Build
    BY <1>1, <2>1, OwnBuild
  <2>3. ASSUME NEW b, NEW l \in BeforeRename, Write(p, b, l),
               l \in Unprepared => b.prepared = "none"
        PROVE  Reason(p)'
    <3>1. Mine(p)' = b /\ pc'[p] = l
      BY <1>1, <2>2, <2>3 DEF Write, Goto, Mine, Indices
    <3> QED BY <1>3, <2>1, <2>3, <3>1
  <2>4. ASSUME NEW l \in BeforeRename, Read(p, l), pc[p] \in Unprepared
        PROVE  Reason(p)'
    <3>1. Mine(p)' = Mine(p) /\ pc'[p] = l
      BY <1>1, <2>4 DEF Read, Goto, Mine
    <3> QED BY <1>1, <1>3, <2>1, <2>4, <3>1 DEF Reason
  <2>5. {"clean", "downloading", "acquire", "verifying"} \subseteq BeforeRename
        /\ {"staged", "downloading", "acquire"} \subseteq Unprepared /\ "clean" \notin Unprepared
    BY DEF BeforeRename, Working, InTry, Unprepared
  <2>6. CASE EnterTry(p) \/ Acquired(p)
    BY <2>4, <2>5, <2>6 DEF EnterTry, Acquired
  <2>7. CASE Clean(p)
    <3>1. CASE Mine(p).prepared # "none"
      BY <2>3, <2>5, <2>7, <3>1 DEF Clean
    <3>2. CASE Mine(p).prepared = "none"
      <4>1. [Mine(p) EXCEPT !.record = FALSE].prepared = "none"
        BY <2>2, <3>2 DEF Build
      <4> QED BY <2>3, <2>5, <2>7, <3>2, <4>1 DEF Clean
    <3> QED BY <3>1, <3>2
  <2>8. CASE MarkDownloading(p)
    <3>1. pc[p] = "downloading" /\ Mine(p).prepared = "none"
      BY <1>1, <2>5, <2>8 DEF MarkDownloading, Reason
    <3>2. [Mine(p) EXCEPT !.state = "downloading"].prepared = "none"
      BY <2>2, <3>1 DEF Build
    <3> QED BY <2>3, <2>5, <2>8, <3>2 DEF MarkDownloading
  <2>9. CASE OpenRaw(p)
    <3>1. pc[p] = "acquire" /\ Mine(p).prepared = "none"
      BY <1>1, <2>5, <2>9 DEF OpenRaw, Reason
    <3>2. [Mine(p) EXCEPT !.rawDir = TRUE].prepared = "none"
      BY <2>2, <3>1 DEF Build
    <3> QED BY <2>3, <2>5, <2>9, <3>2 DEF OpenRaw
  <2>10. CASE FetchFile(p)
    <3>1. pc[p] = "acquire" /\ Mine(p).prepared = "none"
      BY <1>1, <2>5, <2>10 DEF FetchFile, Reason
    <3>2. PICK f \in Missing(p) : \E s : Write(p, [Mine(p) EXCEPT !.raw[f] = s], "acquire")
      BY <2>10 DEF FetchFile
    <3>3. PICK s : Write(p, [Mine(p) EXCEPT !.raw[f] = s], "acquire")
      BY <3>2
    <3>4. [Mine(p) EXCEPT !.raw[f] = s].prepared = "none"
      BY <2>2, <3>1 DEF Build
    <3> QED BY <2>3, <2>5, <3>3, <3>4
  <2> QED BY <1>5, <2>6, <2>7, <2>8, <2>9, <2>10 DEF Acquiring
<1> QED BY <1>4, <1>5

\* Verifying and preparing: only a source that changed makes the digest differ,
\* and prepared/ is never there yet.
LEMMA PreparingReason ==
  ASSUME RetryInv, StoreInv', StoreStep, NEW p \in Processes, Preparing(p)
  PROVE  Reason(p)'
<1>1. /\ StoreInv /\ Reason(p) /\ ProcessStep(p)
      /\ pc \in [Processes -> {"idle", "lock"} \union Locked]
      /\ builds \in Seq(Build)
  BY DEF RetryInv, StoreInv, TypeOK, ProcessStep, Call
<1>2. pc[p] \in BeforeRename /\ pc[p] \in Working /\ pc[p] \in Unpublished
  BY DEF Preparing, MarkVerifying, VerifyRaw, MarkPreparing, OpenPrepared, Prepare, Unpublished,
         BeforeRename, Working, InTry, Handlers
<1>3. work[p] \in Indices /\ Mine(p) \in Build /\ Knows(pc[p], Mine(p)) /\ Sound(Mine(p))
  BY <1>1, <1>2, OwnBuild
<1>4. ASSUME NEW b, NEW l \in BeforeRename, Write(p, b, l), l \in Unprepared => b.prepared = "none"
      PROVE  Reason(p)'
  <2>1. Mine(p)' = b /\ pc'[p] = l /\ res' = res
    BY <1>1, <1>3, <1>4 DEF Write, Goto, Mine, Indices
  <2> QED BY <1>1, <1>2, <1>4, <2>1, ReadReason
<1>5. {"verify", "preparing", "prepare", "prepared", "target"} \subseteq BeforeRename
      /\ {"verifying", "verify", "preparing", "prepare"} \subseteq Unprepared
      /\ "prepared" \notin Unprepared /\ "target" \notin Unprepared
  BY DEF BeforeRename, Working, InTry, Handlers, Unprepared
<1>6. pc[p] \in Unprepared => Mine(p).prepared = "none"
  BY <1>1 DEF Reason
<1>7. CASE MarkVerifying(p)
  <2>1. [Mine(p) EXCEPT !.state = "verifying"].prepared = "none"
    BY <1>3, <1>5, <1>6, <1>7 DEF MarkVerifying, Build
  <2> QED BY <1>4, <1>5, <1>7, <2>1 DEF MarkVerifying
<1>8. CASE VerifyRaw(p)
  <2>1. pc[p] = "verify"
    BY <1>8 DEF VerifyRaw
  <2>2. CASE DigestMatches(p)
    <3>1. Mine(p)' = Mine(p) /\ pc'[p] = "preparing" /\ res' = res
      BY <1>1, <1>8, <2>2 DEF VerifyRaw, Read, Goto, Mine
    <3> QED BY <1>1, <1>2, <1>5, <1>6, <2>1, <3>1, ReadReason
  <2>3. CASE ~DigestMatches(p)
    <3>1. \A f \in Files : Mine(p).raw[f] \in {"good", "changed"}
      BY <1>3, <2>1 DEF Knows, Downloaded
    <3>2. Bridge # "libero"
      BY <2>3, <3>1, StoreAssumption DEF DigestMatches
    <3>3. ~Complete(work[p])
      BY <2>3, <3>2 DEF DigestMatches
    <3>4. Altered(work[p])
      BY <1>3, <3>1, <3>3 DEF Complete, Altered, Mine
    <3> QED BY <1>1, <1>8, <2>3, <3>4, RefusedReason DEF VerifyRaw
  <2> QED BY <2>2, <2>3
<1>9. CASE MarkPreparing(p)
  <2>1. [Mine(p) EXCEPT !.state = "preparing"].prepared = "none"
    BY <1>3, <1>5, <1>6, <1>9 DEF MarkPreparing, Build
  <2> QED BY <1>4, <1>5, <1>9, <2>1 DEF MarkPreparing
<1>10. CASE OpenPrepared(p)
  <2>1. Mine(p).prepared = "none"
    BY <1>5, <1>6, <1>10 DEF OpenPrepared
  <2> QED BY <1>4, <1>5, <1>10, <2>1 DEF OpenPrepared
<1>11. CASE Prepare(p)
  BY <1>4, <1>5, <1>11 DEF Prepare
<1> QED BY <1>7, <1>8, <1>9, <1>10, <1>11 DEF Preparing

\* Publishing: whatever took the path has another identity.
LEMMA PublishingReason ==
  ASSUME RetryInv, StoreInv', StoreStep, NEW p \in Processes, Publishing(p)
  PROVE  Reason(p)'
<1>1. /\ StoreInv /\ Reason(p) /\ ProcessStep(p)
      /\ pc \in [Processes -> {"idle", "lock"} \union Locked]
      /\ outcome \in [Processes -> [kind: Kinds, build: Nat]]
      /\ builds \in Seq(Build)
  BY DEF RetryInv, StoreInv, TypeOK, ProcessStep, Call
<1>2. {"target", "record", "unstate", "rename"} \subseteq BeforeRename
      /\ {"record", "unstate", "rename"} \cap Unprepared = {}
      /\ BeforeRename \subseteq Unpublished
  BY DEF BeforeRename, Working, InTry, Handlers, Unprepared, Unpublished
<1>3. ASSUME NEW l \in {"record", "unstate", "rename"}, pc'[p] = l, res' = res,
             pc[p] \in BeforeRename
      PROVE  Reason(p)'
  BY <1>1, <1>2, <1>3, ReadReason
<1>4. ASSUME pc[p] \in BeforeRename, AtPath # {}, Refuse(p) PROVE Reason(p)'
  BY <1>1, <1>2, <1>4, RefusedReason DEF Reason
<1>5. CASE CheckTarget(p)
  BY <1>1, <1>2, <1>3, <1>4, <1>5 DEF CheckTarget, Read, Goto
<1>6. CASE WriteRecord(p) \/ RemoveState(p)
  BY <1>1, <1>2, <1>3, <1>6 DEF WriteRecord, RemoveState, Write, Goto
<1>7. CASE Rename(p)
  <2>1. CASE AtPath = {}
    <3>1. pc'[p] = "manifest"
      BY <1>1, <1>7, <2>1 DEF Rename, Write, Goto
    <3> QED BY <3>1, LabelGroups DEF Reason, Unprepared
  <2> QED BY <1>2, <1>4, <1>7, <2>1 DEF Rename
<1>8. CASE WriteManifest(p)
  <2>1. pc'[p] = "seal"
    BY <1>1, <1>8 DEF WriteManifest, Write, Goto
  <2> QED BY <2>1, LabelGroups DEF Reason, Unprepared
<1>9. CASE Seal(p)
  <2>1. pc'[p] = "idle" /\ outcome'[p].kind = "published"
    BY <1>1, <1>9 DEF Seal, End, Goto
  <2> QED BY <2>1, StruckReason
<1> QED BY <1>5, <1>6, <1>7, <1>8, <1>9 DEF Publishing

\* The except clause passes on the reason it was given.
LEMMA MarkReason ==
  ASSUME RetryInv, StoreInv', StoreStep, NEW p \in Processes, Mark(p)
  PROVE  Reason(p)'
<1>1. /\ StoreInv /\ Reason(p) /\ OwnWrite(p)
      /\ pc \in [Processes -> {"idle", "lock"} \union Locked]
      /\ outcome \in [Processes -> [kind: Kinds, build: Nat]]
  BY StepWritesOwn DEF RetryInv, StoreInv, TypeOK, Call
<1>2. /\ pc[p] = "mark" /\ pc'[p] = "idle" /\ UNCHANGED <<res, disturbed>>
      /\ outcome'[p].kind = exc[p] /\ outcome'[p].build = work[p]
  BY <1>1 DEF Mark, Goto
<1>3. ASSUME ~disturbed[p] PROVE Blocked(p)' \/ Altered(outcome[p].build)'
  <2>1. (\E b \in AtPath : builds[b].res # res[p]) \/ Altered(work[p])
    BY <1>1, <1>2, <1>3 DEF Reason
  <2>2. CASE \E b \in AtPath : builds[b].res # res[p]
    <3>1. PICK b \in AtPath : builds[b].res # res[p]
      BY <2>2
    <3>2. b \in AtPath' /\ builds'[b].res = builds[b].res
      BY <1>1, <3>1, BuildsKept DEF AtPath
    <3> QED BY <1>2, <3>1, <3>2 DEF Blocked
  <2>3. CASE Altered(work[p])
    <3>1. \A f \in Files : builds[work[p]].raw[f] = "changed" => builds'[work[p]].raw[f] = "changed"
      BY <1>1, <2>3, BuildsKept DEF Altered
    <3>2. work[p] \in Indices'
      BY <1>1, <2>3, BuildsKept DEF Altered
    <3> QED BY <1>2, <2>3, <3>1, <3>2 DEF Altered
  <2> QED BY <2>1, <2>2, <2>3
<1> QED BY <1>2, <1>3, LabelGroups DEF Reason

LEMMA RetryPreserved == RetryInv /\ [Next]_vars => RetryInv'
<1> SUFFICES ASSUME RetryInv, [Next]_vars PROVE RetryInv'
  OBVIOUS
<1>1. StoreInv /\ StoreInv' /\ StoreStep
  BY StoreInvNext, StepOfStore DEF RetryInv
<1>2. ASSUME NEW p \in Processes, ProcessStep(p) PROVE RetryInv'
  <2>1. Lone' /\ NothingToChoose'
    BY <1>1, <1>2, ChoiceKept
  <2>2. Reason(p)'
    BY <1>1, <1>2, BeginReason, StruckKeeps, FindingReason, AcquiringReason, PreparingReason,
       PublishingReason, MarkReason DEF ProcessStep, Call
  <2>3. \A q \in Processes \ {p} : Reason(q)'
    BY <1>1, <1>2, ReasonStands
  <2> QED BY <1>1, <2>1, <2>2, <2>3 DEF RetryInv
<1>3. CASE UNCHANGED vars
  <2>1. Lone' /\ NothingToChoose'
    BY <1>3 DEF RetryInv, Lone, NothingToChoose, Recoverable, Indices, vars
  <2>2. \A p \in Processes : Reason(p)'
    BY <1>3 DEF RetryInv, Reason, Blocked, Altered, Unworked, AtPath, Indices, Mine, vars
  <2> QED BY <1>1, <2>1, <2>2 DEF RetryInv
<1> QED BY <1>2, <1>3 DEF Next, ProcessStep

LEMMA RetryInitially == Init => RetryInv
<1> SUFFICES ASSUME Init PROVE RetryInv
  OBVIOUS
<1>1. Indices = {} /\ \A p \in Processes : pc[p] = "idle" /\ outcome[p].kind = "none"
  BY DEF Init, Indices
<1>2. Lone /\ NothingToChoose
  BY <1>1 DEF Lone, NothingToChoose, Recoverable
<1>3. \A p \in Processes : Reason(p)
  BY <1>1, LabelGroups DEF Reason
<1> QED BY <1>2, <1>3, StoreInvInit DEF RetryInv

(* A retry finds the one directory its predecessors left, whatever struck    *)
(* them, and a call that nothing struck fails only for a reason that the     *)
(* retry would meet again (_recoverable_staging, _materialize).              *)
THEOREM RetriesAreSound == Spec => []OneRecoverableStaging
<1>1. RetryInv => OneRecoverableStaging
  <2> SUFFICES ASSUME RetryInv, NEW p \in Processes, outcome[p].kind = "failed",
                      pc[p] = "idle", ~disturbed[p]
               PROVE  \/ \E b \in AtPath : builds[b].res # res[p] \/ ~builds[b].manifest
                      \/ outcome[p].build # 0 /\ ~Complete(outcome[p].build)
    BY DEF OneRecoverableStaging, FailuresExplained, RetryInv
  <2>1. Blocked(p) \/ Altered(outcome[p].build)
    BY DEF RetryInv, Reason
  <2>2. Altered(outcome[p].build) => outcome[p].build # 0 /\ ~Complete(outcome[p].build)
    BY DEF Altered, Complete, Indices
  <2> QED BY <2>1, <2>2 DEF Blocked
<1> QED BY <1>1, RetryInitially, RetryPreserved, PTL DEF Spec
=============================================================================
