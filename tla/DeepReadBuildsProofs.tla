------------------------ MODULE DeepReadBuildsProofs ------------------------
(***************************************************************************)
(* Theorems of DeepReadBuilds, for any number of commands, readers and     *)
(* builds, and any number of builds that a prune keeps.                    *)
(***************************************************************************)
EXTENDS DeepReadBuilds, FiniteSetTheorems, TLAPS

-----------------------------------------------------------------------------
(* The inductive invariant *)

\* A build that is there has been started and has seen no write that is still to come; one
\* that is ready has its rows, the active one is ready, and there is one of them.
BuildInv ==
    /\ \A i \in Ids : There(i) =>
        /\ i <= started
        /\ builds[i].status = "ready" => builds[i].rows # None
        /\ builds[i].active => builds[i].status = "ready"
        /\ builds[i].rows # None => builds[i].rows <= version
    /\ \A i, j \in Ids : Active(i) /\ Active(j) => i = j

\* Every command has a build of its own.  Nobody else makes it ready, so that it is still
\* being built unless the answer of its activation has been lost.
JobInv ==
    /\ \A c \in Commands : job[c] # None =>
        /\ job[c].id <= started
        /\ job[c].stage = "register" => ~There(job[c].id)
        /\ There(job[c].id) /\ (job[c].stage # "fail" \/ lost = 0) =>
               builds[job[c].id].status = "building"
        /\ There(job[c].id) /\ job[c].stage = "activate" => builds[job[c].id].rows # None
    /\ \A c, d \in Commands :
        job[c] # None /\ job[d] # None /\ job[c].id = job[d].id => c = d

\* While a command is alone nobody fills another build, so that none has newer rows.
AloneInv ==
    /\ \A c, d \in Commands : job[c] # None /\ job[c].alone /\ d # c => job[d] = None
    /\ \A c \in Commands, i \in Ids :
        Stage(c, "activate") /\ job[c].alone /\ There(job[c].id) /\ There(i) /\ builds[i].rows # None =>
            builds[i].rows <= builds[job[c].id].rows

\* The build a request has found is still there and has its rows.
ReadInv ==
    QuietPrune => \A r \in Readers : read[r] # None =>
        IF read[r].open
        THEN There(read[r].id) /\ builds[read[r].id].rows # None
        ELSE read[r].rows # None

DeepInv == TypeOK /\ BuildInv /\ JobInv /\ AloneInv /\ ReadInv

-----------------------------------------------------------------------------
(* What the types say *)

LEMMA BuildIs ==
    ASSUME TypeOK, NEW i \in Ids, There(i)
    PROVE  /\ builds[i] \in Builds
           /\ builds[i].status \in {"building", "ready", "failed"} /\ builds[i].active \in BOOLEAN
           /\ builds[i].rows \in Versions \cup {None}
BY DEF TypeOK, There, Builds

LEMMA JobIs ==
    ASSUME TypeOK, NEW c \in Commands, job[c] # None
    PROVE  /\ job[c] \in Jobs /\ job[c].id \in Ids
           /\ job[c].stage \in {"register", "fill", "activate", "fail"} /\ job[c].alone \in BOOLEAN
BY DEF TypeOK, Jobs

LEMMA ReadIs ==
    ASSUME TypeOK, NEW r \in Readers, read[r] # None
    PROVE  /\ read[r] \in Reads /\ read[r].id \in Ids /\ read[r].open \in BOOLEAN
           /\ read[r].rows \in Versions \cup {None}
BY DEF TypeOK, Reads

LEMMA NumbersAre ==
    ASSUME TypeOK
    PROVE  /\ version \in Nat /\ started \in Nat /\ lost \in Nat
           /\ \A i \in Ids : i \in Nat
           /\ \A v \in Versions : v \in Nat /\ v # None
BY BuildsAssumption DEF TypeOK, Versions, Ids

LEMMA NoneIsNone ==
    /\ None \notin Builds /\ None \notin Jobs /\ None \notin Reads /\ None \notin Versions
BY BuildsAssumption

\* What a switch leaves of each build.
LEMMA SwitchedIs ==
    ASSUME TypeOK, NEW i \in Ids, There(i), builds' = SwitchedTo(i)
    PROVE  /\ builds' \in [Ids -> Builds \cup {None}]
           /\ \A j \in Ids : There(j)' <=> There(j)
           /\ builds'[i].status = "ready" /\ builds'[i].active /\ builds'[i].rows = builds[i].rows
           /\ \A j \in Ids \ {i} : There(j) =>
                 ~builds'[j].active /\ builds'[j].status = builds[j].status /\ builds'[j].rows = builds[j].rows
<1>1. /\ builds[i] \in Builds
      /\ builds'[i] = [builds[i] EXCEPT !.status = "ready", !.active = TRUE]
  BY BuildIs DEF SwitchedTo
<1>2. builds'[i] \in Builds /\ builds'[i].status = "ready" /\ builds'[i].active /\ builds'[i].rows = builds[i].rows
  BY <1>1 DEF Builds
<1>3. ASSUME NEW j \in Ids \ {i}, There(j)
      PROVE  /\ builds'[j] \in Builds /\ ~builds'[j].active
             /\ builds'[j].status = builds[j].status /\ builds'[j].rows = builds[j].rows
  <2>1. builds[j] \in Builds
    BY <1>3, BuildIs
  <2>2. CASE builds[j].active
    <3>1. builds'[j] = [builds[j] EXCEPT !.active = FALSE]
      BY <1>3, <2>2 DEF SwitchedTo, Active
    <3> QED BY <2>1, <3>1 DEF Builds
  <2>3. CASE ~builds[j].active
    BY <1>3, <2>1, <2>3 DEF SwitchedTo, Active
  <2> QED BY <2>2, <2>3
<1>4. ASSUME NEW j \in Ids \ {i}, ~There(j) PROVE builds'[j] = None
  BY <1>4 DEF SwitchedTo, Active, There
<1>5. \A j \in Ids : There(j)' <=> There(j)
  BY <1>2, <1>3, <1>4, NoneIsNone DEF There
<1>6. \A j \in Ids : builds'[j] \in Builds \cup {None}
  BY <1>2, <1>3, <1>4
<1>7. builds' \in [Ids -> Builds \cup {None}]
  BY <1>6 DEF SwitchedTo
<1> QED BY <1>2, <1>3, <1>5, <1>7

-----------------------------------------------------------------------------
(* Every step preserves the invariant *)

\* A step that leaves the builds and the reads alone, and lets commands only go on to
\* a stage that says less of their build.
LEMMA CommandMoves ==
    ASSUME DeepInv, NEW c \in Commands, job[c] # None,
           \/ Stop(c)
           \/ Stage(c, "fill") /\ GoTo(c, "fail")
           \/ Stage(c, "activate") /\ GoTo(c, "fail"),
           UNCHANGED <<version, started, builds, read, lost>>
    PROVE  DeepInv'
<1>0. TypeOK /\ job[c] \in Jobs
  BY JobIs DEF DeepInv
<1>1. \/ job' = [job EXCEPT ![c] = None]
      \/ /\ job[c].stage # "fail" /\ job' = [job EXCEPT ![c] = [job[c] EXCEPT !.stage = "fail"]]
         /\ [job[c] EXCEPT !.stage = "fail"] \in Jobs
         /\ [job[c] EXCEPT !.stage = "fail"].id = job[c].id
         /\ [job[c] EXCEPT !.stage = "fail"].alone = job[c].alone
         /\ [job[c] EXCEPT !.stage = "fail"].stage = "fail"
  BY <1>0 DEF Stop, GoTo, Stage, Jobs
<1>2. TypeOK'
  BY <1>0, <1>1 DEF TypeOK
<1>3. /\ \A d \in Commands \ {c} : job'[d] = job[d]
      /\ job'[c] # None => /\ job'[c].id = job[c].id /\ job'[c].alone = job[c].alone
                           /\ job'[c].stage = "fail" /\ job[c].stage # "fail"
  BY <1>0, <1>1 DEF TypeOK
<1>4. \A i \in Ids : There(i)' <=> There(i)
  BY DEF There
<1>5. BuildInv' /\ ReadInv'
  BY <1>4 DEF DeepInv, BuildInv, ReadInv, Active, There
<1>6. JobInv'
  BY <1>0, <1>3, <1>4, JobIs DEF DeepInv, JobInv, There
<1>7. AloneInv'
  BY <1>0, <1>3, <1>4, JobIs DEF DeepInv, AloneInv, There, Stage
<1> QED BY <1>2, <1>5, <1>6, <1>7 DEF DeepInv

LEMMA WriteKeeps == DeepInv /\ WriteEdges => DeepInv'
<1> SUFFICES ASSUME DeepInv, WriteEdges PROVE DeepInv'
  OBVIOUS
<1>1. version' = version + 1 /\ version' \in Versions /\ version \in Nat
  BY BuildsAssumption DEF WriteEdges, DeepInv, TypeOK, Versions
<1>2. TypeOK'
  BY <1>1 DEF WriteEdges, DeepInv, TypeOK
<1>3. BuildInv'
  <2>1. \A i \in Ids : There(i) /\ builds[i].rows # None => builds[i].rows \in Nat
    BY BuildIs, NumbersAre DEF DeepInv
  <2> QED BY <1>1, <2>1 DEF WriteEdges, DeepInv, BuildInv, There, Active
<1>4. JobInv' /\ AloneInv' /\ ReadInv'
  BY DEF WriteEdges, DeepInv, JobInv, AloneInv, ReadInv, There, Stage
<1> QED BY <1>2, <1>3, <1>4 DEF DeepInv

LEMMA StartKeeps ==
    ASSUME DeepInv, NEW c \in Commands, StartBuild(c)
    PROVE  DeepInv'
<1>0. TypeOK /\ started \in Nat /\ started' = started + 1 /\ started' \in Ids
  BY BuildsAssumption DEF StartBuild, DeepInv, TypeOK, Ids
<1> DEFINE new == [id |-> started', stage |-> "register", alone |-> \A d \in Commands : job[d] = None]
<1>1. /\ new \in Jobs /\ new # None
      /\ new.id = started' /\ new.stage = "register"
      /\ new.alone => \A d \in Commands : job[d] = None
  <2>1. (\A d \in Commands : job[d] = None) \in BOOLEAN
    OBVIOUS
  <2>2. new \in Jobs
    BY <1>0, <2>1, Zenon DEF Jobs
  <2> QED BY <2>2, NoneIsNone
<1> HIDE DEF new
<1>2. job'[c] = new
  BY DEF StartBuild, new
<1>3. ASSUME NEW d \in Commands \ {c}
      PROVE  /\ job'[d] \in Jobs \cup {None} /\ (job'[d] # None <=> job[d] # None)
             /\ job[d] # None => /\ job'[d].id = job[d].id /\ job'[d].stage = job[d].stage
                                 /\ ~job'[d].alone
  <2>1. CASE job[d] = None
    BY <2>1 DEF StartBuild
  <2>2. CASE job[d] # None
    <3>1. job[d] \in Jobs /\ job'[d] = [job[d] EXCEPT !.alone = FALSE]
      BY <1>0, <2>2, JobIs DEF StartBuild
    <3> QED BY <2>2, <3>1, NoneIsNone DEF Jobs
  <2> QED BY <2>1, <2>2
<1>4. job' \in [Commands -> Jobs \cup {None}]
  <2>1. job' = [d \in Commands |-> job'[d]]
    BY DEF StartBuild
  <2> QED BY <1>1, <1>2, <1>3, <2>1
<1>5. /\ UNCHANGED <<version, builds, read, lost>> /\ \A i \in Ids : There(i)' <=> There(i)
  BY DEF StartBuild, There
<1>6. TypeOK'
  BY <1>0, <1>4, <1>5 DEF StartBuild, TypeOK, Ids
<1>7. BuildInv' /\ ReadInv'
  <2>1. \A i \in Ids : i <= started => i <= started'
    BY <1>0, NumbersAre
  <2> QED BY <1>5, <2>1 DEF DeepInv, BuildInv, ReadInv, Active, There
<1>8. ~There(started') /\ \A d \in Commands : job[d] # None => job[d].id # started' /\ job[d].id <= started'
  <2>1. ~There(started')
    BY <1>0 DEF DeepInv, BuildInv
  <2>2. \A d \in Commands : job[d] # None => job[d].id <= started /\ job[d].id \in Nat
    BY <1>0, JobIs, NumbersAre DEF DeepInv, JobInv
  <2> QED BY <1>0, <2>1, <2>2
<1>9. JobInv'
  <2>1. ASSUME NEW d \in Commands, job'[d] # None
        PROVE  /\ job'[d].id <= started'
               /\ job'[d].stage = "register" => builds'[job'[d].id] = None
               /\ builds'[job'[d].id] # None /\ (job'[d].stage # "fail" \/ lost' = 0) =>
                      builds'[job'[d].id].status = "building"
               /\ builds'[job'[d].id] # None /\ job'[d].stage = "activate" =>
                      builds'[job'[d].id].rows # None
    <3>1. CASE d = c
      BY <1>0, <1>1, <1>2, <1>5, <1>8, <3>1 DEF There
    <3>2. CASE d # c
      BY <1>0, <1>3, <1>5, <1>8, <2>1, <3>2, JobIs DEF DeepInv, JobInv, There
    <3> QED BY <3>1, <3>2
  <2>2. ASSUME NEW d \in Commands, NEW e \in Commands, job'[d] # None, job'[e] # None, job'[d].id = job'[e].id
        PROVE  d = e
    BY <1>1, <1>2, <1>3, <1>8, <2>2 DEF DeepInv, JobInv
  <2> QED BY <2>1, <2>2 DEF JobInv, There
<1>10. AloneInv'
  <2>1. ASSUME NEW d \in Commands, job'[d] # None, job'[d].alone
        PROVE  d = c /\ (\A e \in Commands \ {c} : job'[e] = None) /\ job'[d].stage = "register"
    BY <1>1, <1>2, <1>3, <2>1
  <2> QED BY <2>1 DEF AloneInv, Stage
<1> QED BY <1>6, <1>7, <1>9, <1>10 DEF DeepInv

LEMMA RegisterKeeps ==
    ASSUME DeepInv, NEW c \in Commands, Register(c)
    PROVE  DeepInv'
<1> DEFINE b == [status |-> "building", active |-> FALSE, rows |-> None]
<1>0. PICK k \in Ids : k = job[c].id
  BY JobIs DEF Register, Stage, DeepInv
<1>1. /\ TypeOK /\ job[c] # None /\ job[c].stage = "register" /\ job[c] \in Jobs /\ k \in Ids
      /\ ~There(k) /\ k <= started
  BY <1>0, JobIs DEF Register, Stage, DeepInv, JobInv
<1>2. b \in Builds /\ b.status = "building" /\ b.active = FALSE /\ b.rows = None
  BY DEF Builds
<1>3. builds'[k] = b /\ \A i \in Ids \ {k} : builds'[i] = builds[i]
  BY <1>0, <1>1 DEF Register, TypeOK
<1>4. /\ \A d \in Commands \ {c} : job'[d] = job[d]
      /\ job'[c].id = k /\ job'[c].alone = job[c].alone /\ job'[c].stage = "fill" /\ job'[c] \in Jobs
  BY <1>0, <1>1 DEF Register, GoTo, TypeOK, Jobs
<1>5. TypeOK'
  BY <1>0, <1>1, <1>2, <1>4 DEF Register, GoTo, TypeOK
<1>6. UNCHANGED <<version, started, read, lost>>
  BY DEF Register
<1> HIDE DEF b
<1>7. There(k)' /\ ~Active(k)' /\ \A i \in Ids \ {k} : (There(i)' <=> There(i)) /\ (Active(i)' <=> Active(i))
  BY <1>2, <1>3, NoneIsNone DEF There, Active
<1>8. BuildInv'
  BY <1>1, <1>2, <1>3, <1>6, <1>7 DEF DeepInv, BuildInv
<1>9. JobInv'
  <2>1. \A d \in Commands \ {c} : job[d] # None => job[d].id # k /\ job[d].id \in Ids
    BY <1>0, <1>1, JobIs DEF DeepInv, JobInv
  <2> QED BY <1>1, <1>2, <1>3, <1>4, <1>6, <1>7, <2>1 DEF DeepInv, JobInv, There
<1>10. AloneInv'
  <2>1. \A d \in Commands \ {c} : job[d] # None => job[d].id # k /\ job[d].id \in Ids
    BY <1>0, <1>1, JobIs DEF DeepInv, JobInv
  <2> QED BY <1>1, <1>2, <1>3, <1>4, <1>7, <2>1 DEF DeepInv, AloneInv, Stage
<1>11. ReadInv'
  BY <1>1, <1>3, <1>6, <1>7, ReadIs DEF DeepInv, ReadInv
<1> QED BY <1>5, <1>8, <1>9, <1>10, <1>11 DEF DeepInv

\* Fill, with its answer or without.
LEMMA FillKeeps ==
    ASSUME DeepInv, NEW c \in Commands, Fill(c) \/ FillLost(c)
    PROVE  DeepInv'
<1>0. PICK k \in Ids : k = job[c].id
  BY JobIs DEF Fill, FillLost, Stage, DeepInv
<1> DEFINE b == [builds[k] EXCEPT !.rows = version]
<1>1. /\ TypeOK /\ job[c] # None /\ job[c].stage = "fill" /\ job[c] \in Jobs /\ There(k)
      /\ builds[k].status = "building" /\ ~builds[k].active
  BY <1>0, JobIs DEF Fill, FillLost, Stage, DeepInv, JobInv, BuildInv
<1>2. b \in Builds /\ b.status = "building" /\ ~b.active /\ b.rows = version /\ version # None
  BY <1>1, BuildIs, NumbersAre DEF Builds, TypeOK
<1>3. /\ builds' = [builds EXCEPT ![k] = b]
      /\ builds'[k] = b /\ \A i \in Ids \ {k} : builds'[i] = builds[i]
  BY <1>0, <1>1 DEF Fill, FillLost, TypeOK
<1>4. /\ UNCHANGED <<version, started, read>>
      /\ \/ GoTo(c, "activate") /\ lost' = lost
         \/ GoTo(c, "fail") /\ lost' = lost + 1 /\ lost < MaxLost
  BY DEF Fill, FillLost
<1>5. /\ \A d \in Commands \ {c} : job'[d] = job[d]
      /\ job'[c].id = k /\ job'[c].alone = job[c].alone /\ job'[c] \in Jobs /\ job'[c] # None
      /\ job'[c].stage = "activate" \/ job'[c].stage = "fail"
      /\ job' = [job EXCEPT ![c] = job'[c]]
      /\ job'[c].stage = "activate" => lost' = lost
      /\ job'[c].stage = "fail" => lost' = lost + 1
  BY <1>0, <1>1, <1>4, NoneIsNone DEF GoTo, TypeOK, Jobs
<1>6. lost' \in 0..MaxLost
  BY <1>1, <1>4, BuildsAssumption DEF TypeOK
<1>7. TypeOK'
  BY <1>1, <1>2, <1>3, <1>4, <1>5, <1>6 DEF TypeOK
<1> HIDE DEF b
<1>8. /\ There(k)' /\ ~Active(k)'
      /\ \A i \in Ids : (There(i)' <=> There(i)) /\ (Active(i)' <=> Active(i))
  BY <1>1, <1>2, <1>3, NoneIsNone DEF There, Active
<1>9. BuildInv'
  <2>1. version \in Nat /\ version <= version
    BY <1>1, NumbersAre
  <2> QED BY <1>0, <1>1, <1>2, <1>3, <1>4, <1>8, <2>1 DEF DeepInv, BuildInv
<1>10. \A d \in Commands \ {c} : job[d] # None => job[d].id # k /\ job[d].id \in Ids
  BY <1>0, <1>1, JobIs DEF DeepInv, JobInv
<1>11. JobInv'
  <2>1. k <= started' /\ (job'[c].stage = "fail" => lost' # 0)
    BY <1>0, <1>1, <1>4, <1>5, NumbersAre DEF DeepInv, JobInv
  <2>2. \A d \in Commands : lost' = 0 => lost = 0
    BY <1>1, <1>4, NumbersAre
  <2> QED BY <1>1, <1>2, <1>3, <1>4, <1>5, <1>10, <2>1, <2>2 DEF DeepInv, JobInv, There
<1>12. AloneInv'
  <2>1. ASSUME NEW d \in Commands, NEW e \in Commands, job'[d] # None, job'[d].alone, e # d
        PROVE  job'[e] = None
    BY <1>1, <1>5, <2>1 DEF DeepInv, AloneInv
  <2>2. ASSUME NEW d \in Commands, job'[d] # None, job'[d].alone PROVE d = c
    BY <1>5, <2>1, <2>2
  <2>3. ASSUME NEW i \in Ids, builds'[i] # None, builds'[i].rows # None PROVE builds'[i].rows <= version
    BY <1>1, <1>2, <1>3, <2>3, NumbersAre DEF DeepInv, BuildInv, There
  <2> QED BY <1>2, <1>3, <1>5, <2>1, <2>2, <2>3 DEF AloneInv, Stage, There
<1>13. ReadInv'
  BY <1>1, <1>2, <1>3, <1>4, <1>8, ReadIs DEF DeepInv, ReadInv
<1> QED BY <1>7, <1>9, <1>11, <1>12, <1>13 DEF DeepInv

\* A switch to a build that has its rows, made by its command or, once it is ready, by an
\* operator.
LEMMA SwitchKeeps ==
    ASSUME DeepInv, NEW i \in Ids, There(i), builds[i].rows # None, builds' = SwitchedTo(i),
           UNCHANGED <<version, started, read>>,
           \/ /\ builds[i].status = "ready" /\ UNCHANGED <<job, lost>>
           \/ \E c \in Commands :
                 /\ Stage(c, "activate") /\ job[c].id = i
                 /\ \/ Stop(c) /\ UNCHANGED lost
                    \/ GoTo(c, "fail") /\ lost' = lost + 1 /\ lost < MaxLost
    PROVE  DeepInv'
<1>1. TypeOK
  BY DEF DeepInv
<1>2. /\ builds' \in [Ids -> Builds \cup {None}]
      /\ \A j \in Ids : There(j)' <=> There(j)
      /\ builds'[i].status = "ready" /\ builds'[i].active /\ builds'[i].rows = builds[i].rows
      /\ \A j \in Ids \ {i} : There(j) =>
            ~builds'[j].active /\ builds'[j].status = builds[j].status /\ builds'[j].rows = builds[j].rows
  BY <1>1, SwitchedIs
<1>3. ASSUME NEW c \in Commands, job'[c] # None
      PROVE  /\ job[c] # None /\ job'[c] \in Jobs
             /\ job'[c].id = job[c].id /\ job'[c].alone = job[c].alone
             /\ job'[c].stage = job[c].stage \/ job'[c].stage = "fail"
             /\ job'[c].id # i \/ (job'[c].stage = "fail" /\ lost' # 0) \/ builds[i].status = "ready"
             /\ job'[c].stage = "fail" /\ lost' = 0 => job[c].stage = "fail" /\ lost = 0
  <2>0. lost \in Nat
    BY <1>1, NumbersAre
  <2>1. CASE builds[i].status = "ready" /\ UNCHANGED <<job, lost>>
    BY <1>1, <1>3, <2>1, JobIs
  <2>2. ASSUME NEW d \in Commands, Stage(d, "activate"), job[d].id = i,
               (Stop(d) /\ UNCHANGED lost) \/ (GoTo(d, "fail") /\ lost' = lost + 1)
        PROVE  /\ job[c] # None /\ job'[c] \in Jobs
               /\ job'[c].id = job[c].id /\ job'[c].alone = job[c].alone
               /\ job'[c].stage = job[c].stage \/ job'[c].stage = "fail"
               /\ job'[c].id # i \/ (job'[c].stage = "fail" /\ lost' # 0) \/ builds[i].status = "ready"
               /\ job'[c].stage = "fail" /\ lost' = 0 => job[c].stage = "fail" /\ lost = 0
    <3>1. CASE c = d
      <4>1. GoTo(d, "fail") /\ lost' = lost + 1
        BY <1>1, <1>3, <2>2, <3>1 DEF Stop, TypeOK
      <4>2. job[c] \in Jobs /\ job'[c] = [job[c] EXCEPT !.stage = "fail"] /\ job[c] # None
        BY <1>1, <2>2, <3>1, <4>1, JobIs DEF GoTo, Stage, TypeOK
      <4> QED BY <2>0, <4>1, <4>2 DEF Jobs
    <3>2. CASE c # d
      <4>1. job'[c] = job[c]
        BY <1>1, <2>2, <3>2 DEF Stop, GoTo, TypeOK
      <4>2. job[c].id # i
        BY <1>3, <2>2, <3>2, <4>1 DEF DeepInv, JobInv, Stage
      <4>3. lost' = 0 => lost = 0
        BY <2>0, <2>2
      <4> QED BY <1>1, <1>3, <4>1, <4>2, <4>3, JobIs
    <3> QED BY <3>1, <3>2
  <2> QED BY <2>1, <2>2
<1>4. TypeOK'
  <2>1. job' \in [Commands -> Jobs \cup {None}] /\ lost' \in 0..MaxLost
    <3>1. job' = [c \in Commands |-> job'[c]] /\ lost' \in 0..MaxLost
      BY <1>1, BuildsAssumption DEF Stop, GoTo, TypeOK
    <3> QED BY <1>3, <3>1
  <2> QED BY <1>1, <1>2, <2>1 DEF TypeOK
<1>5. BuildInv'
  BY <1>1, <1>2 DEF DeepInv, BuildInv, Active
<1>6. JobInv'
  <2>1. ASSUME NEW c \in Commands, job'[c] # None
        PROVE  /\ job'[c].id <= started'
               /\ job'[c].stage = "register" => builds'[job'[c].id] = None
               /\ builds'[job'[c].id] # None /\ (job'[c].stage # "fail" \/ lost' = 0) =>
                      builds'[job'[c].id].status = "building"
               /\ builds'[job'[c].id] # None /\ job'[c].stage = "activate" =>
                      builds'[job'[c].id].rows # None
    <3>1. job'[c].id \in Ids
      BY <1>1, <1>3, <2>1, JobIs
    <3>2. job'[c].id # i \/ (job'[c].stage = "fail" /\ lost' # 0)
      <4>1. CASE job'[c].id = i /\ builds[i].status = "ready"
        <5>1. job[c] # None /\ job[c].id = i
          BY <1>3, <2>1, <4>1
        <5>2. job[c].stage = "fail" /\ lost # 0
          BY <4>1, <5>1 DEF DeepInv, JobInv
        <5> QED BY <1>3, <2>1, <5>2
      <4> QED BY <1>3, <2>1, <4>1
    <3> QED BY <1>2, <1>3, <2>1, <3>1, <3>2 DEF DeepInv, JobInv, There
  <2>2. ASSUME NEW c \in Commands, NEW d \in Commands, job'[c] # None, job'[d] # None, job'[c].id = job'[d].id
        PROVE  c = d
    BY <1>3, <2>2 DEF DeepInv, JobInv
  <2> QED BY <2>1, <2>2 DEF JobInv, There
<1>7. AloneInv'
  <2>1. \A j \in Ids : There(j) => builds'[j].rows = builds[j].rows
    BY <1>2
  <2>2. \A c \in Commands : job'[c] # None => job'[c].id \in Ids
    BY <1>1, <1>3, JobIs
  <2> QED BY <1>2, <1>3, <2>1, <2>2 DEF DeepInv, AloneInv, Stage
<1>8. ReadInv'
  BY <1>1, <1>2, ReadIs DEF DeepInv, ReadInv
<1> QED BY <1>4, <1>5, <1>6, <1>7, <1>8 DEF DeepInv

LEMMA MarkFailedKeeps ==
    ASSUME DeepInv, NEW c \in Commands, MarkFailed(c)
    PROVE  DeepInv'
<1>0. PICK k \in Ids : k = job[c].id
  BY JobIs DEF MarkFailed, Stage, DeepInv
<1>1. TypeOK /\ UNCHANGED <<version, started, read, lost>>
  BY DEF MarkFailed, DeepInv
<1>2. /\ builds' \in [Ids -> Builds \cup {None}]
      /\ \A i \in Ids \ {k} : builds'[i] = builds[i]
      /\ ~There(k) => builds'[k] = None
      /\ There(k) => /\ builds'[k] # None /\ builds'[k].status = "failed" /\ ~builds'[k].active
                     /\ builds'[k].rows = builds[k].rows
  <2>1. CASE There(k)
    <3>1. /\ builds[k] \in Builds
          /\ builds' = [builds EXCEPT ![k] = [builds[k] EXCEPT !.status = "failed", !.active = FALSE]]
      BY <1>0, <1>1, <2>1, BuildIs DEF MarkFailed
    <3>2. [builds[k] EXCEPT !.status = "failed", !.active = FALSE] \in Builds
      BY <3>1 DEF Builds
    <3> QED BY <1>1, <2>1, <3>1, <3>2, NoneIsNone DEF TypeOK, Builds
  <2>2. CASE ~There(k)
    BY <1>0, <1>1, <2>2 DEF MarkFailed, TypeOK
  <2> QED BY <2>1, <2>2
<1>3. job'[c] = None /\ \A d \in Commands \ {c} : job'[d] = job[d]
  BY <1>1 DEF MarkFailed, Stop, TypeOK
<1>4. TypeOK'
  BY <1>1, <1>2 DEF MarkFailed, Stop, TypeOK
<1>5. \A d \in Commands \ {c} : job[d] # None => job[d].id # k /\ job[d].id \in Ids
  BY <1>0, <1>1, JobIs DEF MarkFailed, Stage, DeepInv, JobInv
<1>6. BuildInv'
  BY <1>0, <1>1, <1>2 DEF DeepInv, BuildInv, Active, There
<1>7. JobInv'
  BY <1>1, <1>2, <1>3, <1>5 DEF DeepInv, JobInv, There
<1>8. AloneInv'
  BY <1>1, <1>2, <1>3, <1>5 DEF DeepInv, AloneInv, There, Stage
<1>9. ReadInv'
  BY <1>1, <1>2, ReadIs DEF DeepInv, ReadInv, There
<1> QED BY <1>4, <1>6, <1>7, <1>8, <1>9 DEF DeepInv

\* A prune takes a build with its rows or leaves it as it is.
LEMMA PruneKeeps == DeepInv /\ Prune => DeepInv'
<1> SUFFICES ASSUME DeepInv, Prune PROVE DeepInv'
  OBVIOUS
<1>1. TypeOK /\ UNCHANGED <<version, started, job, read, lost>>
  BY DEF Prune, DeepInv
<1>2. \A i \in Ids : builds'[i] # None => builds'[i] = builds[i]
  BY DEF Prune
<1>3. builds' \in [Ids -> Builds \cup {None}]
  BY <1>1 DEF Prune, TypeOK
<1>4. TypeOK'
  BY <1>1, <1>3 DEF TypeOK
<1>5. BuildInv'
  BY <1>1, <1>2 DEF DeepInv, BuildInv, Active, There
<1>6. \A c \in Commands : job[c] # None => job[c].id \in Ids
  BY <1>1, JobIs
<1>7. JobInv'
  BY <1>1, <1>2, <1>6 DEF DeepInv, JobInv, There
<1>8. AloneInv'
  BY <1>1, <1>2, <1>6 DEF DeepInv, AloneInv, There, Stage
<1>9. ReadInv'
  BY <1>1 DEF Prune, Reading, DeepInv, ReadInv, There
<1> QED BY <1>4, <1>5, <1>7, <1>8, <1>9 DEF DeepInv

LEMMA ReadKeeps ==
    ASSUME DeepInv, NEW r \in Readers, LookUp(r) \/ ReadRows(r)
    PROVE  DeepInv'
<1>1. TypeOK /\ UNCHANGED <<version, started, builds, job, lost>>
  BY DEF LookUp, ReadRows, DeepInv
<1>2. /\ read'[r] \in Reads /\ read' = [read EXCEPT ![r] = read'[r]]
      /\ QuietPrune => IF read'[r].open
                       THEN There(read'[r].id) /\ builds[read'[r].id].rows # None
                       ELSE read'[r].rows # None
  <2>1. CASE LookUp(r)
    <3>1. PICK i \in Ids : /\ Active(i) /\ builds[i].status = "ready"
                           /\ read' = [read EXCEPT ![r] = [id |-> i, open |-> TRUE, rows |-> None]]
      BY <2>1 DEF LookUp
    <3>2. There(i) /\ builds[i].rows # None
      BY <3>1 DEF DeepInv, BuildInv, Active
    <3> QED BY <1>1, <3>1, <3>2 DEF TypeOK, Reads
  <2>2. CASE ReadRows(r)
    <3>1. read[r] # None /\ read[r].open /\ read[r] \in Reads /\ read[r].id \in Ids
      BY <1>1, <2>2, ReadIs DEF ReadRows, Reading
    <3> DEFINE rows == IF There(read[r].id) THEN builds[read[r].id].rows ELSE None
    <3>2. rows \in Versions \cup {None} /\ (QuietPrune => rows # None)
      BY <1>1, <3>1, BuildIs DEF DeepInv, ReadInv
    <3>3. read'[r] = [read[r] EXCEPT !.open = FALSE, !.rows = rows] /\ read' = [read EXCEPT ![r] = read'[r]]
      BY <1>1, <2>2 DEF ReadRows, TypeOK
    <3> HIDE DEF rows
    <3> QED BY <3>1, <3>2, <3>3 DEF Reads
  <2> QED BY <2>1, <2>2
<1>3. TypeOK'
  BY <1>1, <1>2 DEF TypeOK
<1>4. BuildInv' /\ JobInv' /\ AloneInv'
  BY <1>1 DEF DeepInv, BuildInv, JobInv, AloneInv, There, Active, Stage
<1>5. ReadInv'
  BY <1>1, <1>2 DEF DeepInv, ReadInv, There, TypeOK
<1> QED BY <1>3, <1>4, <1>5 DEF DeepInv

LEMMA ActivationKeeps ==
    ASSUME DeepInv, NEW c \in Commands, Activate(c) \/ ActivateLost(c)
    PROVE  DeepInv'
<1>1. PICK i \in Ids : i = job[c].id
  BY JobIs DEF Activate, ActivateLost, Stage, DeepInv
<1>2. /\ Stage(c, "activate") /\ There(i) /\ builds' = SwitchedTo(i)
      /\ UNCHANGED <<version, started, read>>
      /\ \/ Stop(c) /\ UNCHANGED lost
         \/ GoTo(c, "fail") /\ lost' = lost + 1 /\ lost < MaxLost
  BY <1>1 DEF Activate, ActivateLost
<1>3. builds[i].rows # None
  BY <1>1, <1>2 DEF DeepInv, JobInv, Stage
<1> QED BY <1>1, <1>2, <1>3, SwitchKeeps

LEMMA StepKeeps == DeepInv /\ [Next]_vars => DeepInv'
<1> SUFFICES ASSUME DeepInv, [Next]_vars PROVE DeepInv'
  OBVIOUS
<1>1. CASE WriteEdges
  BY <1>1, WriteKeeps
<1>2. ASSUME NEW c \in Commands, CommandStep(c) PROVE DeepInv'
  <2>1. CASE StartBuild(c)
    BY <2>1, StartKeeps
  <2>2. CASE Register(c)
    BY <2>2, RegisterKeeps
  <2>3. CASE Fill(c) \/ FillLost(c)
    BY <2>3, FillKeeps
  <2>4. CASE FillFails(c) \/ ActivateFails(c)
    BY <2>4, CommandMoves DEF FillFails, ActivateFails, Refused, Stage
  <2>5. CASE Activate(c) \/ ActivateLost(c)
    BY <2>5, ActivationKeeps
  <2>6. CASE MarkFailed(c)
    BY <2>6, MarkFailedKeeps
  <2>7. CASE Die(c)
    BY <2>7, CommandMoves DEF Die
  <2> QED BY <1>2, <2>1, <2>2, <2>3, <2>4, <2>5, <2>6, <2>7 DEF CommandStep
<1>3. ASSUME NEW i \in Ids, ActivateBuild(i) PROVE DeepInv'
  <2>1. There(i) /\ builds[i].status = "ready" /\ builds[i].rows # None
    BY <1>3 DEF ActivateBuild, DeepInv, BuildInv
  <2> QED BY <1>3, <2>1, SwitchKeeps DEF ActivateBuild
<1>4. CASE Prune
  BY <1>4, PruneKeeps
<1>5. ASSUME NEW r \in Readers, LookUp(r) \/ ReadRows(r) PROVE DeepInv'
  BY <1>5, ReadKeeps
<1>6. CASE UNCHANGED vars
  BY <1>6 DEF vars, DeepInv, TypeOK, BuildInv, JobInv, AloneInv, ReadInv, There, Active, Stage
<1> QED BY <1>1, <1>2, <1>3, <1>4, <1>5, <1>6 DEF Next

\* Whatever commands, operators and requests do, the invariant holds.
THEOREM DeepInvariant == Spec => []DeepInv
<1>1. Init => DeepInv
  BY BuildsAssumption
     DEF Init, DeepInv, TypeOK, BuildInv, JobInv, AloneInv, ReadInv, There, Active, Stage, Versions
<1> QED BY <1>1, StepKeeps, PTL DEF Spec

-----------------------------------------------------------------------------
(* What it is for *)

\* Types hold in every reachable state.
THEOREM DeepTypeCorrect == Spec => []TypeOK
<1>1. DeepInv => TypeOK
  BY DEF DeepInv
<1> QED BY <1>1, DeepInvariant, PTL

\* No half-made build is ever active, and one build at most is, wherever commands failed
\* or died, however they overlapped and whatever operators did.
THEOREM WholeBuildActive == Spec => []ActiveIsWhole
<1>1. DeepInv => ActiveIsWhole
  BY DEF DeepInv, BuildInv, ActiveIsWhole, Active
<1> QED BY <1>1, DeepInvariant, PTL

\* If operators prune while nobody reads, a request gets the rows of the build it has
\* found, although builds are switched and marked failed between its two statements.
THEOREM WholeBuildRead ==
    ASSUME QuietPrune
    PROVE  Spec => []ReadsAreWhole
<1>1. DeepInv => ReadsAreWhole
  BY DEF DeepInv, ReadInv, ReadsAreWhole
<1> QED BY <1>1, DeepInvariant, PTL

\* A prune keeps the active build: it is the first of its order.
LEMMA ActiveIsKept ==
    ASSUME DeepInv, NEW i \in Ids, Active(i)
    PROVE  Kept(i)
<1>1. \A j \in Ids : ~(There(j) /\ Before(j, i))
  <2> SUFFICES ASSUME NEW j \in Ids, There(j), Before(j, i) PROVE FALSE
    OBVIOUS
  <2>0. Active(i) \in BOOLEAN /\ Active(j) \in BOOLEAN
    BY BuildIs DEF DeepInv, Active
  <2>1. Active(j)
    BY <2>0 DEF Before
  <2>2. j = i
    BY <2>1 DEF DeepInv, BuildInv
  <2>3. i > i /\ i \in Nat
    BY <2>0, <2>2, NumbersAre DEF Before, DeepInv
  <2> QED BY <2>3
<1>2. {j \in Ids : There(j) /\ Before(j, i)} = {}
  BY <1>1
<1>3. Cardinality({j \in Ids : There(j) /\ Before(j, i)}) = 0
  BY <1>2, FS_EmptySet
<1> QED BY <1>3, BuildsAssumption DEF Kept

\* What makes a build the active one: an activation of its command, or of an operator.
LEMMA MadeActive ==
    ASSUME DeepInv, [Next]_vars, NEW j \in Ids, ~Active(j), Active(j)'
    PROVE  /\ There(j)
           /\ \/ \E c \in Commands : Stage(c, "activate") /\ job[c].id = j
              \/ builds[j].status = "ready"
<1>0. TypeOK
  BY DEF DeepInv
<1>1. ASSUME NEW i \in Ids, There(i), builds' = SwitchedTo(i) PROVE i = j
  BY <1>0, <1>1, SwitchedIs DEF Active, There
<1>2. ASSUME NEW c \in Commands, CommandStep(c)
      PROVE  There(j) /\ \E d \in Commands : Stage(d, "activate") /\ job[d].id = j
  <2>1. CASE Activate(c) \/ ActivateLost(c)
    <3>1. Stage(c, "activate") /\ There(job[c].id) /\ builds' = SwitchedTo(job[c].id) /\ job[c].id \in Ids
      BY <1>0, <2>1, JobIs DEF Activate, ActivateLost, Stage
    <3> QED BY <1>1, <3>1
  <2>2. CASE StartBuild(c) \/ FillFails(c) \/ ActivateFails(c) \/ Die(c)
    BY <2>2 DEF StartBuild, FillFails, ActivateFails, Refused, Die, Active, There
  <2>3. CASE Register(c)
    <3>1. builds'[j] = builds[j] \/ builds'[j] = [status |-> "building", active |-> FALSE, rows |-> None]
      BY <1>0, <2>3, JobIs DEF Register, Stage, TypeOK
    <3> QED BY <3>1 DEF Active, There
  <2>4. CASE Fill(c) \/ FillLost(c)
    <3>1. /\ There(job[c].id) /\ job[c].id \in Ids
          /\ builds' = [builds EXCEPT ![job[c].id].rows = version]
      BY <1>0, <2>4, JobIs DEF Fill, FillLost, Stage
    <3>2. \A i \in Ids : There(i) => builds[i] \in Builds
      BY <1>0, BuildIs
    <3> QED BY <1>0, <3>1, <3>2 DEF TypeOK, Builds, Active, There
  <2>5. CASE MarkFailed(c)
    <3>1. \/ builds'[j] = builds[j] \/ builds'[j] = None
          \/ /\ There(j) /\ builds'[j] = [builds[j] EXCEPT !.status = "failed", !.active = FALSE]
      BY <1>0, <2>5, JobIs DEF MarkFailed, Stage, TypeOK
    <3>2. There(j) => builds[j] \in Builds
      BY <1>0, BuildIs
    <3> QED BY <3>1, <3>2 DEF Active, There, Builds
  <2> QED BY <1>2, <2>1, <2>2, <2>3, <2>4, <2>5 DEF CommandStep
<1>3. ASSUME NEW i \in Ids, ActivateBuild(i) PROVE There(j) /\ builds[j].status = "ready"
  BY <1>1, <1>3 DEF ActivateBuild
<1>4. ASSUME WriteEdges \/ Prune \/ (\E r \in Readers : LookUp(r) \/ ReadRows(r)) \/ UNCHANGED vars PROVE FALSE
  BY <1>4 DEF WriteEdges, Prune, LookUp, ReadRows, vars, Active, There
<1> QED BY <1>2, <1>3, <1>4 DEF Next

\* A command that no other overlapped never puts older rows in the place of newer ones.
THEOREM ForwardAlone == Spec => BuildsMoveForward
<1>1. DeepInv /\ [Next]_vars =>
        [\A c \in Commands, i, j \in Ids :
           Stage(c, "activate") /\ job[c].alone /\ job[c].id = j /\ Active(i) /\ Active(j)' =>
               builds[j].rows >= builds[i].rows]_vars
  <2> SUFFICES ASSUME DeepInv, [Next]_vars, NEW c \in Commands, NEW i \in Ids, NEW j \in Ids,
                      Stage(c, "activate"), job[c].alone, job[c].id = j, Active(i), Active(j)'
               PROVE  builds[j].rows >= builds[i].rows
    OBVIOUS
  <2>1. ~Active(j)
    BY DEF DeepInv, JobInv, BuildInv, Stage, Active
  <2>2. There(j)
    BY <2>1, MadeActive
  <2>3. There(i) /\ builds[i].rows # None /\ builds[j].rows # None
    BY <2>2 DEF DeepInv, BuildInv, JobInv, Active, Stage
  <2>4. builds[i].rows <= builds[j].rows
    BY <2>2, <2>3 DEF DeepInv, AloneInv
  <2>5. builds[i].rows \in Nat /\ builds[j].rows \in Nat
    BY <2>2, <2>3, BuildIs, NumbersAre DEF DeepInv
  <2> QED BY <2>4, <2>5
<1> QED BY <1>1, DeepInvariant, PTL DEF Spec, BuildsMoveForward

\* As long as no commit's answer is lost, there always is an active build once there was
\* one: a command that failed cannot take down a build that is active.
THEOREM AlwaysOneActive == Spec => NeverDark
<1>1. DeepInv /\ [Next]_vars =>
        [lost' = 0 /\ (\E i \in Ids : Active(i)) => (\E i \in Ids : Active(i)')]_vars
  <2> SUFFICES ASSUME DeepInv, [Next]_vars, lost' = 0, NEW i \in Ids, Active(i)
               PROVE  \E j \in Ids : Active(j)'
    OBVIOUS
  <2>0. TypeOK /\ There(i) /\ builds[i] \in Builds
    BY BuildIs DEF DeepInv, Active
  <2>1. ASSUME NEW j \in Ids, There(j), builds' = SwitchedTo(j) PROVE Active(j)'
    BY <2>0, <2>1, SwitchedIs DEF Active, There
  <2>2. ASSUME NEW c \in Commands, CommandStep(c) PROVE \E j \in Ids : Active(j)'
    <3>1. CASE Activate(c) \/ ActivateLost(c)
      <4>1. There(job[c].id) /\ builds' = SwitchedTo(job[c].id) /\ job[c].id \in Ids
        BY <2>0, <3>1, JobIs DEF Activate, ActivateLost, Stage
      <4> QED BY <2>1, <4>1
    <3>2. CASE StartBuild(c) \/ FillFails(c) \/ ActivateFails(c) \/ Die(c)
      BY <3>2 DEF StartBuild, FillFails, ActivateFails, Refused, Die, Active, There
    <3>3. CASE Register(c)
      <4>1. job[c].id # i /\ job[c].id \in Ids
        BY <2>0, <3>3, JobIs DEF Register, Stage, DeepInv, JobInv
      <4>2. builds'[i] = builds[i]
        BY <2>0, <3>3, <4>1 DEF Register, TypeOK
      <4> QED BY <4>2 DEF Active, There
    <3>4. CASE Fill(c) \/ FillLost(c)
      <4>1. job[c].id # i
        BY <3>4, <2>0 DEF Fill, FillLost, Stage, DeepInv, JobInv, BuildInv, Active
      <4>2. builds'[i] = builds[i]
        BY <2>0, <3>4, <4>1 DEF Fill, FillLost, TypeOK
      <4> QED BY <4>2 DEF Active, There
    <3>5. CASE MarkFailed(c)
      <4>1. lost = 0 /\ Stage(c, "fail")
        BY <3>5 DEF MarkFailed
      <4>2. job[c].id # i
        BY <2>0, <4>1 DEF Stage, DeepInv, JobInv, BuildInv, Active
      <4>3. builds'[i] = builds[i]
        BY <2>0, <3>5, <4>2 DEF MarkFailed, TypeOK
      <4> QED BY <4>3 DEF Active, There
    <3> QED BY <2>2, <3>1, <3>2, <3>3, <3>4, <3>5 DEF CommandStep
  <2>3. ASSUME NEW j \in Ids, ActivateBuild(j) PROVE \E k \in Ids : Active(k)'
    BY <2>1, <2>3 DEF ActivateBuild
  <2>4. CASE Prune
    <3>1. Kept(i)
      BY ActiveIsKept
    <3>2. builds'[i] = builds[i]
      BY <2>0, <2>4, <3>1 DEF Prune
    <3> QED BY <3>2 DEF Active, There
  <2>5. CASE WriteEdges \/ (\E r \in Readers : LookUp(r) \/ ReadRows(r)) \/ UNCHANGED vars
    BY <2>5 DEF WriteEdges, LookUp, ReadRows, vars, Active, There
  <2> QED BY <2>2, <2>3, <2>4, <2>5 DEF Next
<1> QED BY <1>1, DeepInvariant, PTL DEF Spec, NeverDark
=============================================================================
