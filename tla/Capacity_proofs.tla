---------------------------- MODULE Capacity_proofs ----------------------------
(***************************************************************************)
(* Proofs about Capacity, for any browsers, sizes and ceiling.             *)
(***************************************************************************)
EXTENDS Capacity, FiniteSetTheorems, SequenceTheorems, WellFoundedInduction, TLAPS

-------------------------------------------------------------------------------
(* Types. *)

LEMMA FlatIsASize == Flat \in Sizes
BY CapacityAssumption

\* What is taken from the front of an order of browsers is a sequence of browsers.
LEMMA PrefixType ==
    ASSUME NEW cs \in SUBSET Browsers, NEW s \in SetToSeqs(cs), NEW n \in 1..Cardinality(cs)
    PROVE  SubSeq(s, 1, n) \in Seq(Browsers)
<1>1. Cardinality(cs) \in Nat
    BY CapacityAssumption, FS_Subset, FS_CardinalityType
<1>2. s \in [1..Cardinality(cs) -> cs]
    BY DEF SetToSeqs
<1>3. \A i \in 1..n : s[i] \in Browsers
    BY <1>1, <1>2
<1> QED BY <1>1, <1>3, SubSeqProperties

LEMMA PicksType ==
    ASSUME NEW need, NEW active, NEW whole, NEW exclude,
           NEW p \in Picks(need, active, whole, exclude)
    PROVE  p \in Seq(Browsers)
<1> DEFINE cs == {c \in Candidates(exclude) : c \in idle \/ (active /\ ~cooling)}
<1>1. cs \in SUBSET Browsers
    BY DEF Candidates
<1>2. PICK s \in ShedOrders(cs), n \in 1..Cardinality(cs) : p = SubSeq(s, 1, n)
    BY DEF Picks
<1>3. s \in SetToSeqs(cs)
    BY <1>2 DEF ShedOrders
<1> HIDE DEF cs
<1> QED BY <1>1, <1>2, <1>3, PrefixType

\* The same of what a sample picks, in the state after its scan.
SamplePicks == \A p \in IdleToStop \cup ActiveToStop : p \in Seq(Browsers)

LEMMA SamplePicksHolds == SamplePicks
BY PicksType DEF SamplePicks, IdleToStop, ActiveToStop

LEMMA SamplePicksNext == SamplePicks'
BY SamplePicksHolds, PTL

LEMMA ShedType ==
    ASSUME NEW by \in Browsers \cup {Nobody, Sampler}, NEW p \in Seq(Browsers), Shed(by, p)
    PROVE  shed' \in [by : Browsers \cup {Nobody, Sampler}, todo : Seq(Browsers),
                      active : SUBSET Browsers]
<1>1. ToSet(p) \subseteq Browsers
    BY DEF ToSet
<1> QED BY <1>1 DEF Shed

\* The parts of TypeOK that a start's pass or its end sets.
StartTypes ==
    /\ start \in [Browsers -> {"none", "sleep", "shed", "again", "launch"}]
    /\ waiting \in [Browsers -> [pinned : BOOLEAN, need : Sizes] \cup {NotQueued}]
    /\ launching \in [Browsers -> Sizes \cup {0}]

ShedTypes ==
    shed \in [by : Browsers \cup {Nobody, Sampler}, todo : Seq(Browsers), active : SUBSET Browsers]

LEMMA EndStartType ==
    ASSUME TypeOK, NEW b \in Browsers, EndStart(b)
    PROVE  /\ StartTypes'
           /\ earlier' \subseteq Browsers \X Browsers
           /\ late' \subseteq Browsers
<1>1. start' \in [Browsers -> {"none", "sleep", "shed", "again", "launch"}]
    BY DEF TypeOK, EndStart
<1>2. waiting' \in [Browsers -> [pinned : BOOLEAN, need : Sizes] \cup {NotQueued}]
    BY DEF TypeOK, EndStart
<1>3. launching' \in [Browsers -> Sizes \cup {0}]
    BY DEF TypeOK, EndStart
<1> QED BY <1>1, <1>2, <1>3 DEF TypeOK, EndStart, StartTypes

LEMMA PassType ==
    ASSUME TypeOK, NEW b \in Browsers, NEW ahead, PassAfter(b, ahead)
    PROVE  StartTypes' /\ ShedTypes'
<1>1. Reread(b) \in [pinned : BOOLEAN, need : Sizes]
    BY DEF Reread, TypeOK
<1>2. waiting \in [Browsers -> [pinned : BOOLEAN, need : Sizes] \cup {NotQueued}]
    BY DEF TypeOK
<1>3. CASE Admitted(b, ahead)
    <2>1. waiting' \in [Browsers -> [pinned : BOOLEAN, need : Sizes] \cup {NotQueued}]
        BY <1>2, <1>3 DEF Admitted
    <2> QED BY <1>3, <2>1 DEF Admitted, TypeOK, StartTypes, ShedTypes
<1>4. CASE MakesRoom(b, ahead)
    <2>1. waiting' \in [Browsers -> [pinned : BOOLEAN, need : Sizes] \cup {NotQueued}]
        BY <1>1, <1>2, <1>4 DEF MakesRoom
    <2>2. PICK p \in MayStop(b, ahead) : Shed(b, p)
        BY <1>4 DEF MakesRoom
    <2>3. p \in Seq(Browsers)
        BY <2>2, PicksType DEF MayStop
    <2>4. ShedTypes'
        BY <2>2, <2>3, ShedType DEF ShedTypes
    <2> QED BY <1>4, <2>1, <2>4 DEF MakesRoom, TypeOK, StartTypes
<1>5. CASE Queues(b, ahead)
    <2>1. waiting' \in [Browsers -> [pinned : BOOLEAN, need : Sizes] \cup {NotQueued}]
        BY <1>1, <1>2, <1>5 DEF Queues
    <2> QED BY <1>5, <2>1 DEF Queues, TypeOK, StartTypes, ShedTypes
<1> QED BY <1>3, <1>4, <1>5 DEF PassAfter

RestTypes ==
    /\ earlier \subseteq Browsers \X Browsers
    /\ late \subseteq Browsers
    /\ phase \in [Browsers -> {"stopped", "window", "up"}]
    /\ stopping \subseteq Browsers
    /\ threads \in [Browsers -> Nat]
    /\ usage \in [Browsers -> Nat]
    /\ size \in [Browsers -> Sizes]
    /\ cooling \in BOOLEAN
    /\ pressed \in BOOLEAN
    /\ pinned \subseteq Browsers
    /\ idle \subseteq Browsers
    /\ human \subseteq Browsers
    /\ closed \in [Browsers -> {"no", "saving", "exporting"}]

\* TypeOK is its parts, now and after a step.
TypeSplit == TypeOK <=> StartTypes /\ ShedTypes /\ RestTypes

LEMMA TypeParts == TypeSplit
BY Zenon DEF TypeSplit, TypeOK, StartTypes, ShedTypes, RestTypes

LEMMA TypePartsNext == TypeSplit'
BY TypeParts, PTL

LEMMA InitType == Init => TypeOK
<1> SUFFICES ASSUME Init PROVE TypeOK
    OBVIOUS
<1>1. ShedTypes
    BY DEF Init, NoShed, ShedTypes
<1>2. StartTypes
    BY DEF Init, StartTypes
<1>3. RestTypes
    BY CapacityAssumption DEF Init, RestTypes
<1> QED BY <1>1, <1>2, <1>3, TypeParts DEF TypeSplit

LEMMA SampleType == TypeOK /\ Sample => TypeOK'
<1> SUFFICES ASSUME TypeOK, Sample PROVE TypeOK'
    OBVIOUS
<1>1. Scanned \in [Browsers -> Nat]
    BY DEF Scanned, TypeOK
<1>2. usage' \in [Browsers -> Nat] /\ size' \in [Browsers -> Sizes]
    BY <1>1 DEF Sample, TypeOK
<1>3. ShedTypes'
    <2>1. CASE UNCHANGED shed
        BY <2>1 DEF TypeOK, ShedTypes
    <2>2. CASE \E p \in IdleToStop' \cup ActiveToStop' : Shed(Sampler, p)
        <3>1. PICK p \in IdleToStop' \cup ActiveToStop' : Shed(Sampler, p)
            BY <2>2
        <3>2. p \in Seq(Browsers)
            BY <3>1, SamplePicksNext DEF SamplePicks
        <3> QED BY <3>1, <3>2, ShedType DEF ShedTypes
    <2> QED BY <2>1, <2>2 DEF Sample
<1>4. pressed' \in BOOLEAN
    BY DEF Sample, TypeOK
<1>5. RestTypes'
    BY <1>2, <1>4 DEF Sample, TypeOK, RestTypes, queueVars, userVars
<1>6. StartTypes'
    BY DEF Sample, TypeOK, StartTypes, queueVars
<1> QED BY <1>3, <1>5, <1>6, TypePartsNext DEF TypeSplit

\* An action that leaves the starts and the shed alone need only keep the rest.
LEMMA RestOnly ==
    ASSUME TypeOK, UNCHANGED <<start, waiting, launching, shed>>, RestTypes'
    PROVE  TypeOK'
<1>1. StartTypes' /\ ShedTypes'
    BY TypeParts DEF TypeSplit, StartTypes, ShedTypes
<1> QED BY <1>1, TypePartsNext DEF TypeSplit

LEMMA OthersType ==
    ASSUME TypeOK, NEW b \in Browsers,
           \/ Stop(b) \/ Crash(b) \/ Grow(b) \/ Shrink(b) \/ SetPinned(b) \/ ResetThreads(b)
           \/ Unused(b) \/ Used(b) \/ Control(b) \/ Close(b) \/ Reopen(b)
           \/ Deadline(b) \/ Stopped(b) \/ WindowEnds(b)
    PROVE  TypeOK'
<1> USE DEF RestTypes, queueVars, hostVars, shedVars, userVars, systemVars
<1>0. RestTypes
    BY TypeParts DEF TypeSplit
<1>1. CASE Stop(b)
    BY <1>0, <1>1, RestOnly DEF Stop
<1>2. CASE Crash(b) \/ Stopped(b)
    <2>1. RestTypes'
        BY <1>0, <1>2 DEF Crash, Stopped, Gone
    <2> QED BY <1>2, <2>1, RestOnly DEF Crash, Stopped
<1>3. CASE Grow(b) \/ Shrink(b)
    <2>1. RestTypes'
        BY <1>0, <1>3 DEF Grow, Shrink
    <2> QED BY <1>3, <2>1, RestOnly DEF Grow, Shrink
<1>4. CASE SetPinned(b) \/ ResetThreads(b) \/ Unused(b) \/ Used(b) \/ Control(b)
    <2>1. RestTypes'
        BY <1>0, <1>4, FlatIsASize DEF SetPinned, ResetThreads, Unused, Used, Control
    <2> QED BY <1>4, <2>1, RestOnly DEF SetPinned, ResetThreads, Unused, Used, Control
<1>5. CASE Close(b) \/ Reopen(b)
    <2>1. RestTypes'
        BY <1>0, <1>5 DEF Close, Reopen
    <2> QED BY <1>5, <2>1, RestOnly DEF Close, Reopen
<1>6. CASE Deadline(b) \/ WindowEnds(b)
    <2>1. RestTypes'
        BY <1>0, <1>6 DEF Deadline, WindowEnds
    <2> QED BY <1>6, <2>1, RestOnly DEF Deadline, WindowEnds
<1> QED BY <1>1, <1>2, <1>3, <1>4, <1>5, <1>6

LEMMA ShedGoesType == TypeOK /\ (ShedStop \/ Cooled) => TypeOK'
<1> SUFFICES ASSUME TypeOK, ShedStop \/ Cooled PROVE TypeOK'
    OBVIOUS
<1> USE DEF queueVars, hostVars, shedVars, userVars
<1>1. CASE ShedStop
    <2>1. Head(shed.todo) \in Browsers
        BY <1>1, HeadTailProperties DEF ShedStop, TypeOK
    <2>2. RestTypes'
        BY <1>1, <2>1, TypeParts DEF TypeSplit, ShedStop, RestTypes
    <2> QED BY <1>1, <2>2, RestOnly DEF ShedStop
<1>2. CASE Cooled
    <2>1. RestTypes'
        BY <1>2, TypeParts DEF TypeSplit, Cooled, RestTypes
    <2> QED BY <1>2, <2>1, RestOnly DEF Cooled
<1> QED BY <1>1, <1>2

\* The end of a start, on its own or because the shed it waited for failed.
LEMMA EndType ==
    ASSUME TypeOK, NEW b \in Browsers,
           PassRefused(b) \/ StartEnds(b) \/ LaunchFails(b) \/ Launched(b)
    PROVE  TypeOK'
<1> USE DEF queueVars, hostVars, shedVars, userVars
<1>0. RestTypes /\ ShedTypes /\ StartTypes
    BY TypeParts DEF TypeSplit
<1>1. ShedTypes'
    BY <1>0 DEF ShedTypes, PassRefused, StartEnds, LaunchFails, Launched
<1>2. CASE EndStart(b)
    <2>1. StartTypes' /\ earlier' \subseteq Browsers \X Browsers /\ late' \subseteq Browsers
        BY <1>2, EndStartType
    <2>2. RestTypes'
        BY <1>0, <2>1 DEF PassRefused, StartEnds, LaunchFails, Launched, RestTypes
    <2> QED BY <1>1, <2>1, <2>2, TypePartsNext DEF TypeSplit
<1>3. CASE Launched(b)
    <2>1. StartTypes'
        BY <1>0, <1>3 DEF Launched, StartTypes
    <2>2. RestTypes'
        BY <1>0, <1>3 DEF Launched, RestTypes
    <2> QED BY <1>1, <2>1, <2>2, TypePartsNext DEF TypeSplit
<1> QED BY <1>2, <1>3 DEF PassRefused, StartEnds, LaunchFails

LEMMA StartPassType ==
    ASSUME TypeOK, NEW b \in Browsers, EnsureRunning(b) \/ Pass(b)
    PROVE  TypeOK'
<1> USE DEF hostVars, userVars
<1>0. RestTypes
    BY TypeParts DEF TypeSplit
<1>1. PICK ahead : PassAfter(b, ahead)
    BY DEF EnsureRunning, Pass
<1>2. earlier' \subseteq Browsers \X Browsers
    BY DEF EnsureRunning, Pass, InFlight, TypeOK
<1>3. RestTypes'
    BY <1>0, <1>2 DEF EnsureRunning, Pass, RestTypes
<1> QED BY <1>1, <1>3, PassType, TypePartsNext DEF TypeSplit

LEMMA ShedOverType ==
    ASSUME TypeOK, ShedNext \/ ShedRefused \/ \E b \in Browsers : StopFails(b)
    PROVE  TypeOK'
<1> USE DEF queueVars, hostVars, shedVars, userVars
<1>0. RestTypes /\ ShedTypes /\ StartTypes
    BY TypeParts DEF TypeSplit
<1>1. NoShed \in [by : Browsers \cup {Nobody, Sampler}, todo : Seq(Browsers),
                  active : SUBSET Browsers]
    BY DEF NoShed
<1>2. CASE ShedNext
    <2>1. Tail(shed.todo) \in Seq(Browsers)
        BY <1>0, <1>2, HeadTailProperties DEF ShedNext, ShedTypes
    <2>2. ShedTypes'
        BY <1>0, <1>1, <1>2, <2>1 DEF ShedNext, ShedTypes
    <2>3. StartTypes'
        BY <1>0, <1>2 DEF ShedNext, StartTypes
    <2>4. RestTypes'
        BY <1>0, <1>2 DEF ShedNext, RestTypes
    <2> QED BY <2>2, <2>3, <2>4, TypePartsNext DEF TypeSplit
<1>3. CASE ShedRefused \/ \E b \in Browsers : StopFails(b)
    <2>1. ShedTypes'
        BY <1>0, <1>1, <1>3 DEF ShedRefused, StopFails, ShedTypes
    <2>2. StartTypes' /\ earlier' \subseteq Browsers \X Browsers /\ late' \subseteq Browsers
        <3>1. CASE shed.by \in Browsers /\ EndStart(shed.by)
            BY <3>1, EndStartType
        <3>2. CASE UNCHANGED <<start, queueVars, launching>>
            BY <1>0, <3>2 DEF StartTypes, RestTypes
        <3> QED BY <1>3, <3>1, <3>2 DEF ShedRefused, StopFails
    <2>3. RestTypes'
        BY <1>0, <1>3, <2>2 DEF ShedRefused, StopFails, RestTypes
    <2> QED BY <2>1, <2>2, <2>3, TypePartsNext DEF TypeSplit
<1> QED BY <1>2, <1>3

\* Every variable keeps its type, for any browsers, sizes and ceiling.
THEOREM TypeCorrect == Spec => []TypeOK
<1>1. TypeOK /\ [Next]_vars => TypeOK'
    <2> SUFFICES ASSUME TypeOK, [Next]_vars PROVE TypeOK'
        OBVIOUS
    <2>1. CASE Settle
        BY <2>1, ShedGoesType, EndType, StartPassType, ShedOverType DEF Settle
    <2>2. CASE Sample
        BY <2>2, SampleType
    <2>3. CASE \E b \in Browsers : System(b)
        BY <2>3, OthersType, EndType, StartPassType, ShedOverType DEF System
    <2>4. CASE \E b \in Browsers : Others(b)
        BY <2>4, OthersType, StartPassType DEF Others
    <2>5. CASE Cooled
        BY <2>5, ShedGoesType
    <2>6. CASE UNCHANGED vars
        BY <2>6 DEF vars, queueVars, hostVars, shedVars, userVars, TypeOK
    <2> QED BY <2>1, <2>2, <2>3, <2>4, <2>5, <2>6 DEF Next
<1> QED BY <1>1, InitType, PTL DEF Spec

-------------------------------------------------------------------------------
(* Room is held only for starts that are on their way. *)

\* HoldsHaveStarts is inductive with one more fact: whoever a shed is for is waiting for it.
HoldInv ==
    /\ HoldsHaveStarts
    /\ \A b \in Browsers : shed.by = b => start[b] = "shed"

LEMMA InitHold == Init => HoldInv
BY CapacityAssumption DEF Init, HoldInv, HoldsHaveStarts, NoShed, Nobody

LEMMA EndStartHold ==
    ASSUME TypeOK, HoldInv, NEW b \in Browsers, EndStart(b),
           shed' = NoShed \/ (shed' = shed /\ start[b] # "shed")
    PROVE  HoldInv'
<1>1. \A c \in Browsers : start'[c] = IF c = b THEN "none" ELSE start[c]
    BY DEF EndStart, TypeOK
<1>2. \A c \in Browsers : shed'.by = c => start'[c] = "shed"
    BY <1>1, CapacityAssumption DEF HoldInv, NoShed, Nobody
<1>3. \A c \in Browsers : launching'[c] > 0 => start'[c] = "launch"
    BY <1>1 DEF EndStart, TypeOK, HoldInv, HoldsHaveStarts
<1>4. \A c \in Browsers : waiting'[c] # NotQueued => start'[c] \in {"sleep", "shed", "again"}
    BY <1>1 DEF EndStart, TypeOK, HoldInv, HoldsHaveStarts
<1>5. \A w, c \in Browsers : <<w, c>> \in earlier' => {w, c} \subseteq InFlight'
    BY <1>1 DEF EndStart, InFlight, HoldInv, HoldsHaveStarts
<1> QED BY <1>2, <1>3, <1>4, <1>5 DEF HoldInv, HoldsHaveStarts

LEMMA PassHold ==
    ASSUME TypeOK, HoldInv, NEW b \in Browsers, NEW ahead, PassAfter(b, ahead),
           start[b] \in {"none", "sleep", "again"},
           earlier' \subseteq earlier \cup (InFlight \X {b})
    PROVE  HoldInv'
<1>0. /\ start \in [Browsers -> {"none", "sleep", "shed", "again", "launch"}]
      /\ \A c \in Browsers : launching[c] > 0 => start[c] = "launch"
      /\ \A c \in Browsers : waiting[c] # NotQueued => start[c] \in {"sleep", "shed", "again"}
      /\ \A w, c \in Browsers : <<w, c>> \in earlier => {w, c} \subseteq InFlight
      /\ \A c \in Browsers : shed.by = c => start[c] = "shed"
    BY DEF TypeOK, HoldInv, HoldsHaveStarts
<1>1. PICK s \in {"launch", "shed", "sleep"} : start' = [start EXCEPT ![b] = s]
    BY DEF PassAfter, Admitted, MakesRoom, Queues
<1>2. \A w, c \in Browsers : <<w, c>> \in earlier' => {w, c} \subseteq InFlight'
    BY <1>0, <1>1 DEF InFlight
<1>3. CASE Admitted(b, ahead)
    BY <1>0, <1>2, <1>3 DEF Admitted, TypeOK, HoldInv, HoldsHaveStarts
<1>4. CASE MakesRoom(b, ahead)
    <2>1. PICK p : Shed(b, p)
        BY <1>4 DEF MakesRoom
    <2>2. shed'.by = b
        BY <2>1 DEF Shed
    <2> QED BY <1>0, <1>2, <1>4, <2>2 DEF MakesRoom, TypeOK, HoldInv, HoldsHaveStarts
<1>5. CASE Queues(b, ahead)
    BY <1>0, <1>2, <1>5 DEF Queues, TypeOK, HoldInv, HoldsHaveStarts
<1> QED BY <1>3, <1>4, <1>5 DEF PassAfter

\* Steps that neither begin nor end a start, and leave what is reserved alone.
LEMMA SameHold ==
    ASSUME HoldInv, UNCHANGED <<start, waiting, launching, earlier>>,
           \A b \in Browsers : shed'.by = b => shed.by = b
    PROVE  HoldInv'
BY DEF HoldInv, HoldsHaveStarts, InFlight

LEMMA SampleHold == HoldInv /\ Sample => HoldInv'
<1> SUFFICES ASSUME HoldInv, Sample PROVE HoldInv'
    OBVIOUS
<1>1. UNCHANGED shed \/ \E p : Shed(Sampler, p)
    BY Zenon DEF Sample
<1>2. \A b \in Browsers : shed'.by = b => shed.by = b
    <2>1. CASE UNCHANGED shed
        BY <2>1
    <2>2. CASE \E p : Shed(Sampler, p)
        BY <2>2, CapacityAssumption DEF Shed, Sampler
    <2> QED BY <1>1, <2>1, <2>2
<1> QED BY <1>2, SameHold DEF Sample, queueVars

LEMMA ShedNextHold == TypeOK /\ HoldInv /\ ShedNext => HoldInv'
<1> SUFFICES ASSUME TypeOK, HoldInv, ShedNext PROVE HoldInv'
    OBVIOUS
<1>1. CASE Len(shed.todo) > 1
    BY <1>1, SameHold DEF ShedNext, queueVars, TypeOK
<1>2. CASE ~(Len(shed.todo) > 1)
    <2>1. start' = [b \in Browsers |-> IF b = shed.by THEN "again" ELSE start[b]]
        BY <1>2 DEF ShedNext
    <2>2. \A b \in Browsers : shed'.by # b
        BY <1>2, CapacityAssumption DEF ShedNext, NoShed, Nobody
    <2>3. UNCHANGED <<waiting, launching, earlier>>
        BY DEF ShedNext, queueVars
    <2> QED BY <2>1, <2>2, <2>3 DEF HoldInv, HoldsHaveStarts, InFlight
<1> QED BY <1>1, <1>2

LEMMA ShedFailsHold ==
    TypeOK /\ HoldInv /\ (ShedRefused \/ \E b \in Browsers : StopFails(b)) => HoldInv'
<1> SUFFICES ASSUME TypeOK, HoldInv, ShedRefused \/ \E b \in Browsers : StopFails(b)
             PROVE  HoldInv'
    OBVIOUS
<1>1. CASE shed' = NoShed /\ shed.by \in Browsers /\ EndStart(shed.by)
    BY <1>1, EndStartHold
<1>2. CASE shed' = NoShed /\ UNCHANGED <<start, queueVars, launching>>
    BY <1>2, SameHold, CapacityAssumption DEF NoShed, Nobody, queueVars
<1>3. CASE UNCHANGED <<shed, start, queueVars, launching>>
    BY <1>3, SameHold DEF queueVars
<1> QED BY <1>1, <1>2, <1>3 DEF ShedRefused, StopFails

LEMMA StartHold ==
    ASSUME TypeOK, HoldInv, NEW b \in Browsers,
           \/ EnsureRunning(b) \/ Pass(b) \/ PassRefused(b) \/ StartEnds(b) \/ LaunchFails(b)
           \/ Launched(b)
    PROVE  HoldInv'
<1> USE DEF queueVars, shedVars
<1>1. CASE EnsureRunning(b)
    <2>1. PICK tied : /\ earlier' = earlier \cup ((InFlight \ tied) \X {b})
                      /\ PassAfter(b, InFlight \ tied)
        BY <1>1 DEF EnsureRunning
    <2> QED BY <1>1, <2>1, PassHold DEF EnsureRunning
<1>2. CASE Pass(b)
    BY <1>2, PassHold DEF Pass
<1>3. CASE PassRefused(b) \/ StartEnds(b) \/ LaunchFails(b)
    BY <1>3, EndStartHold DEF PassRefused, StartEnds, LaunchFails
<1>4. CASE Launched(b)
    BY <1>4 DEF Launched, TypeOK, HoldInv, HoldsHaveStarts, InFlight
<1> QED BY <1>1, <1>2, <1>3, <1>4

LEMMA HoldInvariant == Spec => []HoldInv
<1>1. TypeOK /\ HoldInv /\ [Next]_vars => HoldInv'
    <2> SUFFICES ASSUME TypeOK, HoldInv, [Next]_vars PROVE HoldInv'
        OBVIOUS
    <2>1. CASE ShedStop \/ Cooled \/ UNCHANGED vars
        BY <2>1, SameHold DEF ShedStop, Cooled, vars, queueVars, shedVars
    <2>2. CASE Settle
        BY <2>1, <2>2, ShedNextHold, ShedFailsHold, StartHold DEF Settle
    <2>3. CASE Sample
        BY <2>3, SampleHold
    <2>4. ASSUME NEW b \in Browsers, System(b) PROVE HoldInv'
        <3>1. CASE Deadline(b) \/ Stopped(b) \/ WindowEnds(b)
            BY <3>1, SameHold DEF Deadline, Stopped, WindowEnds, queueVars, shedVars
        <3> QED BY <2>4, <3>1, StartHold, ShedFailsHold DEF System
    <2>5. ASSUME NEW b \in Browsers, Others(b) PROVE HoldInv'
        <3>1. CASE EnsureRunning(b)
            BY <3>1, StartHold
        <3>2. CASE Stop(b) \/ Crash(b) \/ Grow(b) \/ Shrink(b)
            BY <3>2, SameHold DEF Stop, Crash, Grow, Shrink, queueVars, shedVars
        <3>3. CASE \/ SetPinned(b) \/ ResetThreads(b) \/ Unused(b) \/ Used(b) \/ Control(b)
                   \/ Close(b) \/ Reopen(b)
            BY <3>3, SameHold DEF SetPinned, ResetThreads, Unused, Used, Control, Close, Reopen,
               systemVars, queueVars, shedVars
        <3> QED BY <2>5, <3>1, <3>2, <3>3 DEF Others
    <2> QED BY <2>1, <2>2, <2>3, <2>4, <2>5 DEF Next
<1> QED BY <1>1, InitHold, TypeCorrect, PTL DEF Spec

\* No start that failed, was refused or is over leaves room held behind (release).
THEOREM HoldsRelease == Spec => []HoldsHaveStarts
<1>1. HoldInv => HoldsHaveStarts
    BY DEF HoldInv
<1> QED BY <1>1, HoldInvariant, PTL

-------------------------------------------------------------------------------
(* Sums over browsers, and the largest of a set. *)

\* A set of natural numbers has a least member.
LEMMA LeastExists ==
    ASSUME NEW S \in SUBSET Nat, S # {}
    PROVE  \E n \in S : \A m \in S : n <= m
<1>1. PICK n \in S : \A m \in S : ~(<<m, n>> \in OpToRel(<, Nat))
    BY WFMin, NatLessThanWellFounded
<1>2. ASSUME NEW m \in S PROVE n <= m
    <2>1. m \in Nat /\ n \in Nat
        OBVIOUS
    <2>2. ASSUME m < n PROVE <<m, n>> \in OpToRel(<, Nat)
        <3>1. <<m, n>> \in Nat \X Nat /\ <<m, n>>[1] < <<m, n>>[2]
            BY <2>1, <2>2
        <3> QED BY <3>1 DEF OpToRel
    <2>3. ~(m < n)
        BY <1>1, <2>2
    <2> QED BY <2>1, <2>3
<1> QED BY <1>2

\* Induction over a finite set: a family that has every subset whose proper subsets it has.
LEMMA SubsetInduction ==
    ASSUME NEW B, IsFiniteSet(B), NEW Q,
           \A s \in SUBSET B : (\A t \in SUBSET s : t # s => t \in Q) => s \in Q
    PROVE  \A s \in SUBSET B : s \in Q
<1> DEFINE Missing == {Cardinality(s) : s \in {t \in SUBSET B : t \notin Q}}
<1>1. \A s \in SUBSET B : IsFiniteSet(s) /\ Cardinality(s) \in Nat
    BY FS_Subset, FS_CardinalityType
<1>2. ASSUME Missing # {} PROVE FALSE
    <2>1. Missing \in SUBSET Nat
        BY <1>1
    <2>2. PICK n \in Missing : \A m \in Missing : n <= m
        <3> HIDE DEF Missing
        <3> QED BY <1>2, <2>1, LeastExists
    <2>3. PICK s \in SUBSET B : s \notin Q /\ n = Cardinality(s)
        BY <2>2
    <2>4. PICK t \in SUBSET s : t # s /\ t \notin Q
        BY <2>3
    <2>5. Cardinality(t) < Cardinality(s)
        BY <1>1, <2>4, FS_Subset
    <2>6. Cardinality(t) \in Missing
        BY <2>4
    <2>7. Cardinality(t) \in Nat /\ Cardinality(s) \in Nat
        BY <1>1, <2>4
    <2> HIDE DEF Missing
    <2> QED BY <2>2, <2>3, <2>5, <2>6, <2>7
<1> QED BY <1>2

First(s) == CHOOSE x \in s : TRUE

\* What the sum adds up, subset by subset.
IsSum(g, f, S) ==
    g = [s \in SUBSET S |-> IF s = {} THEN 0 ELSE f[First(s)] + g[s \ {First(s)}]]

LEMMA FirstIn ==
    ASSUME NEW s, s # {}
    PROVE  First(s) \in s
BY DEF First

LEMMA SumExists ==
    ASSUME NEW S, IsFiniteSet(S), NEW f
    PROVE  \E g : IsSum(g, f, S)
<1> DEFINE Upto(g, n) ==
        g = [s \in SUBSET S |->
                IF Cardinality(s) <= n
                THEN IF s = {} THEN 0 ELSE f[First(s)] + g[s \ {First(s)}]
                ELSE 0]
           Numbers == {n \in Nat : \E g : Upto(g, n)}
<1>1. \A s \in SUBSET S : IsFiniteSet(s) /\ Cardinality(s) \in Nat
    BY FS_Subset, FS_CardinalityType
<1>2. 0 \in Numbers
    <2> DEFINE g0 == [s \in SUBSET S |-> 0]
    <2>1. \A s \in SUBSET S : Cardinality(s) <= 0 => s = {}
        BY <1>1, FS_EmptySet
    <2>2. Upto(g0, 0)
        BY <2>1
    <2> QED BY <2>2
<1>3. ASSUME NEW n \in Numbers PROVE n + 1 \in Numbers
    <2>1. PICK g : Upto(g, n)
        BY <1>3
    <2> DEFINE h == [s \in SUBSET S |->
                        IF Cardinality(s) <= n + 1
                        THEN IF s = {} THEN 0 ELSE f[First(s)] + g[s \ {First(s)}]
                        ELSE 0]
    <2>2. ASSUME NEW s \in SUBSET S, Cardinality(s) <= n PROVE h[s] = g[s]
        <3>1. g[s] = IF s = {} THEN 0 ELSE f[First(s)] + g[s \ {First(s)}]
            BY <2>1, <2>2
        <3>2. Cardinality(s) <= n + 1
            BY <1>1, <1>3, <2>2
        <3> QED BY <3>1, <3>2
    <2>3. ASSUME NEW s \in SUBSET S, s # {}, Cardinality(s) <= n + 1
          PROVE  h[s \ {First(s)}] = g[s \ {First(s)}]
        <3>1. Cardinality(s \ {First(s)}) = Cardinality(s) - 1
            BY <1>1, <2>3, FirstIn, FS_RemoveElement
        <3>2. Cardinality(s \ {First(s)}) <= n
            BY <1>1, <1>3, <2>3, <3>1
        <3> QED BY <2>2, <3>2
    <2>4. Upto(h, n + 1)
        <3> HIDE DEF Upto
        <3> DEFINE k == [s \in SUBSET S |->
                        IF Cardinality(s) <= n + 1
                        THEN IF s = {} THEN 0 ELSE f[First(s)] + h[s \ {First(s)}]
                        ELSE 0]
        <3>1. \A s \in SUBSET S : h[s] = k[s]
            <4> HIDE DEF h
            <4> TAKE s \in SUBSET S
            <4>1. CASE s # {} /\ Cardinality(s) <= n + 1
                BY <2>3, <4>1 DEF h
            <4>2. CASE ~(s # {} /\ Cardinality(s) <= n + 1)
                BY <4>2 DEF h
            <4> QED BY <4>1, <4>2
        <3>2. h = k
            BY <3>1
        <3> QED BY <3>2 DEF Upto
    <2>5. n + 1 \in Nat
        BY <1>3
    <2> HIDE DEF Upto, h
    <2> QED BY <2>4, <2>5
<1>4. Nat \subseteq Numbers
    <2> HIDE DEF Numbers
    <2>1. Nat \ Numbers # {} => FALSE
        <3> SUFFICES ASSUME Nat \ Numbers # {} PROVE FALSE
            OBVIOUS
        <3>1. PICK n \in Nat \ Numbers : \A m \in Nat \ Numbers : n <= m
            BY LeastExists
        <3>2. n # 0 /\ n - 1 \in Nat
            BY <1>2, <3>1
        <3>3. n - 1 \notin Numbers
            <4>1. n - 1 \in Numbers => (n - 1) + 1 \in Numbers
                BY <1>3
            <4>2. (n - 1) + 1 = n
                BY <3>2
            <4> QED BY <3>1, <4>1, <4>2
        <3>4. ~(n <= n - 1)
            BY <3>2
        <3> QED BY <3>1, <3>2, <3>3, <3>4
    <2> QED BY <2>1
<1>5. PICK g : Upto(g, Cardinality(S))
    BY <1>1, <1>4
<1>6. \A s \in SUBSET S : Cardinality(s) <= Cardinality(S)
    BY FS_Subset
<1>7. IsSum(g, f, S)
    BY <1>5, <1>6 DEF IsSum
<1> QED BY <1>7

LEMMA SumOverIs ==
    ASSUME NEW S, IsFiniteSet(S), NEW f
    PROVE  \E g : IsSum(g, f, S) /\ SumOver(f, S) = g[S]
<1> DEFINE g == CHOOSE h : IsSum(h, f, S)
<1>1. IsSum(g, f, S)
    BY SumExists
<1>2. SumOver(f, S) = g[S]
    BY DEF SumOver, MapThenSumSet, MapThenFoldSet, IsSum, First
<1> QED BY <1>1, <1>2

\* Two sums of one function agree where both are defined.
LEMMA SumsAgree ==
    ASSUME NEW S, IsFiniteSet(S), NEW T \in SUBSET S, NEW f,
           NEW g, IsSum(g, f, S), NEW h, IsSum(h, f, T)
    PROVE  \A s \in SUBSET T : g[s] = h[s]
<1> DEFINE Q == {s \in SUBSET T : g[s] = h[s]}
<1>1. ASSUME NEW s \in SUBSET T, \A t \in SUBSET s : t # s => t \in Q
      PROVE  s \in Q
    <2>1. g[s] = IF s = {} THEN 0 ELSE f[First(s)] + g[s \ {First(s)}]
        BY DEF IsSum
    <2>2. h[s] = IF s = {} THEN 0 ELSE f[First(s)] + h[s \ {First(s)}]
        BY DEF IsSum
    <2>3. s # {} => g[s \ {First(s)}] = h[s \ {First(s)}]
        BY <1>1, FirstIn
    <2> QED BY <2>1, <2>2, <2>3
<1>2. IsFiniteSet(T)
    BY FS_Subset
<1> HIDE DEF Q
<1>3. \A s \in SUBSET T : s \in Q
    BY <1>1, <1>2, SubsetInduction
<1> QED BY <1>3 DEF Q

\* The sum over nothing, and over a set from which its first member is taken.
LEMMA SumStep ==
    ASSUME NEW S, IsFiniteSet(S), NEW f
    PROVE  /\ SumOver(f, {}) = 0
           /\ S # {} => SumOver(f, S) = f[First(S)] + SumOver(f, S \ {First(S)})
<1>1. PICK g : IsSum(g, f, S) /\ SumOver(f, S) = g[S]
    BY SumOverIs
<1>2. SumOver(f, {}) = 0
    <2>1. PICK e : IsSum(e, f, {}) /\ SumOver(f, {}) = e[{}]
        BY SumOverIs, FS_EmptySet
    <2> QED BY <2>1 DEF IsSum
<1>3. ASSUME S # {} PROVE SumOver(f, S) = f[First(S)] + SumOver(f, S \ {First(S)})
    <2>1. g[S] = f[First(S)] + g[S \ {First(S)}]
        BY <1>1, <1>3 DEF IsSum
    <2>2. IsFiniteSet(S \ {First(S)})
        BY FS_Subset
    <2>3. PICK h : IsSum(h, f, S \ {First(S)}) /\ SumOver(f, S \ {First(S)}) = h[S \ {First(S)}]
        BY <2>2, SumOverIs
    <2>4. g[S \ {First(S)}] = h[S \ {First(S)}]
        BY <1>1, <2>3, SumsAgree
    <2> QED BY <1>1, <2>1, <2>3, <2>4
<1> QED BY <1>2, <1>3

\* A sum of natural numbers is one.
LEMMA SumType ==
    ASSUME NEW S, IsFiniteSet(S), NEW f, \A b \in S : f[b] \in Nat
    PROVE  \A s \in SUBSET S : SumOver(f, s) \in Nat
<1> DEFINE Q == {s \in SUBSET S : SumOver(f, s) \in Nat}
<1>1. ASSUME NEW s \in SUBSET S, \A t \in SUBSET s : t # s => t \in Q
      PROVE  s \in Q
    <2>1. CASE s = {}
        BY <2>1, SumStep, FS_EmptySet
    <2>2. CASE s # {}
        <3>1. SumOver(f, s) = f[First(s)] + SumOver(f, s \ {First(s)})
            BY <2>2, SumStep, FS_Subset
        <3>2. First(s) \in S /\ f[First(s)] \in Nat
            BY <2>2, FirstIn
        <3>3. SumOver(f, s \ {First(s)}) \in Nat
            BY <1>1, <2>2, FirstIn
        <3> QED BY <3>1, <3>2, <3>3
    <2> QED BY <2>1, <2>2
<1> HIDE DEF Q
<1>2. \A s \in SUBSET S : s \in Q
    BY <1>1, SubsetInduction
<1> QED BY <1>2 DEF Q

\* Any one member may be taken out of a sum.
LEMMA SumRemove ==
    ASSUME NEW S, IsFiniteSet(S), NEW f, \A b \in S : f[b] \in Nat
    PROVE  \A s \in SUBSET S : \A b \in s : SumOver(f, s) = f[b] + SumOver(f, s \ {b})
<1> DEFINE Q == {s \in SUBSET S : \A b \in s : SumOver(f, s) = f[b] + SumOver(f, s \ {b})}
<1>1. \A s \in SUBSET S : IsFiniteSet(s) /\ SumOver(f, s) \in Nat
    BY SumType, FS_Subset
<1>2. ASSUME NEW s \in SUBSET S, \A t \in SUBSET s : t # s => t \in Q, NEW b \in s
      PROVE  SumOver(f, s) = f[b] + SumOver(f, s \ {b})
    <2> DEFINE x == First(s)
    <2>1. x \in s /\ SumOver(f, s) = f[x] + SumOver(f, s \ {x})
        BY <1>1, <1>2, SumStep, FirstIn
    <2> HIDE DEF x
    <2>2. CASE x = b
        BY <2>1, <2>2
    <2>3. CASE x # b
        <3>1. SumOver(f, s \ {x}) = f[b] + SumOver(f, (s \ {x}) \ {b})
            BY <1>2, <2>1, <2>3
        <3>2. SumOver(f, s \ {b}) = f[x] + SumOver(f, (s \ {b}) \ {x})
            BY <1>2, <2>1, <2>3
        <3>3. (s \ {x}) \ {b} = (s \ {b}) \ {x}
            OBVIOUS
        <3>4. f[b] \in Nat /\ f[x] \in Nat /\ SumOver(f, (s \ {b}) \ {x}) \in Nat
            BY <1>1, <2>1
        <3> QED BY <2>1, <3>1, <3>2, <3>3, <3>4
    <2> QED BY <2>2, <2>3
<1>3. \A s \in SUBSET S : (\A t \in SUBSET s : t # s => t \in Q) => s \in Q
    BY <1>2
<1> HIDE DEF Q
<1>4. \A s \in SUBSET S : s \in Q
    BY <1>3, SubsetInduction
<1> QED BY <1>4 DEF Q

\* A sum is at most the sum of two others, when each of its terms is.
LEMMA SumBound ==
    ASSUME NEW S, IsFiniteSet(S),
           NEW f, \A b \in S : f[b] \in Nat, NEW g, \A b \in S : g[b] \in Nat,
           NEW h, \A b \in S : h[b] \in Nat, \A b \in S : f[b] <= g[b] + h[b]
    PROVE  SumOver(f, S) <= SumOver(g, S) + SumOver(h, S)
<1> DEFINE Q == {s \in SUBSET S : SumOver(f, s) <= SumOver(g, s) + SumOver(h, s)}
<1>1. ASSUME NEW s \in SUBSET S
      PROVE  /\ IsFiniteSet(s)
             /\ SumOver(f, s) \in Nat /\ SumOver(g, s) \in Nat /\ SumOver(h, s) \in Nat
    BY SumType, FS_Subset
<1>2. ASSUME NEW s \in SUBSET S, \A t \in SUBSET s : t # s => t \in Q
      PROVE  s \in Q
    <2>1. CASE s = {}
        <3>1. SumOver(f, s) = 0 /\ SumOver(g, s) = 0 /\ SumOver(h, s) = 0
            BY <2>1, SumStep, FS_EmptySet
        <3> QED BY <3>1
    <2>2. CASE s # {}
        <3> DEFINE x == First(s)
                   r == s \ {x}
        <3>1. /\ SumOver(f, s) = f[x] + SumOver(f, r)
              /\ SumOver(g, s) = g[x] + SumOver(g, r)
              /\ SumOver(h, s) = h[x] + SumOver(h, r)
            BY <1>1, <2>2, SumStep
        <3>2. x \in S /\ r \in SUBSET S /\ r \in Q
            BY <1>2, <2>2, FirstIn
        <3> HIDE DEF x, r
        <3>3. /\ f[x] \in Nat /\ g[x] \in Nat /\ h[x] \in Nat
              /\ SumOver(f, r) \in Nat /\ SumOver(g, r) \in Nat /\ SumOver(h, r) \in Nat
            BY <1>1, <3>2
        <3>4. f[x] <= g[x] + h[x] /\ SumOver(f, r) <= SumOver(g, r) + SumOver(h, r)
            BY <3>2
        <3> QED BY <3>1, <3>3, <3>4
    <2> QED BY <2>1, <2>2
<1>3. \A s \in SUBSET S : (\A t \in SUBSET s : t # s => t \in Q) => s \in Q
    BY <1>2
<1> HIDE DEF Q
<1>4. \A s \in SUBSET S : s \in Q
    BY <1>3, SubsetInduction
<1> QED BY <1>4 DEF Q

\* A sum grows with its terms.
LEMMA SumMonotone ==
    ASSUME NEW S, IsFiniteSet(S), NEW f, \A b \in S : f[b] \in Nat,
           NEW g, \A b \in S : g[b] \in Nat, \A b \in S : f[b] <= g[b]
    PROVE  SumOver(f, S) <= SumOver(g, S)
<1> DEFINE Q == {s \in SUBSET S : SumOver(f, s) <= SumOver(g, s)}
<1>1. ASSUME NEW s \in SUBSET S
      PROVE  IsFiniteSet(s) /\ SumOver(f, s) \in Nat /\ SumOver(g, s) \in Nat
    BY SumType, FS_Subset
<1>2. ASSUME NEW s \in SUBSET S, \A t \in SUBSET s : t # s => t \in Q
      PROVE  s \in Q
    <2>1. CASE s = {}
        <3>1. SumOver(f, s) = 0 /\ SumOver(g, s) = 0
            BY <2>1, SumStep, FS_EmptySet
        <3> QED BY <3>1
    <2>2. CASE s # {}
        <3> DEFINE x == First(s)
                   r == s \ {x}
        <3>1. /\ SumOver(f, s) = f[x] + SumOver(f, r)
              /\ SumOver(g, s) = g[x] + SumOver(g, r)
            BY <1>1, <2>2, SumStep
        <3>2. x \in S /\ r \in SUBSET S /\ r \in Q
            BY <1>2, <2>2, FirstIn
        <3> HIDE DEF x, r
        <3>3. /\ f[x] \in Nat /\ g[x] \in Nat
              /\ SumOver(f, r) \in Nat /\ SumOver(g, r) \in Nat
            BY <1>1, <3>2
        <3>4. f[x] <= g[x] /\ SumOver(f, r) <= SumOver(g, r)
            BY <3>2
        <3> QED BY <3>1, <3>3, <3>4
    <2> QED BY <2>1, <2>2
<1>3. \A s \in SUBSET S : (\A t \in SUBSET s : t # s => t \in Q) => s \in Q
    BY <1>2
<1> HIDE DEF Q
<1>4. \A s \in SUBSET S : s \in Q
    BY <1>3, SubsetInduction
<1> QED BY <1>4 DEF Q

\* A finite set of integers has a largest member, and Max is it.
LEMMA MaxIs ==
    ASSUME NEW S \in SUBSET Int, IsFiniteSet(S), S # {}
    PROVE  Max(S) \in S /\ \A y \in S : Max(S) >= y
<1> DEFINE Q == {s \in SUBSET S : s = {} \/ \E x \in s : \A y \in s : x >= y}
<1>1. ASSUME NEW s \in SUBSET S, \A t \in SUBSET s : t # s => t \in Q, s # {}
      PROVE  \E x \in s : \A y \in s : x >= y
    <2>1. PICK x \in s : TRUE
        BY <1>1
    <2>2. s \ {x} = {} \/ \E m \in s \ {x} : \A y \in s \ {x} : m >= y
        <3>1. s \ {x} \in SUBSET s /\ s \ {x} # s
            BY <2>1
        <3>2. s \ {x} \in Q
            BY <1>1, <3>1
        <3> QED BY <3>2
    <2>3. ASSUME NEW m \in s \ {x}, \A y \in s \ {x} : m >= y
          PROVE  \E z \in s : \A y \in s : z >= y
        <3>1. m \in Int /\ x \in Int /\ \A y \in s : y \in Int
            OBVIOUS
        <3>2. CASE m >= x
            BY <2>3, <3>2
        <3>3. CASE x >= m
            <4>1. \A y \in s : x >= y
                BY <2>3, <3>1, <3>3
            <4> QED BY <4>1
        <3> QED BY <3>1, <3>2, <3>3
    <2>4. s \ {x} = {} => \A y \in s : x >= y
        BY <2>1
    <2> QED BY <2>1, <2>2, <2>3, <2>4
<1>2. \A s \in SUBSET S : (\A t \in SUBSET s : t # s => t \in Q) => s \in Q
    BY <1>1
<1> HIDE DEF Q
<1>3. \A s \in SUBSET S : s \in Q
    BY <1>2, SubsetInduction
<1>4. \E x \in S : \A y \in S : x >= y
    BY <1>3 DEF Q
<1> QED BY <1>4 DEF Max

LEMMA MaxOfTwo ==
    ASSUME NEW m \in Nat, NEW n \in Nat
    PROVE  Max({m, n}) = IF m >= n THEN m ELSE n
<1>1. IsFiniteSet({m, n})
    <2>1. IsFiniteSet({m}) /\ IsFiniteSet({n})
        BY FS_Singleton
    <2>2. {m, n} = {m} \cup {n}
        OBVIOUS
    <2> QED BY <2>1, <2>2, FS_Union
<1>2. Max({m, n}) \in {m, n} /\ \A y \in {m, n} : Max({m, n}) >= y
    BY <1>1, MaxIs
<1> QED BY <1>2

LEMMA MaxOfThree ==
    ASSUME NEW k \in Nat, NEW m \in Nat, NEW n \in Nat
    PROVE  LET larger == IF k >= m THEN k ELSE m
           IN  Max({k, m, n}) = IF larger >= n THEN larger ELSE n
<1>1. IsFiniteSet({k, m, n})
    <2>1. IsFiniteSet({k}) /\ IsFiniteSet({m}) /\ IsFiniteSet({n})
        BY FS_Singleton
    <2>2. IsFiniteSet({k} \cup {m})
        BY <2>1, FS_Union
    <2>3. IsFiniteSet(({k} \cup {m}) \cup {n})
        BY <2>1, <2>2, FS_Union
    <2>4. {k, m, n} = ({k} \cup {m}) \cup {n}
        OBVIOUS
    <2> QED BY <2>3, <2>4
<1>2. {k, m, n} \in SUBSET Int /\ {k, m, n} # {}
    OBVIOUS
<1>3. Max({k, m, n}) \in {k, m, n} /\ \A y \in {k, m, n} : Max({k, m, n}) >= y
    BY <1>1, <1>2, MaxIs
<1> DEFINE M == Max({k, m, n})
<1> HIDE DEF M
<1>4. (M = k \/ M = m \/ M = n) /\ M >= k /\ M >= m /\ M >= n
    BY <1>3 DEF M
<1>5. M = IF (IF k >= m THEN k ELSE m) >= n THEN IF k >= m THEN k ELSE m ELSE n
    BY <1>4
<1> QED BY <1>5 DEF M

\* What a browser has been promised, spelled out.
PromisedValue(b) ==
    LET larger == IF threads[b] >= launching[b] THEN threads[b] ELSE launching[b]
        window == IF phase[b] = "window" THEN size[b] ELSE 0
    IN  IF larger >= window THEN larger ELSE window

PinnedValue(b) ==
    LET kept == IF b \in pinned /\ ~Running(b) THEN size[b] ELSE 0
    IN  IF PromisedValue(b) >= kept THEN PromisedValue(b) ELSE kept

Counted == TypeOK => \A b \in Browsers :
    /\ launching[b] \in Nat /\ threads[b] \in Nat /\ size[b] \in Nat /\ usage[b] \in Nat
    /\ Promised(b) = PromisedValue(b) /\ PromisedOrPinned(b) = PinnedValue(b)
    /\ Promised(b) \in Nat /\ PromisedOrPinned(b) \in Nat

LEMMA CountedHolds == Counted
<1> SUFFICES ASSUME TypeOK, NEW b \in Browsers
             PROVE  /\ launching[b] \in Nat /\ threads[b] \in Nat /\ size[b] \in Nat /\ usage[b] \in Nat
                    /\ Promised(b) = PromisedValue(b) /\ PromisedOrPinned(b) = PinnedValue(b)
                    /\ Promised(b) \in Nat /\ PromisedOrPinned(b) \in Nat
    BY DEF Counted
<1>0. Sizes \cup {0} \subseteq Nat
    BY CapacityAssumption
<1>1. launching[b] \in Nat /\ threads[b] \in Nat /\ size[b] \in Nat /\ usage[b] \in Nat
    <2>1. launching[b] \in Sizes \cup {0} /\ size[b] \in Sizes
        BY DEF TypeOK
    <2>2. threads[b] \in Nat /\ usage[b] \in Nat
        BY DEF TypeOK
    <2> QED BY <1>0, <2>1, <2>2
<1>2. Promised(b) = PromisedValue(b) /\ Promised(b) \in Nat
    <2> DEFINE w == IF phase[b] = "window" THEN size[b] ELSE 0
    <2>1. w \in Nat
        BY <1>1
    <2>2. Promised(b) = Max({threads[b], launching[b], w})
        BY DEF Promised
    <2> HIDE DEF w
    <2>3. /\ Promised(b) \in Nat
          /\ Promised(b) = LET larger == IF threads[b] >= launching[b] THEN threads[b] ELSE launching[b]
                           IN  IF larger >= w THEN larger ELSE w
        BY <1>1, <2>1, <2>2, MaxOfThree
    <2> QED BY <2>3 DEF PromisedValue, w
<1>3. PromisedOrPinned(b) = PinnedValue(b) /\ PromisedOrPinned(b) \in Nat
    <2> DEFINE kept == IF b \in pinned /\ ~Running(b) THEN size[b] ELSE 0
    <2>1. kept \in Nat
        BY <1>1
    <2>2. PromisedOrPinned(b) = Max({Promised(b), kept})
        BY DEF PromisedOrPinned
    <2> HIDE DEF kept
    <2>3. /\ PromisedOrPinned(b) \in Nat
          /\ PromisedOrPinned(b) = IF Promised(b) >= kept THEN Promised(b) ELSE kept
        BY <1>2, <2>1, <2>2, MaxOfTwo
    <2> QED BY <1>2, <2>3 DEF PinnedValue, kept
<1> QED BY <1>1, <1>2, <1>3

LEMMA CountedNext == Counted'
BY CountedHolds, PTL

-------------------------------------------------------------------------------
(* What is counted and what is reserved. *)

\* A browser that is not running holds nothing but a launch under way; a launch was reserved at
\* least its size; and nothing is reserved for a browser that is running.
CountsInv ==
    \A b \in Browsers :
        /\ ~Running(b) => usage[b] = 0
        /\ ~Running(b) /\ launching[b] = 0 => threads[b] = 0
        /\ Running(b) => launching[b] = 0 /\ start[b] \in {"none", "launch"}
        /\ phase[b] = "window" => usage[b] <= threads[b]
        /\ launching[b] > 0 => start[b] = "launch" /\ size[b] <= launching[b]
        /\ b \in stopping => Running(b)

\* What a step may do to one browser's counts without promising it more.
Steady(b) ==
    /\ phase'[b] = phase[b] /\ threads'[b] = threads[b] /\ launching'[b] = launching[b]
    /\ size'[b] <= size[b]

Eased(b) ==
    /\ phase'[b] = phase[b] /\ threads'[b] <= threads[b] /\ launching'[b] = 0
    /\ size'[b] = size[b]

Ceased(b) == Running(b) /\ phase'[b] = "stopped" /\ threads'[b] = 0 /\ launching'[b] = 0

Opened(b) ==
    /\ launching[b] > 0 /\ launching'[b] = 0 /\ phase'[b] = "window"
    /\ threads'[b] = threads[b] /\ size'[b] = size[b]

Settled(b) ==
    /\ phase[b] # "stopped" /\ phase'[b] = "up" /\ threads'[b] = threads[b]
    /\ launching'[b] = 0

Grown(b) ==
    /\ launching[b] > threads[b] \/ (phase[b] = "window" /\ size[b] > threads[b])
    /\ phase'[b] = phase[b] /\ launching'[b] = launching[b] /\ size'[b] = size[b]
    /\ threads'[b] = threads[b] + 1

Milder(b) == Steady(b) \/ Eased(b) \/ Ceased(b) \/ Opened(b) \/ Settled(b) \/ Grown(b)

LEMMA MilderIs ==
    ASSUME TypeOK, TypeOK', CountsInv, NEW b \in Browsers, Milder(b)
    PROVE  /\ Promised(b)' <= Promised(b)
           /\ pinned' = pinned /\ ~(b \in pinned /\ Running(b) /\ ~Running(b)')
              => PromisedOrPinned(b)' <= PromisedOrPinned(b)
<1>1. /\ launching[b] \in Nat /\ threads[b] \in Nat /\ size[b] \in Nat
      /\ launching'[b] \in Nat /\ threads'[b] \in Nat /\ size'[b] \in Nat
    BY CountedHolds, CountedNext DEF Counted
<1>2. /\ Promised(b) = PromisedValue(b) /\ PromisedOrPinned(b) = PinnedValue(b)
      /\ Promised(b)' = PromisedValue(b)' /\ PromisedOrPinned(b)' = PinnedValue(b)'
    BY CountedHolds, CountedNext DEF Counted
<1>3. /\ ~Running(b) /\ launching[b] = 0 => threads[b] = 0
      /\ Running(b) => launching[b] = 0
      /\ launching[b] > 0 => size[b] <= launching[b]
    BY DEF CountsInv
<1>4. PromisedValue(b)' <= PromisedValue(b)
    BY <1>1, <1>3 DEF Milder, Steady, Eased, Ceased, Opened, Settled, Grown, PromisedValue, Running
<1>5. ASSUME pinned' = pinned, ~(b \in pinned /\ Running(b) /\ ~Running(b)')
      PROVE  PinnedValue(b)' <= PinnedValue(b)
    BY <1>1, <1>3, <1>5 DEF Milder, Steady, Eased, Ceased, Opened, Settled, Grown, PromisedValue,
       PinnedValue, Running
<1> QED BY <1>2, <1>4, <1>5

LEMMA MilderSame ==
    ASSUME TypeOK, UNCHANGED <<launching, phase, threads, size>>
    PROVE  \A b \in Browsers : Milder(b)
<1>1. \A b \in Browsers : size[b] \in Nat
    BY CountedHolds DEF Counted
<1> QED BY <1>1 DEF Milder, Steady

LEMMA MilderEnd ==
    ASSUME TypeOK, CountsInv, NEW b \in Browsers, EndStart(b), UNCHANGED <<phase, size>>,
           threads' = threads \/ threads' = [threads EXCEPT ![b] = 0]
    PROVE  \A c \in Browsers : Milder(c)
<1> TAKE c \in Browsers
<1>0. threads \in [Browsers -> Nat] /\ launching \in [Browsers -> Sizes \cup {0}]
    BY DEF TypeOK
<1>1. size[c] \in Nat /\ threads[c] \in Nat /\ threads'[c] <= threads[c]
    BY <1>0, CountedHolds DEF Counted
<1>2. launching'[c] = IF c = b THEN 0 ELSE launching[c]
    BY <1>0 DEF EndStart
<1>3. c # b => threads'[c] = threads[c]
    BY <1>0
<1> QED BY <1>1, <1>2, <1>3 DEF Milder, Steady, Eased

\* A step of a start, of its stop, or of what its browser does, other than an admission.
LEMMA MilderSystem ==
    ASSUME TypeOK, CountsInv, NEW b \in Browsers,
           \/ PassRefused(b) \/ Deadline(b) \/ Launched(b) \/ StartEnds(b) \/ LaunchFails(b)
           \/ Stopped(b) \/ StopFails(b) \/ WindowEnds(b)
    PROVE  \A c \in Browsers : Milder(c)
<1> USE DEF queueVars, hostVars, shedVars, userVars
<1>0. \A c \in Browsers : size[c] \in Nat /\ threads[c] \in Nat
    BY CountedHolds DEF Counted
<1>1. CASE PassRefused(b) \/ StartEnds(b) \/ LaunchFails(b)
    BY <1>1, MilderEnd DEF PassRefused, StartEnds, LaunchFails
<1>2. CASE Deadline(b)
    BY <1>2, MilderSame DEF Deadline
<1>3. CASE Launched(b)
    BY <1>0, <1>3 DEF Launched, TypeOK, Milder, Steady, Opened
<1>4. CASE Stopped(b)
    <2>1. Running(b) /\ launching[b] = 0
        BY <1>4 DEF Stopped, CountsInv
    <2>2. PICK s \in Sizes : size' = [size EXCEPT ![b] = s]
        BY <1>4 DEF Stopped
    <2> QED BY <1>0, <1>4, <2>1, <2>2 DEF Stopped, Gone, TypeOK, Milder, Steady, Ceased
<1>5. CASE StopFails(b)
    <2>1. CASE shed.by \in Browsers /\ EndStart(shed.by)
        BY <1>5, <2>1, MilderEnd DEF StopFails
    <2>2. CASE UNCHANGED launching
        BY <1>5, <2>2, MilderSame DEF StopFails
    <2> QED BY <1>5, <2>1, <2>2 DEF StopFails
<1>6. CASE WindowEnds(b)
    <2>1. launching[b] = 0
        BY <1>6 DEF WindowEnds, CountsInv, Running
    <2>2. PICK s \in Sizes : size' = [size EXCEPT ![b] = s]
        BY <1>6 DEF WindowEnds
    <2> QED BY <1>0, <1>6, <2>1, <2>2 DEF WindowEnds, TypeOK, Milder, Steady, Settled
<1> QED BY <1>1, <1>2, <1>3, <1>4, <1>5, <1>6

LEMMA MilderOthers ==
    ASSUME TypeOK, CountsInv, ~Growth, NEW b \in Browsers,
           \/ Stop(b) \/ Crash(b) \/ Grow(b) \/ Shrink(b) \/ SetPinned(b) \/ ResetThreads(b)
           \/ Unused(b) \/ Used(b) \/ Control(b) \/ Close(b) \/ Reopen(b)
    PROVE  \A c \in Browsers : Milder(c)
<1> USE DEF queueVars, hostVars, shedVars, userVars, systemVars
<1>0. \A c \in Browsers : size[c] \in Nat /\ threads[c] \in Nat
    BY CountedHolds DEF Counted
<1>1. CASE Stop(b) \/ SetPinned(b) \/ Unused(b) \/ Used(b) \/ Control(b) \/ Close(b) \/ Reopen(b)
    BY <1>1, MilderSame DEF Stop, SetPinned, Unused, Used, Control, Close, Reopen
<1>2. CASE Crash(b)
    <2>1. launching[b] = 0
        BY <1>2 DEF Crash, CountsInv
    <2> QED BY <1>0, <1>2, <2>1 DEF Crash, Gone, TypeOK, Milder, Steady, Ceased
<1>3. CASE Grow(b)
    <2>1. threads'[b] = threads[b] + 1 /\ \A c \in Browsers \ {b} : threads'[c] = threads[c]
        BY <1>3 DEF Grow, TypeOK
    <2>2. phase[b] # "up"
        BY <1>0, <2>1 DEF Growth
    <2> QED BY <1>0, <1>3, <2>1, <2>2 DEF Grow, Milder, Steady, Grown
<1>4. CASE Shrink(b)
    <2>1. launching[b] = 0
        BY <1>4 DEF Shrink, CountsInv, Running
    <2>2. threads' = [threads EXCEPT ![b] = @ - 1]
        BY <1>4 DEF Shrink
    <2> QED BY <1>0, <1>4, <2>1, <2>2 DEF Shrink, TypeOK, Milder, Steady, Eased
<1>5. CASE ResetThreads(b)
    <2>1. size'[b] = Flat /\ Flat <= size[b] /\ \A c \in Browsers \ {b} : size'[c] = size[c]
        BY <1>5, CapacityAssumption DEF ResetThreads, TypeOK
    <2> QED BY <1>0, <1>5, <2>1 DEF ResetThreads, Milder, Steady
<1> QED BY <1>1, <1>2, <1>3, <1>4, <1>5

LEMMA MilderSample ==
    ASSUME TypeOK, CountsInv, ~Outgrown, Sample
    PROVE  \A c \in Browsers : Milder(c)
<1> TAKE c \in Browsers
<1>0. size[c] \in Nat /\ threads[c] \in Nat
    BY CountedHolds DEF Counted
<1>1. UNCHANGED <<launching, phase, threads>>
    BY DEF Sample, queueVars
<1>2. size'[c] = size[c] \/ Scanned[c] > size[c]
    <2>1. CASE UNCHANGED <<usage, size>>
        BY <2>1
    <2>2. CASE size' \in {f \in [Browsers -> Sizes] : \A b \in Browsers :
                IF Scanned[b] <= size[b] THEN f[b] = size[b] ELSE f[b] >= Scanned[b]}
        <3>1. Scanned[c] \in Nat
            BY <1>0 DEF Scanned
        <3> QED BY <1>0, <2>2, <3>1
    <2> QED BY <2>1, <2>2 DEF Sample
<1>3. CASE size'[c] = size[c]
    BY <1>0, <1>1, <1>3 DEF Milder, Steady
<1>4. CASE Scanned[c] > size[c]
    <2>1. Running(c) /\ threads[c] > size[c]
        BY <1>0, <1>4 DEF Scanned
    <2>2. phase[c] = "up" /\ launching[c] = 0
        BY <2>1 DEF Outgrown, CountsInv, Running, TypeOK
    <2> QED BY <1>1, <2>2 DEF Milder, Settled
<1> QED BY <1>2, <1>3, <1>4

-------------------------------------------------------------------------------
(* An admission. *)

\* What the requester finds held for another browser covers what that one has been promised.
LEMMA HeldCovers ==
    ASSUME TypeOK, CountsInv, NEW b \in Browsers, NEW ahead, NEW c \in Browsers \ {b}
    PROVE  LET before == QueuedBefore(b, ahead)
               held == Max(Figures(c) \cup {waiting[w].need : w \in {c} \cap before})
           IN  held \in Nat /\ PromisedOrPinned(c) <= threads[c] + held
<1> DEFINE before == QueuedBefore(b, ahead)
           S == Figures(c) \cup {waiting[w].need : w \in {c} \cap before}
<1>1. /\ launching[c] \in Nat /\ threads[c] \in Nat /\ size[c] \in Nat /\ usage[c] \in Nat
      /\ PromisedOrPinned(c) = PinnedValue(c)
    BY CountedHolds DEF Counted
<1>2. S \subseteq {0, launching[c], size[c] - usage[c], size[c], waiting[c].need}
    BY DEF Figures
<1>3. waiting[c].need \in Nat
    <2>1. Sizes \subseteq Nat
        BY CapacityAssumption
    <2>2. waiting[c] \in [pinned : BOOLEAN, need : Sizes] \cup {NotQueued}
        BY DEF TypeOK
    <2>4. CASE waiting[c] = NotQueued
        <3>1. waiting[c].need = 0
            BY <2>4 DEF NotQueued
        <3> QED BY <3>1
    <2>5. CASE waiting[c] \in [pinned : BOOLEAN, need : Sizes]
        <3>1. waiting[c].need \in Sizes
            BY <2>5
        <3> QED BY <2>1, <3>1
    <2> QED BY <2>2, <2>4, <2>5
<1>4. IsFiniteSet({0, launching[c], size[c] - usage[c], size[c], waiting[c].need})
    <2>1. \A x : IsFiniteSet({x})
        BY FS_Singleton
    <2>2. IsFiniteSet({0} \cup {launching[c]}) /\ IsFiniteSet({size[c] - usage[c]} \cup {size[c]})
        BY <2>1, FS_Union
    <2>3. IsFiniteSet(({0} \cup {launching[c]}) \cup ({size[c] - usage[c]} \cup {size[c]}))
        BY <2>2, FS_Union
    <2>4. IsFiniteSet((({0} \cup {launching[c]}) \cup ({size[c] - usage[c]} \cup {size[c]})) \cup {waiting[c].need})
        BY <2>1, <2>3, FS_Union
    <2>5. {0, launching[c], size[c] - usage[c], size[c], waiting[c].need}
            = (({0} \cup {launching[c]}) \cup ({size[c] - usage[c]} \cup {size[c]})) \cup {waiting[c].need}
        OBVIOUS
    <2> QED BY <2>4, <2>5
<1>5. S \in SUBSET Int /\ IsFiniteSet(S) /\ 0 \in S
    <2>1. S \in SUBSET Int
        BY <1>1, <1>2, <1>3
    <2>2. IsFiniteSet(S)
        BY <1>2, <1>4, FS_Subset
    <2> QED BY <2>1, <2>2 DEF Figures
<1> HIDE DEF S
<1>6. Max(S) \in Int /\ \A y \in S : Max(S) >= y
    BY <1>5, MaxIs
<1>7. Max(S) >= 0
    BY <1>5, <1>6
<1>8. Max(S) >= launching[c]
    <2>1. launching[c] \in S
        BY DEF S, Figures
    <2> QED BY <1>6, <2>1
<1>9. phase[c] = "window" => Max(S) >= size[c] - usage[c]
    <2>1. phase[c] = "window" => size[c] - usage[c] \in S
        BY DEF S, Figures
    <2> QED BY <1>6, <2>1
<1>10. c \in pinned /\ ~Running(c) => Max(S) >= size[c]
    <2>1. c \in pinned /\ ~Running(c) => size[c] \in S
        BY DEF S, Figures
    <2> QED BY <1>6, <2>1
<1>11. phase[c] = "window" => usage[c] <= threads[c]
    BY DEF CountsInv
<1>12. PinnedValue(c) <= threads[c] + Max(S)
    BY <1>1, <1>6, <1>7, <1>8, <1>9, <1>10, <1>11 DEF PinnedValue, PromisedValue
<1> QED BY <1>1, <1>6, <1>7, <1>12 DEF S

LEMMA AdmissionFits ==
    ASSUME TypeOK, TypeOK', CountsInv, CountsInv', NEW b \in Browsers, NEW ahead, Admitted(b, ahead),
           ~Running(b), start[b] # "launch", UNCHANGED <<hostVars, pinned>>
    PROVE  Fits' /\ PinnedFit'
<1> DEFINE before == QueuedBefore(b, ahead)
           hold == [c \in Browsers |->
                       Max(Figures(c) \cup {waiting[w].need : w \in {c} \cap before})]
           all == [hold EXCEPT ![b] = size[b]]
           S == Browsers \ {b}
<1>0. IsFiniteSet(Browsers) /\ IsFiniteSet(S)
    BY CapacityAssumption, FS_Subset
<1>1. /\ size[b] \in Nat /\ \A c \in Browsers : threads[c] \in Nat
      /\ launching[b] = 0 /\ threads[b] = 0 /\ size[b] > 0
    <2>1. size[b] \in Nat /\ launching[b] \in Nat /\ \A c \in Browsers : threads[c] \in Nat
        BY CountedHolds DEF Counted
    <2>2. launching[b] = 0
        BY <2>1 DEF CountsInv
    <2>3. threads[b] = 0
        BY <2>2 DEF CountsInv
    <2>4. size[b] > 0
        <3>1. size[b] \in Sizes /\ Sizes \subseteq Nat \ {0}
            BY CapacityAssumption DEF TypeOK
        <3>2. size[b] # 0
            BY <3>1
        <3> QED BY <2>1, <3>2
    <2> QED BY <2>1, <2>2, <2>3, <2>4
<1>2. /\ \A c \in Browsers : all[c] \in Nat
      /\ \A c \in S : hold[c] \in Nat /\ hold[c] = all[c]
      /\ all[b] = size[b]
      /\ \A c \in S : PromisedOrPinned(c) <= threads[c] + all[c]
    <2>1. \A c \in S : hold[c] \in Nat /\ PromisedOrPinned(c) <= threads[c] + hold[c]
        BY HeldCovers
    <2>2. all[b] = size[b] /\ \A c \in S : all[c] = hold[c]
        OBVIOUS
    <2> HIDE DEF all, hold
    <2> QED BY <1>1, <2>1, <2>2
<1>3. HoldsAgainst(b, ahead) = SumOver(hold, S)
    BY DEF HoldsAgainst
<1>4. Current = SumOver(threads, Browsers)
    BY DEF Current, Total
<1>5. launching'[b] = size[b] /\ \A c \in S : launching'[c] = launching[c]
    BY DEF Admitted, TypeOK
<1> DEFINE promised == [c \in Browsers |-> Promised(c)']
           kept == [c \in Browsers |-> PromisedOrPinned(c)']
<1>6. \A c \in Browsers : /\ promised[c] \in Nat /\ kept[c] \in Nat
                          /\ promised[c] <= kept[c]
                          /\ kept[c] <= threads[c] + all[c]
    <2> TAKE c \in Browsers
    <2>1. /\ Promised(c)' = PromisedValue(c)' /\ PromisedOrPinned(c)' = PinnedValue(c)'
          /\ PromisedOrPinned(c) = PinnedValue(c)
          /\ promised[c] \in Nat /\ kept[c] \in Nat
          /\ size'[c] \in Nat /\ threads'[c] \in Nat /\ launching'[c] \in Nat
        BY CountedHolds, CountedNext DEF Counted
    <2>2. PromisedValue(c)' <= PinnedValue(c)'
        BY <2>1 DEF PinnedValue, PromisedValue, Running
    <2>3. UNCHANGED <<phase, threads, size, pinned>>
        BY DEF hostVars
    <2>4. PinnedValue(c)' <= threads[c] + all[c]
        <3>1. CASE c = b
            <4>1. PinnedValue(b)' = size[b]
                BY <1>1, <1>5, <2>3 DEF PinnedValue, PromisedValue
            <4> QED BY <1>1, <1>2, <3>1, <4>1
        <3>2. CASE c # b
            <4>1. PinnedValue(c)' = PinnedValue(c)
                BY <1>5, <2>3, <3>2 DEF PinnedValue, PromisedValue, Running
            <4> QED BY <1>2, <2>1, <3>2, <4>1
        <3> QED BY <3>1, <3>2
    <2> QED BY <2>1, <2>2, <2>4
<1>7. Fits' <=> SumOver(promised, Browsers) <= Ceiling - Headroom
    BY DEF Fits, Total
<1>8. PinnedFit' <=> SumOver(kept, Browsers) <= Ceiling - Headroom
    BY DEF PinnedFit, Total
<1>9. SumOver(hold, S) = SumOver(all, S)
    <2> HIDE DEF hold, all, S
    <2>1. \A c \in S : hold[c] <= all[c] /\ all[c] <= hold[c] /\ hold[c] \in Nat /\ all[c] \in Nat
        BY <1>2
    <2>2. SumOver(hold, S) <= SumOver(all, S) /\ SumOver(all, S) <= SumOver(hold, S)
        BY <1>0, <2>1, SumMonotone
    <2>3. SumOver(hold, S) \in Nat /\ SumOver(all, S) \in Nat
        BY <1>0, <2>1, SumType
    <2> QED BY <2>2, <2>3
<1> HIDE DEF hold, all, promised, kept
<1>10. SumOver(all, Browsers) = size[b] + SumOver(all, S)
    BY <1>0, <1>2, SumRemove
<1>11. SumOver(kept, Browsers) <= SumOver(threads, Browsers) + SumOver(all, Browsers)
    BY <1>0, <1>1, <1>2, <1>6, SumBound
<1>12. SumOver(promised, Browsers) <= SumOver(kept, Browsers)
    BY <1>0, <1>6, SumMonotone
<1>13. /\ SumOver(threads, Browsers) \in Nat /\ SumOver(all, S) \in Nat
       /\ SumOver(kept, Browsers) \in Nat /\ SumOver(promised, Browsers) \in Nat
    <2>1. \A c \in S : all[c] \in Nat
        BY <1>2
    <2> QED BY <1>0, <1>1, <1>2, <1>6, <2>1, SumType
<1>14. Ceiling - SumOver(threads, Browsers) - Headroom - SumOver(hold, S) >= size[b]
    BY <1>3, <1>4 DEF Admitted, Room
<1> HIDE DEF S
<1>15. SumOver(kept, Browsers) <= Ceiling - Headroom
    BY <1>1, <1>9, <1>10, <1>11, <1>13, <1>14, CapacityAssumption
<1> QED BY <1>7, <1>8, <1>12, <1>13, <1>15, CapacityAssumption

-------------------------------------------------------------------------------
(* What is counted and what is reserved agree in every step. *)

LEMMA InitCounts == Init => CountsInv
BY DEF Init, CountsInv, Running

\* A step that only moves starts along, and reserves nothing.
LEMMA CountsSame ==
    ASSUME CountsInv, UNCHANGED <<hostVars, launching>>, stopping' \subseteq stopping,
           \A c \in Browsers : start'[c] # start[c] =>
                launching[c] = 0 /\ (Running(c) => start'[c] \in {"none", "launch"})
    PROVE  CountsInv'
<1>1. UNCHANGED <<phase, threads, usage, size>>
    BY DEF hostVars
<1> SUFFICES ASSUME NEW c \in Browsers
             PROVE  /\ ~Running(c)' => usage'[c] = 0
                    /\ ~Running(c)' /\ launching'[c] = 0 => threads'[c] = 0
                    /\ Running(c)' => launching'[c] = 0 /\ start'[c] \in {"none", "launch"}
                    /\ phase'[c] = "window" => usage'[c] <= threads'[c]
                    /\ launching'[c] > 0 => start'[c] = "launch" /\ size'[c] <= launching'[c]
                    /\ c \in stopping' => Running(c)'
    BY DEF CountsInv
<1> QED BY <1>1 DEF CountsInv, Running

LEMMA CountsEnd ==
    ASSUME TypeOK, CountsInv, NEW b \in Browsers, EndStart(b), UNCHANGED <<phase, usage, size>>,
           stopping' \subseteq stopping,
           \/ threads' = threads /\ launching[b] = 0
           \/ threads' = [threads EXCEPT ![b] = 0] /\ ~Running(b)
    PROVE  CountsInv'
<1>1. threads \in [Browsers -> Nat] /\ \A c \in Browsers : launching[c] \in Nat
    BY CountedHolds DEF Counted, TypeOK
<1>2. \A c \in Browsers : /\ start'[c] = IF c = b THEN "none" ELSE start[c]
                          /\ launching'[c] = IF c = b THEN 0 ELSE launching[c]
    BY DEF EndStart, TypeOK
<1>3. \A c \in Browsers \ {b} : threads'[c] = threads[c]
    BY <1>1
<1>4. threads'[b] = threads[b] \/ (threads'[b] = 0 /\ ~Running(b))
    BY <1>1
<1>5. launching[b] = 0 \/ threads'[b] = 0
    BY <1>1
<1> QED BY <1>1, <1>2, <1>3, <1>4, <1>5 DEF CountsInv, Running

LEMMA CountsPass ==
    ASSUME TypeOK, CountsInv, NEW b \in Browsers, NEW ahead, PassAfter(b, ahead),
           start[b] \in {"none", "sleep", "again"}, ~Running(b), UNCHANGED <<hostVars, stopping>>
    PROVE  CountsInv'
<1>0. UNCHANGED <<phase, threads, usage, size, stopping>>
    BY DEF hostVars
<1>1. size[b] \in Nat /\ launching[b] \in Nat /\ launching[b] = 0
    BY CountedHolds DEF Counted, CountsInv
<1>2. /\ \A c \in Browsers \ {b} : start'[c] = start[c] /\ launching'[c] = launching[c]
      /\ launching'[b] = 0 \/ (start'[b] = "launch" /\ launching'[b] = size[b])
    BY <1>1 DEF PassAfter, Admitted, MakesRoom, Queues, TypeOK
<1>3. threads[b] = 0
    BY <1>1 DEF CountsInv
<1> QED BY <1>0, <1>1, <1>2, <1>3 DEF CountsInv, Running

\* A browser that is gone, and one whose size alone is changed while nothing is reserved for it.
LEMMA CountsGone ==
    ASSUME TypeOK, CountsInv, NEW b \in Browsers, Running(b), Gone(b), UNCHANGED <<start, launching>>,
           \A c \in Browsers \ {b} : size'[c] = size[c]
    PROVE  CountsInv'
<1>1. /\ phase'[b] = "stopped" /\ threads'[b] = 0 /\ usage'[b] = 0 /\ b \notin stopping'
      /\ \A c \in Browsers \ {b} : /\ phase'[c] = phase[c] /\ threads'[c] = threads[c]
                                   /\ usage'[c] = usage[c]
      /\ stopping' \subseteq stopping
    BY DEF Gone, TypeOK
<1>2. launching[b] = 0 /\ ~(launching[b] > 0)
    BY DEF CountsInv
<1> QED BY <1>1, <1>2 DEF CountsInv, Running

LEMMA CountsSystem ==
    ASSUME TypeOK, CountsInv, HoldInv, NEW b \in Browsers,
           \/ PassRefused(b) \/ Deadline(b) \/ Launched(b) \/ StartEnds(b) \/ LaunchFails(b)
           \/ Stopped(b) \/ StopFails(b) \/ WindowEnds(b)
    PROVE  CountsInv'
<1> USE DEF queueVars, shedVars, userVars
<1>0. \A c \in Browsers : /\ launching[c] \in Nat /\ threads[c] \in Nat /\ size[c] \in Nat
                          /\ usage[c] \in Nat
    BY CountedHolds DEF Counted
<1>1. CASE PassRefused(b)
    <2>1. launching[b] = 0
        BY <1>0, <1>1 DEF PassRefused, CountsInv
    <2> QED BY <1>1, <2>1, CountsEnd DEF PassRefused, hostVars
<1>2. CASE Deadline(b)
    BY <1>2, CountsSame DEF Deadline
<1>3. CASE Launched(b)
    <2>1. /\ launching'[b] = 0 /\ phase'[b] = "window"
          /\ \A c \in Browsers \ {b} : launching'[c] = launching[c] /\ phase'[c] = phase[c]
          /\ UNCHANGED <<start, threads, usage, size, stopping>>
        BY <1>3 DEF Launched, TypeOK
    <2>2. usage[b] = 0 /\ start[b] = "launch"
        BY <1>3 DEF Launched, CountsInv
    <2> QED BY <1>0, <2>1, <2>2 DEF CountsInv, Running
<1>4. CASE StartEnds(b)
    BY <1>4, CountsEnd DEF StartEnds, hostVars
<1>5. CASE LaunchFails(b)
    BY <1>5, CountsEnd DEF LaunchFails
<1>6. CASE Stopped(b)
    <2>1. Running(b)
        BY <1>6 DEF Stopped, CountsInv
    <2>2. \A c \in Browsers \ {b} : size'[c] = size[c]
        BY <1>6 DEF Stopped, TypeOK
    <2> QED BY <1>6, <2>1, <2>2, CountsGone DEF Stopped
<1>7. CASE StopFails(b)
    <2>1. CASE shed.by \in Browsers /\ EndStart(shed.by)
        <3>1. launching[shed.by] = 0
            BY <1>0, <2>1 DEF HoldInv, CountsInv
        <3> QED BY <1>7, <2>1, <3>1, CountsEnd DEF StopFails, hostVars
    <2>2. CASE UNCHANGED <<start, launching>>
        BY <1>7, <2>2, CountsSame DEF StopFails
    <2> QED BY <1>7, <2>1, <2>2 DEF StopFails
<1>8. CASE WindowEnds(b)
    <2>1. launching[b] = 0 /\ Running(b)
        BY <1>8 DEF WindowEnds, CountsInv, Running
    <2>2. /\ phase'[b] = "up" /\ \A c \in Browsers \ {b} : phase'[c] = phase[c] /\ size'[c] = size[c]
          /\ UNCHANGED <<start, launching, threads, usage, stopping>>
        BY <1>8 DEF WindowEnds, TypeOK
    <2> QED BY <2>1, <2>2 DEF CountsInv, Running
<1> QED BY <1>1, <1>2, <1>3, <1>4, <1>5, <1>6, <1>7, <1>8

LEMMA CountsOthers ==
    ASSUME TypeOK, CountsInv, NEW b \in Browsers,
           \/ Stop(b) \/ Crash(b) \/ Grow(b) \/ Shrink(b) \/ SetPinned(b) \/ ResetThreads(b)
           \/ Unused(b) \/ Used(b) \/ Control(b) \/ Close(b) \/ Reopen(b)
    PROVE  CountsInv'
<1> USE DEF queueVars, shedVars, userVars, systemVars
<1>0. \A c \in Browsers : /\ launching[c] \in Nat /\ threads[c] \in Nat /\ size[c] \in Nat
                          /\ usage[c] \in Nat
    BY CountedHolds DEF Counted
<1>1. CASE Stop(b)
    <2>1. UNCHANGED <<start, launching, phase, threads, usage, size>> /\ stopping' = stopping \cup {b}
        BY <1>1 DEF Stop, hostVars
    <2> QED BY <1>1, <2>1 DEF Stop, CountsInv, Running
<1>2. CASE Crash(b)
    BY <1>2, CountsGone DEF Crash
<1>3. CASE Grow(b)
    <2>1. /\ threads'[b] = threads[b] + 1 /\ \A c \in Browsers \ {b} : threads'[c] = threads[c]
          /\ UNCHANGED <<start, launching, phase, usage, size, stopping>>
        BY <1>3 DEF Grow, TypeOK
    <2>2. launching[b] > 0 \/ Running(b)
        BY <1>0, <1>3 DEF Grow, Running
    <2> QED BY <1>0, <2>1, <2>2 DEF CountsInv, Running
<1>4. CASE Shrink(b)
    <2>1. /\ phase[b] = "up" /\ \A c \in Browsers \ {b} : threads'[c] = threads[c]
          /\ UNCHANGED <<start, launching, phase, usage, size, stopping>>
        BY <1>4 DEF Shrink, TypeOK
    <2> QED BY <2>1 DEF CountsInv, Running
<1>5. CASE SetPinned(b) \/ Unused(b) \/ Used(b) \/ Control(b) \/ Close(b) \/ Reopen(b)
    BY <1>5, CountsSame DEF SetPinned, Unused, Used, Control, Close, Reopen, hostVars
<1>6. CASE ResetThreads(b)
    <2>1. /\ size'[b] = Flat /\ Flat <= size[b] /\ \A c \in Browsers \ {b} : size'[c] = size[c]
          /\ Flat \in Nat
        BY <1>6, CapacityAssumption DEF ResetThreads, TypeOK
    <2>2. UNCHANGED <<start, launching, phase, threads, usage, stopping>>
        BY <1>6 DEF ResetThreads
    <2> QED BY <1>0, <2>1, <2>2 DEF CountsInv, Running
<1> QED BY <1>1, <1>2, <1>3, <1>4, <1>5, <1>6

LEMMA CountsSample ==
    ASSUME TypeOK, CountsInv, Sample
    PROVE  CountsInv'
<1>0. \A c \in Browsers : /\ launching[c] \in Nat /\ threads[c] \in Nat /\ size[c] \in Nat
                          /\ usage[c] \in Nat
    BY CountedHolds DEF Counted
<1>1. UNCHANGED <<start, launching, phase, threads, stopping>>
    BY DEF Sample, queueVars
<1>2. CASE UNCHANGED <<usage, size>>
    BY <1>1, <1>2, CountsSame DEF hostVars
<1>3. CASE /\ usage' = Scanned
           /\ size' \in {f \in [Browsers -> Sizes] : \A b \in Browsers :
                IF Scanned[b] <= size[b] THEN f[b] = size[b] ELSE f[b] >= Scanned[b]}
    <2>1. \A c \in Browsers : usage'[c] = IF Running(c) THEN threads[c] ELSE 0
        BY <1>3 DEF Scanned
    <2>2. \A c \in Browsers : ~Running(c) => size'[c] = size[c]
        BY <1>0, <1>3 DEF Scanned
    <2>3. \A c \in Browsers : launching[c] > 0 => ~Running(c)
        BY DEF CountsInv
    <2> QED BY <1>0, <1>1, <2>1, <2>2, <2>3 DEF CountsInv, Running
<1> QED BY <1>2, <1>3 DEF Sample

\* The stops of a shed.
LEMMA CountsShed ==
    ASSUME TypeOK, CountsInv, HoldInv, ShedStop \/ ShedNext \/ ShedRefused \/ Cooled \/ UNCHANGED vars
    PROVE  CountsInv'
<1> USE DEF queueVars, shedVars, userVars
<1>0. \A c \in Browsers : launching[c] \in Nat
    BY CountedHolds DEF Counted
<1>1. CASE ShedStop
    <2>1. /\ UNCHANGED <<start, launching, phase, threads, usage, size>>
          /\ stopping' = stopping \cup {Head(shed.todo)} /\ Running(Head(shed.todo))
        BY <1>1 DEF ShedStop, hostVars
    <2> QED BY <2>1 DEF CountsInv, Running
<1>2. CASE ShedNext
    <2>1. UNCHANGED <<hostVars, launching, stopping>>
        BY <1>2 DEF ShedNext
    <2>2. \A c \in Browsers : start'[c] # start[c] => c = shed.by
        BY <1>2 DEF ShedNext, TypeOK
    <2>3. \A c \in Browsers : c = shed.by => launching[c] = 0 /\ ~Running(c)
        BY <1>0 DEF HoldInv, CountsInv
    <2> QED BY <2>1, <2>2, <2>3, CountsSame
<1>3. CASE ShedRefused
    <2>1. CASE shed.by \in Browsers /\ EndStart(shed.by)
        <3>1. launching[shed.by] = 0
            BY <1>0, <2>1 DEF HoldInv, CountsInv
        <3> QED BY <1>3, <2>1, <3>1, CountsEnd DEF ShedRefused, hostVars
    <2>2. CASE UNCHANGED <<start, launching>>
        BY <1>3, <2>2, CountsSame DEF ShedRefused
    <2> QED BY <1>3, <2>1, <2>2 DEF ShedRefused
<1>4. CASE Cooled \/ UNCHANGED vars
    BY <1>4, CountsSame DEF Cooled, vars
<1> QED BY <1>1, <1>2, <1>3, <1>4

LEMMA CountsStart ==
    ASSUME TypeOK, CountsInv, NEW b \in Browsers, EnsureRunning(b) \/ Pass(b)
    PROVE  CountsInv'
<1>1. PICK ahead : PassAfter(b, ahead)
    BY DEF EnsureRunning, Pass
<1>2. start[b] \in {"none", "sleep", "again"} /\ ~Running(b)
    BY DEF EnsureRunning, Pass, CountsInv
<1> QED BY <1>1, <1>2, CountsPass DEF EnsureRunning, Pass

LEMMA CountsInvariant == Spec => []CountsInv
<1>1. TypeOK /\ HoldInv /\ CountsInv /\ [Next]_vars => CountsInv'
    <2> SUFFICES ASSUME TypeOK, HoldInv, CountsInv, [Next]_vars PROVE CountsInv'
        OBVIOUS
    <2>1. CASE Settle
        BY <2>1, CountsShed, CountsStart, CountsSystem DEF Settle
    <2>2. CASE Sample
        BY <2>2, CountsSample
    <2>3. CASE Cooled \/ UNCHANGED vars
        BY <2>3, CountsShed
    <2>4. CASE \E b \in Browsers : System(b)
        BY <2>4, CountsStart, CountsSystem DEF System
    <2>5. CASE \E b \in Browsers : Others(b)
        BY <2>5, CountsStart, CountsOthers DEF Others
    <2> QED BY <2>1, <2>2, <2>3, <2>4, <2>5 DEF Next
<1> QED BY <1>1, InitCounts, TypeCorrect, HoldInvariant, PTL DEF Spec

-------------------------------------------------------------------------------
(* Promises. *)

LEMMA MilderShed ==
    ASSUME TypeOK, CountsInv, ShedStop \/ ShedNext \/ ShedRefused \/ Cooled \/ UNCHANGED vars
    PROVE  \A c \in Browsers : Milder(c)
<1> USE DEF queueVars, hostVars, shedVars, userVars
<1>1. CASE ShedStop \/ ShedNext \/ Cooled \/ UNCHANGED vars
    BY <1>1, MilderSame DEF ShedStop, ShedNext, Cooled, vars
<1>2. CASE ShedRefused
    <2>1. CASE shed.by \in Browsers /\ EndStart(shed.by)
        BY <1>2, <2>1, MilderEnd DEF ShedRefused
    <2>2. CASE UNCHANGED launching
        BY <1>2, <2>2, MilderSame DEF ShedRefused
    <2> QED BY <1>2, <2>1, <2>2 DEF ShedRefused
<1> QED BY <1>1, <1>2

Admits ==
    \E b \in Browsers : \E ahead :
        /\ Admitted(b, ahead) /\ ~Running(b) /\ start[b] # "launch"
        /\ UNCHANGED <<hostVars, pinned>>

LEMMA StartSteps ==
    ASSUME TypeOK, CountsInv, NEW b \in Browsers, EnsureRunning(b) \/ Pass(b)
    PROVE  (\A c \in Browsers : Milder(c)) \/ Admits
<1>1. PICK ahead : PassAfter(b, ahead)
    BY DEF EnsureRunning, Pass
<1>2. /\ start[b] \in {"none", "sleep", "again"} /\ ~Running(b)
      /\ UNCHANGED <<hostVars, pinned>>
    BY DEF EnsureRunning, Pass, CountsInv, userVars
<1>3. CASE Admitted(b, ahead)
    BY <1>2, <1>3 DEF Admits
<1>4. CASE MakesRoom(b, ahead) \/ Queues(b, ahead)
    BY <1>2, <1>4, MilderSame DEF MakesRoom, Queues, hostVars
<1> QED BY <1>1, <1>3, <1>4 DEF PassAfter

\* A step admits a start, or promises no browser more than it had, unless one grows or has
\* outgrown its size.
LEMMA Steps ==
    ASSUME TypeOK, CountsInv, [Next]_vars, ~Growth, ~Outgrown
    PROVE  (\A c \in Browsers : Milder(c)) \/ Admits
<1>1. CASE Settle
    BY <1>1, MilderShed, StartSteps, MilderSystem DEF Settle
<1>2. CASE Sample
    BY <1>2, MilderSample
<1>3. CASE Cooled \/ UNCHANGED vars
    BY <1>3, MilderShed
<1>4. CASE \E b \in Browsers : System(b)
    BY <1>4, StartSteps, MilderSystem DEF System
<1>5. CASE \E b \in Browsers : Others(b)
    BY <1>5, StartSteps, MilderOthers DEF Others
<1> QED BY <1>1, <1>2, <1>3, <1>4, <1>5 DEF Next

LEMMA FitsKept ==
    ASSUME TypeOK, TypeOK', CountsInv, \A b \in Browsers : Milder(b), Fits
    PROVE  Fits'
<1> DEFINE p == [b \in Browsers |-> Promised(b)]
<1>1. Fits <=> SumOver(p, Browsers) <= Ceiling - Headroom
    BY DEF Fits, Total
<1>2. Fits' <=> SumOver(p', Browsers) <= Ceiling - Headroom
    BY DEF Fits, Total
<1>3. \A b \in Browsers : p[b] \in Nat /\ p'[b] \in Nat /\ p'[b] <= p[b]
    BY MilderIs, CountedHolds, CountedNext DEF Counted
<1>4. IsFiniteSet(Browsers)
    BY CapacityAssumption
<1> HIDE DEF p
<1>5. SumOver(p', Browsers) <= SumOver(p, Browsers)
    BY <1>3, <1>4, SumMonotone
<1>6. SumOver(p', Browsers) \in Nat /\ SumOver(p, Browsers) \in Nat
    BY <1>3, <1>4, SumType
<1> QED BY <1>1, <1>2, <1>5, <1>6, CapacityAssumption

LEMMA PinnedFitKept ==
    ASSUME TypeOK, TypeOK', CountsInv, \A b \in Browsers : Milder(b), PinnedFit,
           pinned' = pinned, \A b \in pinned : ~(Running(b) /\ ~Running(b)')
    PROVE  PinnedFit'
<1> DEFINE p == [b \in Browsers |-> PromisedOrPinned(b)]
<1>1. PinnedFit <=> SumOver(p, Browsers) <= Ceiling - Headroom
    BY DEF PinnedFit, Total
<1>2. PinnedFit' <=> SumOver(p', Browsers) <= Ceiling - Headroom
    BY DEF PinnedFit, Total
<1>3. \A b \in Browsers : p[b] \in Nat /\ p'[b] \in Nat /\ p'[b] <= p[b]
    BY MilderIs, CountedHolds, CountedNext DEF Counted
<1>4. IsFiniteSet(Browsers)
    BY CapacityAssumption
<1> HIDE DEF p
<1>5. SumOver(p', Browsers) <= SumOver(p, Browsers)
    BY <1>3, <1>4, SumMonotone
<1>6. SumOver(p', Browsers) \in Nat /\ SumOver(p, Browsers) \in Nat
    BY <1>3, <1>4, SumType
<1> QED BY <1>1, <1>2, <1>5, <1>6, CapacityAssumption

\* However starts, stops and samples overlap, what was promised to starts that fitted together
\* goes on fitting (the reservation in admit; launching and the launch window in holds).
THEOREM PromisesStand == Spec => PromisesKept
<1>1. TypeOK /\ TypeOK' /\ CountsInv /\ CountsInv' /\ [Next]_vars
        => [Fits /\ ~Fits' => Growth \/ Outgrown]_vars
    <2> SUFFICES ASSUME TypeOK, TypeOK', CountsInv, CountsInv', [Next]_vars, Fits,
                        ~Growth, ~Outgrown
                 PROVE  Fits'
        OBVIOUS
    <2>1. CASE \A c \in Browsers : Milder(c)
        BY <2>1, FitsKept
    <2>2. CASE Admits
        BY <2>2, AdmissionFits DEF Admits
    <2> QED BY <2>1, <2>2, Steps
<1> QED BY <1>1, TypeCorrect, CountsInvariant, PTL DEF Spec, PromisesKept

\* The room of stopped pinned browsers is not started into (pinnedRows in holds).
THEOREM PinnedRoomStands == Spec => PinnedRoomKept
<1>1. TypeOK /\ TypeOK' /\ CountsInv /\ CountsInv' /\ [Next]_vars
        => [PinnedFit /\ ~PinnedFit' =>
                \/ Growth \/ Outgrown
                \/ pinned' # pinned
                \/ \E p \in pinned : Running(p) /\ ~Running(p)']_vars
    <2> SUFFICES ASSUME TypeOK, TypeOK', CountsInv, CountsInv', [Next]_vars, PinnedFit,
                        ~Growth, ~Outgrown, pinned' = pinned,
                        ~\E p \in pinned : Running(p) /\ ~Running(p)'
                 PROVE  PinnedFit'
        OBVIOUS
    <2>1. CASE \A c \in Browsers : Milder(c)
        BY <2>1, PinnedFitKept
    <2>2. CASE Admits
        BY <2>2, AdmissionFits DEF Admits
    <2> QED BY <2>1, <2>2, Steps
<1> QED BY <1>1, TypeCorrect, CountsInvariant, PTL DEF Spec, PinnedRoomKept
===============================================================================
