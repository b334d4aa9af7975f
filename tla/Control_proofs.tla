--------------------------- MODULE Control_proofs ---------------------------
(***************************************************************************)
(* Proofs about Control, for any people, agents, sockets and times; about  *)
(* the audit rows of a guest (GuestBudget), for any budget; and about the  *)
(* pages a guest may go back to (GuestPlaces), for any tabs, histories and *)
(* commands under way.                                                     *)
(*                                                                         *)
(* The invariant of Control is IInv.  Fit is its part about the lease and  *)
(* what listens to it, stated of a state s in the middle of a handler, so  *)
(* that each operator of a handler has one lemma: it keeps Fit.  That      *)
(* Control implements Lease is shown the same way: Bears and Works say     *)
(* what a state in the middle of a handler amounts to there.  The          *)
(* invariant of GuestPlaces is PlacesInv: which attach what is asked       *)
(* belongs to, in what order it is answered, and what the answers and the  *)
(* snapshots hold.                                                         *)
(***************************************************************************)
EXTENDS Control, GuestBudget, GuestPlaces, FiniteSetTheorems, SequenceTheorems, TLAPS

Leases == {Free} \cup [holder : People \cup Agents, left : -1..Ttl]
Holds == [since : Never..MaxHold, ended : Never..Cooldown, wait : 0..Cooldown]
Desktops == {Idle} \cup [agent : Agents, stage : {"run", "release"}]
Stretches == [held : 0..MaxHold, away : 0..Cooldown]

States == [lease : Leases, hold : [Guests -> Holds], sockets : [Sockets -> {NoOne} \cup People],
           bound : SUBSET Sockets, desktop : Desktops]

\* The code's clock of a guest's hold is never behind the guest's real stretch t.
Measured(h, t, holds) ==
    IF holds THEN h.since # Never /\ h.ended = Never /\ t.held <= h.since
    ELSE t.away < Cooldown =>
            h.since # Never /\ h.ended # Never /\ h.ended <= t.away /\ t.held <= h.since

Fit(s, live, out, ts) ==
    /\ s \in States
    /\ \A v \in s.bound : s.sockets[v] = s.lease.holder /\ s.sockets[v] \in People
    /\ s.desktop.stage = "run" => s.lease.holder \in {NoOne, s.desktop.agent}
    /\ \A g \in out : s.lease.holder # g /\ \A v \in Sockets : s.sockets[v] # g
    /\ \A g \in live : Measured(s.hold[g], ts[g], s.lease.holder = g)

Revoked == {g \in Guests : link[g] = "revoked"}

IInv ==
    /\ TypeOK
    /\ Fit(Present, Live, Revoked, stretch)
    /\ session \cap Revoked = {}
    /\ \A g \in Guests : link[g] = "none" => stretch[g] = NotYet
    /\ \A g \in Guests : stretch[g].away = Cooldown => stretch[g].held = 0

-------------------------------------------------------------------------------
(* Each operator of a handler keeps Fit. *)

LEMMA Apart == NoOne \notin People /\ NoOne \notin Agents /\ NoOne \notin Guests
               /\ Guests \subseteq People /\ Admin \in People
BY NamesAssumption DEF People

LEMMA NotedFits ==
    ASSUME NEW hs \in [Guests -> Holds], NEW who
    PROVE  /\ Noted(hs, who) \in [Guests -> Holds]
           /\ \A g \in Guests : /\ Noted(hs, who)[g].since = hs[g].since
                                /\ g # who => Noted(hs, who)[g] = hs[g]
                                /\ g = who => Noted(hs, who)[g].ended # Never
                                /\ g = who /\ hs[g].ended = Never => Noted(hs, who)[g].ended = 0
BY ControlAssumption DEF Noted, Holds, Never

\* The listeners of a control event, whatever lease it announces
LEMMA AnnouncedFits ==
    ASSUME NEW s \in States
    PROVE  /\ Announced(s) \in States
           /\ Announced(s).lease = s.lease /\ Announced(s).hold = s.hold
           /\ Announced(s).bound = {}
           /\ Announced(s).desktop.stage # "run"
           /\ \A v \in Sockets : Announced(s).sockets[v] \in {s.sockets[v], NoOne}
BY DEF Announced, States, Desktops, Idle

LEMMA ReleasedFits ==
    ASSUME NEW live \in SUBSET Guests, NEW out \in SUBSET Guests,
           NEW ts \in [Guests -> Stretches], NEW s, Fit(s, live, out, ts)
    PROVE  Fit(Released(s), live, out, ts) /\ Released(s).lease = Free
<1>1. CASE s.lease = Free
    BY <1>1 DEF Released
<1>2. CASE s.lease # Free
    <2> DEFINE r == [s EXCEPT !.lease = Free, !.hold = Noted(@, s.lease.holder)]
    <2>1. Released(s) = Announced(r)
        BY <1>2 DEF Released
    <2>2. s \in States /\ s.hold \in [Guests -> Holds] /\ s.sockets \in [Sockets -> {NoOne} \cup People]
        BY DEF Fit, States
    <2>3. /\ r \in States /\ r.lease = Free /\ r.sockets = s.sockets
          /\ r.hold = Noted(s.hold, s.lease.holder)
        BY <2>2, NotedFits DEF States, Leases
    <2>4. /\ Announced(r) \in States /\ Announced(r).lease = Free
          /\ Announced(r).hold = Noted(s.hold, s.lease.holder) /\ Announced(r).bound = {}
          /\ Announced(r).desktop.stage # "run"
          /\ \A v \in Sockets : Announced(r).sockets[v] \in {s.sockets[v], NoOne}
        BY <2>3, AnnouncedFits
    <2>5. \A g \in out : Free.holder # g /\ \A v \in Sockets : Announced(r).sockets[v] # g
        BY <2>4, Apart DEF Fit, Free
    <2>6. ASSUME NEW g \in live
          PROVE  Measured(Announced(r).hold[g], ts[g], Announced(r).lease.holder = g)
        <3>1. Announced(r).lease.holder # g
            BY <2>4, Apart DEF Free
        <3>2. Measured(s.hold[g], ts[g], s.lease.holder = g)
            BY DEF Fit
        <3>3. /\ s.hold[g] \in Holds /\ ts[g] \in Stretches
              /\ Noted(s.hold, s.lease.holder)[g].since = s.hold[g].since
              /\ g # s.lease.holder => Noted(s.hold, s.lease.holder)[g] = s.hold[g]
              /\ g = s.lease.holder /\ s.hold[g].ended = Never
                    => Noted(s.hold, s.lease.holder)[g].ended = 0
            BY <2>2, NotedFits
        <3>4. CASE s.lease.holder = g
            <4>1. /\ s.hold[g].since # Never /\ ts[g].held <= s.hold[g].since
                  /\ Noted(s.hold, s.lease.holder)[g].ended = 0
                BY <3>2, <3>3, <3>4 DEF Measured
            <4> QED BY <2>4, <3>1, <3>3, <4>1 DEF Measured, Stretches, Never
        <3>5. CASE s.lease.holder # g
            BY <2>4, <3>1, <3>2, <3>3, <3>5 DEF Measured
        <3> QED BY <3>4, <3>5
    <2> QED BY <2>1, <2>4, <2>5, <2>6 DEF Fit
<1> QED BY <1>1, <1>2

LEMMA CooledFits ==
    ASSUME NEW kept \in SUBSET Guests, NEW live \in SUBSET Guests, NEW out \in SUBSET Guests,
           NEW ts \in [Guests -> Stretches], NEW s, Fit(s, kept, out, ts)
    PROVE  Fit(Cooled(s, live), kept, out, ts)
<1>1. CASE s.lease.holder \in live /\ Spent(s, s.lease.holder)
    <2> DEFINE w == s.lease.holder
               c == [s EXCEPT !.hold[w].wait = Cooldown]
    <2>1. Cooled(s, live) = c
        BY <1>1 DEF Cooled
    <2>2. s \in States /\ w \in Guests /\ s.hold[w] \in Holds
        BY <1>1 DEF Fit, States
    <2>3. [s.hold[w] EXCEPT !.wait = Cooldown] \in Holds
        BY <2>2, ControlAssumption DEF Holds
    <2>4. /\ c \in States /\ c.lease = s.lease /\ c.sockets = s.sockets /\ c.bound = s.bound
          /\ c.desktop = s.desktop
          /\ c.hold = [s.hold EXCEPT ![w].wait = Cooldown]
        BY <2>2, <2>3 DEF States
    <2>5. \A g \in Guests : c.hold[g].since = s.hold[g].since /\ c.hold[g].ended = s.hold[g].ended
        BY <2>2, <2>4 DEF States, Holds
    <2>6. \A g \in kept : Measured(c.hold[g], ts[g], c.lease.holder = g)
        BY <2>4, <2>5 DEF Fit, Measured
    <2> QED BY <2>1, <2>4, <2>6 DEF Fit
<1>2. CASE ~(s.lease.holder \in live /\ Spent(s, s.lease.holder))
    BY <1>2 DEF Cooled
<1> QED BY <1>1, <1>2

LEMMA ObservedFits ==
    ASSUME NEW kept \in SUBSET Guests, NEW live \in SUBSET Guests, NEW out \in SUBSET Guests,
           NEW ts \in [Guests -> Stretches], NEW s, Fit(s, kept, out, ts)
    PROVE  /\ Fit(Observed(s, live), kept, out, ts)
           /\ ~Lapsed(Observed(s, live), live)
           /\ Observed(s, live) = s \/ Observed(s, live).lease = Free
           /\ Observed(s, live).lease.holder \in {s.lease.holder, NoOne}
<1>1. CASE Lapsed(s, live)
    <2>1. Observed(s, live) = Released(Cooled(s, live))
        BY <1>1 DEF Observed
    <2>2. Fit(Cooled(s, live), kept, out, ts)
        BY CooledFits
    <2>3. Fit(Observed(s, live), kept, out, ts) /\ Observed(s, live).lease = Free
        BY <2>1, <2>2, ReleasedFits
    <2> QED BY <2>3 DEF Lapsed, Free
<1>2. CASE ~Lapsed(s, live)
    BY <1>2 DEF Observed
<1> QED BY <1>1, <1>2

\* No socket is bound and no desktop operation started on the way from s to t.
Narrows(t, s) ==
    /\ t.bound \subseteq s.bound
    /\ t.desktop.agent = s.desktop.agent
    /\ t.desktop.stage = "run" => t.desktop = s.desktop

\* What the one who acquires the lease finds.
Afresh(t) == t.bound = {} /\ t.desktop.stage # "run"

LEMMA ObservedNarrows ==
    ASSUME NEW kept \in SUBSET Guests, NEW live \in SUBSET Guests, NEW out \in SUBSET Guests,
           NEW ts \in [Guests -> Stretches], NEW s, Fit(s, kept, out, ts)
    PROVE  Narrows(Observed(s, live), s)
<1> DEFINE c == Cooled(s, live)
           r == [c EXCEPT !.lease = Free, !.hold = Noted(@, c.lease.holder)]
<1>0. Fit(c, kept, out, ts)
    BY CooledFits
<1>1. c \in States /\ s \in States
    BY <1>0 DEF Fit
<1>2. c.bound = s.bound /\ c.desktop = s.desktop
    BY <1>1 DEF Cooled, States
<1> HIDE DEF c
<1>3. Observed(s, live) \in {s, c, Announced(r)}
    BY DEF Observed, Released, c
<1>4. r.bound = c.bound /\ r.desktop = c.desktop
    BY <1>1 DEF States
<1>5. r \in States
    BY <1>1, NotedFits DEF States, Leases
<1> HIDE DEF r
<1>6. /\ Announced(r).bound = {} /\ Announced(r).desktop.agent = r.desktop.agent
      /\ Announced(r).desktop.stage # "run"
    BY <1>5 DEF Announced, States, Desktops, Idle
<1> QED BY <1>2, <1>3, <1>4, <1>6 DEF Narrows

\* A guest that has begun its hold, or anybody else, acquires a lease that is free to take.
LEMMA AcquiredFits ==
    ASSUME NEW live \in SUBSET Guests, NEW out \in SUBSET Guests,
           NEW ts \in [Guests -> Stretches], NEW s, NEW who \in (People \cup Agents) \ out,
           Fit(s, live \ {who}, out, ts), ~Lapsed(s, live),
           who \in Guests => Measured(s.hold[who], ts[who], TRUE)
    PROVE  Fit(Acquired(s, who, live), live, out, ts)
           /\ Acquired(s, who, live).lease.holder \in {who, NoOne}
           /\ Afresh(Acquired(s, who, live))
<1> DEFINE displaced == IF s.lease.holder = who THEN NoOne ELSE s.lease.holder
           r == [s EXCEPT !.lease = [holder |-> who, left |-> Ttl], !.hold = Noted(@, displaced)]
<1>1. Acquired(s, who, live) = Observed(Announced(r), live)
    BY DEF Acquired, Observed
<1>2. s \in States /\ s.hold \in [Guests -> Holds] /\ s.sockets \in [Sockets -> {NoOne} \cup People]
    BY DEF Fit, States
<1>3. [holder |-> who, left |-> Ttl] \in Leases
    BY ControlAssumption DEF Leases
<1>4. /\ r \in States /\ r.lease = [holder |-> who, left |-> Ttl] /\ r.sockets = s.sockets
      /\ r.hold = Noted(s.hold, displaced)
    BY <1>2, <1>3, NotedFits DEF States
<1> HIDE DEF r
<1> DEFINE a == Announced(r)
<1>5. /\ a \in States /\ a.lease.holder = who /\ a.hold = Noted(s.hold, displaced)
      /\ a.bound = {} /\ a.desktop.stage # "run"
      /\ \A v \in Sockets : a.sockets[v] \in {s.sockets[v], NoOne}
    BY <1>4, AnnouncedFits
<1>6. \A g \in out : who # g /\ \A v \in Sockets : a.sockets[v] # g
    BY <1>5, Apart DEF Fit
<1>7. ASSUME NEW g \in live
      PROVE  Measured(a.hold[g], ts[g], a.lease.holder = g)
    <2>1. /\ s.hold[g] \in Holds /\ ts[g] \in Stretches
          /\ Noted(s.hold, displaced)[g].since = s.hold[g].since
          /\ g # displaced => Noted(s.hold, displaced)[g] = s.hold[g]
          /\ g = displaced /\ s.hold[g].ended = Never => Noted(s.hold, displaced)[g].ended = 0
        BY <1>2, NotedFits
    <2>2. CASE g = who
        BY <1>5, <2>1, <2>2, Apart
    <2>3. CASE g # who
        <3>1. Measured(s.hold[g], ts[g], s.lease.holder = g)
            BY <2>3 DEF Fit
        <3>2. CASE displaced = g
            <4>1. s.lease.holder = g
                BY <3>2, Apart
            <4>2. /\ s.hold[g].since # Never /\ ts[g].held <= s.hold[g].since
                  /\ Noted(s.hold, displaced)[g].ended = 0
                BY <2>1, <3>1, <3>2, <4>1 DEF Measured
            <4> QED BY <1>5, <2>1, <2>3, <4>2 DEF Measured, Stretches, Never
        <3>3. CASE displaced # g
            <4>1. s.lease.holder # g
                BY <2>3, <3>3
            <4> QED BY <1>5, <2>1, <2>3, <3>1, <3>3, <4>1
        <3> QED BY <3>2, <3>3
    <2> QED BY <2>2, <2>3
<1>8. Fit(a, live, out, ts)
    BY <1>5, <1>6, <1>7 DEF Fit
<1> HIDE DEF a
<1>9. Narrows(Observed(a, live), a)
    BY <1>8, ObservedNarrows
<1>10. Fit(Observed(a, live), live, out, ts) /\ Observed(a, live).lease.holder \in {a.lease.holder, NoOne}
    BY <1>8, ObservedFits
<1>11. Acquired(s, who, live) = Observed(a, live)
    BY <1>1 DEF a
<1>12. Afresh(Observed(a, live))
    BY <1>5, <1>9 DEF Narrows, Afresh, a
<1> QED BY <1>5, <1>10, <1>11, <1>12 DEF a

-------------------------------------------------------------------------------
(* A step keeps the invariant if it keeps Fit of the old history. *)

LEMMA BecomeFits ==
    ASSUME NEW live, NEW out, NEW ts, NEW s, Fit(s, live, out, ts), Become(s)
    PROVE  Fit(Present', live, out, ts)
<1>1. /\ Present'.lease = s.lease /\ Present'.hold = s.hold /\ Present'.sockets = s.sockets
      /\ Present'.bound = s.bound /\ Present'.desktop = s.desktop
    BY DEF Become, Present
<1>2. Present' \in States
    <2>1. /\ s.lease \in Leases /\ s.hold \in [Guests -> Holds]
          /\ s.sockets \in [Sockets -> {NoOne} \cup People]
          /\ s.bound \in SUBSET Sockets /\ s.desktop \in Desktops
        BY DEF Fit, States
    <2> QED BY <2>1 DEF Become, Present, States
<1> QED BY <1>1, <1>2 DEF Fit

\* What the steps other than time leave to show
Kept ==
    /\ link' \in [Guests -> {"none", "fresh", "opened", "expired", "revoked"}]
    /\ session' \subseteq Guests
    /\ session' \cap Revoked' = {}
    /\ Fit(Present', Live', Revoked', stretch)

LEMMA TypesFit ==
    /\ Present \in States <=> lease \in Leases /\ hold \in [Guests -> Holds]
          /\ sockets \in [Sockets -> {NoOne} \cup People] /\ bound \subseteq Sockets
          /\ desktop \in Desktops
BY DEF Present, States

LEMMA TypeParts ==
    TypeOK <=> /\ Present \in States
               /\ link \in [Guests -> {"none", "fresh", "opened", "expired", "revoked"}]
               /\ session \subseteq Guests
               /\ stretch \in [Guests -> Stretches]
BY TypesFit DEF TypeOK, Leases, Holds, Desktops, Stretches

LEMMA Measuring ==
    ASSUME NEW h, NEW t, NEW u, NEW holds \in BOOLEAN, NEW on \in BOOLEAN, on => holds,
           t \in Stretches, Measured(h, t, holds), h \in Holds,
           u = NotYet \/ (u.held = t.held /\ u.away = IF on THEN 0 ELSE t.away)
    PROVE  Measured(h, u, holds)
BY ControlAssumption DEF Measured, NotYet, Stretches, Holds, Never

LEMMA StepKeeps ==
    ASSUME IInv, Kept, Stretch(FALSE)
    PROVE  IInv'
<1>1. stretch \in [Guests -> Stretches]
    BY TypeParts DEF IInv
<1> DEFINE in == [g \in Guests |-> IF Controls(g)' THEN TRUE ELSE FALSE]
<1>2. \A g \in Guests : in[g] <=> Controls(g)'
    OBVIOUS
<1>3. ASSUME NEW g \in Guests
      PROVE  \/ stretch'[g] = NotYet
             \/ /\ link'[g] # "none"
                /\ stretch'[g].held = stretch[g].held
                /\ stretch'[g].away = IF in[g] THEN 0 ELSE stretch[g].away
                /\ stretch'[g].away # Cooldown
    <2> HIDE DEF in
    <2> DEFINE away == IF in[g] THEN 0 ELSE stretch[g].away
    <2>1. stretch'[g] = IF link'[g] = "none" \/ away = Cooldown THEN NotYet
                        ELSE [held |-> stretch[g].held, away |-> away]
        BY <1>2 DEF Stretch
    <2> QED BY <2>1
<1>4. ASSUME NEW g \in Guests
      PROVE  stretch'[g] \in Stretches
    <2>1. stretch[g] \in Stretches
        BY <1>1
    <2>2. stretch'[g] = NotYet \/ \E x \in {0, stretch[g].away} :
              stretch'[g] = [held |-> stretch[g].held, away |-> x]
        BY <1>2 DEF Stretch
    <2> QED BY <2>1, <2>2, ControlAssumption DEF Stretches, NotYet
<1>5. stretch' \in [Guests -> Stretches]
    BY <1>4 DEF Stretch
<1>6. TypeOK'
    <2>1. Present' \in States
        BY DEF Kept, Fit
    <2>2. (Present \in States)' /\ (link \in [Guests -> {"none", "fresh", "opened", "expired", "revoked"}])'
          /\ (session \subseteq Guests)' /\ (stretch \in [Guests -> Stretches])'
        BY <2>1, <1>5 DEF Kept
    <2> QED BY <2>2, TypeParts, PTL
<1>7. Fit(Present, Live, Revoked, stretch)'
    <2>1. ASSUME NEW g \in Live'
          PROVE  Measured(Present'.hold[g], stretch'[g], Present'.lease.holder = g)
        <3>1. g \in Guests
            BY <2>1 DEF Live
        <3>2. Measured(Present'.hold[g], stretch[g], Present'.lease.holder = g)
            BY DEF Kept, Fit
        <3>3. in[g] => Present'.lease.holder = g
            BY <3>1 DEF Controls, Present
        <3>4. in[g] \in BOOLEAN
            BY <3>1
        <3>5. Present'.hold[g] \in Holds /\ stretch[g] \in Stretches
            BY <3>1, <1>1 DEF Kept, Fit, States
        <3> HIDE DEF in
        <3> QED BY <1>3, <3>1, <3>2, <3>3, <3>4, <3>5, Measuring
    <2> QED BY <2>1 DEF Kept, Fit
<1>8. (session \cap Revoked)' = {}
    BY DEF Kept
<1>9. \A g \in Guests : /\ link'[g] = "none" => stretch'[g] = NotYet
                        /\ stretch'[g].away = Cooldown => stretch'[g].held = 0
    BY <1>3 DEF NotYet
<1> QED BY <1>6, <1>7, <1>8, <1>9 DEF IInv

\* Time makes the history and the code's ages older together.
LEMMA TickKeeps ==
    ASSUME IInv, Passes
    PROVE  IInv'
<1> DEFINE in == [g \in Guests |-> IF Controls(g)' THEN TRUE ELSE FALSE]
<1>1. /\ Present \in States /\ stretch \in [Guests -> Stretches]
      /\ lease \in Leases /\ hold \in [Guests -> Holds]
    BY TypeParts, TypesFit DEF IInv
<1>2. ASSUME NEW g \in Guests
      PROVE  /\ hold'[g] \in Holds
             /\ hold'[g].since = Older(hold[g].since, MaxHold)
             /\ hold'[g].ended = Older(hold[g].ended, Cooldown)
    <2>1. hold[g] \in Holds
        BY <1>1
    <2>2. hold'[g] = [since |-> Older(hold[g].since, MaxHold),
                      ended |-> Older(hold[g].ended, Cooldown), wait |-> Sooner(hold[g].wait, 0)]
        BY DEF Passes, Tick
    <2>3. /\ Older(hold[g].since, MaxHold) \in Never..MaxHold
          /\ Older(hold[g].ended, Cooldown) \in Never..Cooldown
          /\ Sooner(hold[g].wait, 0) \in 0..Cooldown
        BY <2>1, ControlAssumption DEF Holds, Older, Sooner, Never
    <2> QED BY <2>2, <2>3 DEF Holds
<1>3. hold' \in [Guests -> Holds]
    BY <1>2 DEF Passes, Tick
<1>4. lease' \in Leases /\ lease'.holder = lease.holder
    <2>1. CASE lease = Free
        BY <2>1 DEF Passes, Tick, Leases
    <2>2. CASE lease # Free
        <3>1. lease \in [holder : People \cup Agents, left : -1..Ttl]
            BY <1>1, <2>2 DEF Leases
        <3>2. lease' = [lease EXCEPT !.left = Sooner(@, -1)]
            BY <2>2 DEF Passes, Tick
        <3>3. Sooner(lease.left, -1) \in -1..Ttl
            BY <3>1, ControlAssumption DEF Sooner
        <3> QED BY <3>1, <3>2, <3>3 DEF Leases
    <2> QED BY <2>1, <2>2
<1>5. /\ Present'.lease = lease' /\ Present'.hold = hold' /\ Present'.sockets = sockets
      /\ Present'.bound = bound /\ Present'.desktop = desktop
      /\ link' = link /\ session' = session
    BY DEF Present, Passes, Tick
<1>6. (Present \in States)'
    <2>1. /\ sockets' = sockets /\ bound' = bound /\ desktop' = desktop
        BY DEF Passes, Tick
    <2>2. /\ sockets \in [Sockets -> {NoOne} \cup People] /\ bound \subseteq Sockets
          /\ desktop \in Desktops
        BY <1>1, TypesFit
    <2> QED BY <1>3, <1>4, <2>1, <2>2 DEF Present, States
<1>7. ASSUME NEW g \in Guests
      PROVE  /\ stretch'[g] \in Stretches
             /\ \/ stretch'[g] = NotYet
                \/ /\ link'[g] # "none"
                   /\ stretch'[g].held = Older(stretch[g].held, MaxHold)
                   /\ stretch'[g].away = IF in[g] THEN 0 ELSE Older(stretch[g].away, Cooldown)
                   /\ stretch'[g].away # Cooldown
    <2>1. in[g] <=> Controls(g)'
        OBVIOUS
    <2> HIDE DEF in
    <2> DEFINE away == IF in[g] THEN 0 ELSE Older(stretch[g].away, Cooldown)
               held == Older(stretch[g].held, MaxHold)
    <2>2. stretch'[g] = IF link'[g] = "none" \/ away = Cooldown THEN NotYet
                        ELSE [held |-> held, away |-> away]
        BY <2>1 DEF Passes, Stretch
    <2>3. stretch[g] \in Stretches
        BY <1>1
    <2>4. held \in 0..MaxHold /\ away \in 0..Cooldown
        BY <2>3, ControlAssumption DEF Stretches, Older, Never
    <2>5. NotYet \in Stretches
        BY ControlAssumption DEF NotYet, Stretches
    <2> QED BY <2>2, <2>4, <2>5 DEF Stretches
<1>8. (stretch \in [Guests -> Stretches])'
    BY <1>7 DEF Passes, Stretch
<1>9. TypeOK'
    <2>1. (link \in [Guests -> {"none", "fresh", "opened", "expired", "revoked"}])'
          /\ (session \subseteq Guests)'
        BY <1>5, TypeParts DEF IInv
    <2> QED BY <1>6, <1>8, <2>1, TypeParts, PTL
<1>10. Live' = Live /\ Revoked' = Revoked
    BY <1>5 DEF Live, Revoked
<1>11. ASSUME NEW g \in Live
       PROVE  Measured(hold'[g], stretch'[g], lease'.holder = g)
    <2>1. g \in Guests
        BY DEF Live
    <2>2. Measured(hold[g], stretch[g], lease.holder = g)
        BY DEF IInv, Fit, Present
    <2>3. in[g] => lease.holder = g
        BY <2>1, <1>4 DEF Controls
    <2>4. in[g] \in BOOLEAN
        BY <2>1
    <2>5. hold[g] \in Holds /\ stretch[g] \in Stretches
        BY <2>1, <1>1
    <2> HIDE DEF in
    <2>6. CASE stretch'[g] = NotYet
        <3>1. lease.holder = g => hold[g].since # Never /\ hold[g].ended = Never
            BY <2>2 DEF Measured
        <3>2. lease.holder = g => /\ hold'[g].since # Never /\ hold'[g].ended = Never
                                  /\ 0 <= hold'[g].since
            BY <1>2, <2>1, <2>5, <3>1, ControlAssumption DEF Older, Holds, Never
        <3> QED BY <1>4, <2>5, <2>6, <3>2, ControlAssumption DEF Measured, NotYet
    <2>7. CASE stretch'[g] # NotYet
        <3>1. /\ stretch'[g].held = Older(stretch[g].held, MaxHold)
              /\ stretch'[g].away = IF in[g] THEN 0 ELSE Older(stretch[g].away, Cooldown)
              /\ stretch'[g].away # Cooldown
            BY <1>7, <2>1, <2>7
        <3>2. CASE lease.holder = g
            BY <1>2, <1>4, <2>1, <2>2, <2>5, <3>1, <3>2, ControlAssumption
               DEF Measured, Older, Holds, Stretches, Never
        <3>3. CASE lease.holder # g
            BY <1>2, <1>4, <2>1, <2>2, <2>3, <2>5, <3>1, <3>3, ControlAssumption
               DEF Measured, Older, Holds, Stretches, Never
        <3> QED BY <3>2, <3>3
    <2> QED BY <2>6, <2>7
<1>12. Fit(Present, Live, Revoked, stretch)'
    BY <1>4, <1>5, <1>6, <1>10, <1>11 DEF IInv, Fit, Present
<1>13. (session \cap Revoked)' = {}
    BY <1>5, <1>10 DEF IInv
<1>14. \A g \in Guests : /\ link'[g] = "none" => stretch'[g] = NotYet
                         /\ stretch'[g].away = Cooldown => stretch'[g].held = 0
    BY <1>7 DEF NotYet
<1> QED BY <1>9, <1>12, <1>13, <1>14 DEF IInv

-------------------------------------------------------------------------------
(* The steps that leave the links alone. *)

LEMMA Facts ==
    ASSUME IInv
    PROVE  /\ Live \in SUBSET Guests /\ Revoked \in SUBSET Guests /\ Live \cap Revoked = {}
           /\ stretch \in [Guests -> Stretches]
           /\ \A g \in Guests : stretch[g].away = Cooldown => stretch[g].held = 0
           /\ Present \in States
           /\ Fit(Present, Live, Revoked, stretch)
BY TypeParts DEF IInv, Live, Revoked

Now == Observed(Present, Live)

LEMMA SeenFits ==
    ASSUME IInv
    PROVE  /\ Fit(Now, Live, Revoked, stretch)
           /\ ~Lapsed(Now, Live)
           /\ Now \in States
<1>1. Fit(Now, Live, Revoked, stretch) /\ ~Lapsed(Now, Live)
    BY Facts, ObservedFits DEF Now
<1> QED BY <1>1 DEF Fit

LEMMA SeenParts ==
    ASSUME IInv
    PROVE  Now.bound \subseteq bound /\ Now.desktop.agent = desktop.agent
<1>1. Narrows(Now, Present)
    BY Facts, ObservedNarrows DEF Now
<1> QED BY <1>1 DEF Narrows, Present

LEMMA SameLinks ==
    ASSUME IInv, NEW s, Fit(s, Live, Revoked, stretch), Become(s), UNCHANGED <<link, session>>
    PROVE  Kept
<1>1. Live' = Live /\ Revoked' = Revoked
    BY DEF Live, Revoked
<1>2. Fit(Present', Live, Revoked, stretch)
    BY BecomeFits
<1> QED BY <1>1, <1>2, TypeParts DEF IInv, Kept

\* The administrator or an agent takes the lease.
LEMMA TakenFits ==
    ASSUME IInv, NEW who \in {Admin} \cup Agents
    PROVE  Fit(Acquired(Now, who, Live), Live, Revoked, stretch)
           /\ Acquired(Now, who, Live).lease.holder \in {who, NoOne}
           /\ Afresh(Acquired(Now, who, Live))
<1>1. who \in (People \cup Agents) \ Revoked /\ who \notin Guests
    BY Facts, ControlAssumption DEF People
<1>2. Live \ {who} = Live
    BY <1>1, Facts
<1>3. Fit(Now, Live \ {who}, Revoked, stretch) /\ ~Lapsed(Now, Live)
    BY <1>2, SeenFits
<1>4. /\ Live \in SUBSET Guests /\ Revoked \in SUBSET Guests
      /\ stretch \in [Guests -> Stretches]
    BY Facts
<1> HIDE DEF Now
<1> QED BY <1>1, <1>3, <1>4, AcquiredFits

\* A guest begins a hold, or goes on with one, and takes the lease.
LEMMA GuestTakenFits ==
    ASSUME IInv, NEW g \in Live
    PROVE  Fit(Acquired(Begun(Now, g), g, Live), Live, Revoked, stretch)
           /\ Acquired(Begun(Now, g), g, Live).lease.holder \in {g, NoOne}
           /\ Afresh(Acquired(Begun(Now, g), g, Live))
<1> DEFINE s == Now
           h == s.hold[g]
           continuing == h.since # Never /\ (s.lease.holder = g \/ (h.ended # Never /\ h.ended < Cooldown))
           since == IF continuing THEN h.since ELSE 0
           b == Begun(s, g)
<1>1. g \in Guests /\ g \in (People \cup Agents) \ Revoked
    BY Facts DEF People
<1>2. /\ s \in States /\ s.hold \in [Guests -> Holds] /\ h \in Holds
      /\ Fit(s, Live, Revoked, stretch) /\ ~Lapsed(s, Live)
    BY <1>1, SeenFits DEF States
<1>3. Measured(h, stretch[g], s.lease.holder = g)
    BY <1>2 DEF Fit
<1>4. stretch[g] \in Stretches /\ (stretch[g].away = Cooldown => stretch[g].held = 0)
    BY <1>1, Facts
<1> HIDE DEF s
<1>5. since \in 0..MaxHold /\ stretch[g].held <= since
    BY <1>2, <1>3, <1>4, ControlAssumption DEF Measured, Holds, Stretches, Never
<1>6. /\ b = [s EXCEPT !.hold[g] = [since |-> since, ended |-> Never, wait |-> h.wait]]
    BY DEF Begun
<1> HIDE DEF since
<1>7. [since |-> since, ended |-> Never, wait |-> h.wait] \in Holds
    BY <1>2, <1>5, ControlAssumption DEF Holds, Never
<1>8. /\ b \in States /\ b.lease = s.lease /\ b.sockets = s.sockets /\ b.bound = s.bound
      /\ b.desktop = s.desktop
      /\ b.hold[g] = [since |-> since, ended |-> Never, wait |-> h.wait]
      /\ \A f \in Guests \ {g} : b.hold[f] = s.hold[f]
    BY <1>1, <1>2, <1>6, <1>7 DEF States
<1>9. Fit(b, Live \ {g}, Revoked, stretch)
    BY <1>2, <1>8, Facts DEF Fit
<1>10. Measured(b.hold[g], stretch[g], TRUE)
    BY <1>5, <1>8, ControlAssumption DEF Measured, Never
<1>11. ~Lapsed(b, Live)
    <2>1. CASE s.lease.holder = g
        <3>1. continuing
            BY <1>3, <2>1 DEF Measured
        <3>2. since = h.since
            BY <3>1 DEF since
        <3>3. Spent(b, g) <=> Spent(s, g)
            BY <1>8, <3>2 DEF Spent
        <3> QED BY <1>2, <1>8, <2>1, <3>3 DEF Lapsed, GuestOver
    <2>2. CASE s.lease.holder # g
        <3>1. s.lease.holder \in Guests => b.hold[s.lease.holder] = s.hold[s.lease.holder]
            BY <1>8, <2>2
        <3> QED BY <1>2, <1>8, <2>2, <3>1 DEF Lapsed, GuestOver, Spent
    <2> QED BY <2>1, <2>2
<1> HIDE DEF b
<1>12. Fit(Acquired(b, g, Live), Live, Revoked, stretch)
       /\ Acquired(b, g, Live).lease.holder \in {g, NoOne}
       /\ Afresh(Acquired(b, g, Live))
    BY <1>1, <1>9, <1>10, <1>11, Facts, AcquiredFits
<1> QED BY <1>12 DEF b, s

LEMMA RenewedFits ==
    ASSUME NEW live, NEW out, NEW ts, NEW s, Fit(s, live, out, ts), NEW by \in People
    PROVE  /\ Fit(Renewed(s, by), live, out, ts)
           /\ Renewed(s, by).lease.holder = s.lease.holder
           /\ Renewed(s, by).sockets = s.sockets /\ Renewed(s, by).bound = s.bound
<1>1. CASE s.lease.holder = by
    <2> DEFINE r == [s EXCEPT !.lease.left = Ttl]
    <2>1. s \in States /\ s.lease \in Leases
        BY DEF Fit, States
    <2>2. s.lease \in [holder : People \cup Agents, left : -1..Ttl]
        BY <1>1, <2>1, Apart DEF Leases, Free
    <2>3. [s.lease EXCEPT !.left = Ttl] \in Leases /\ [s.lease EXCEPT !.left = Ttl].holder = s.lease.holder
        BY <2>2, ControlAssumption DEF Leases
    <2>4. /\ r \in States /\ r.lease.holder = s.lease.holder /\ r.hold = s.hold
          /\ r.sockets = s.sockets /\ r.bound = s.bound /\ r.desktop = s.desktop
        BY <2>1, <2>3 DEF States
    <2>5. Renewed(s, by) = r
        BY <1>1 DEF Renewed
    <2> QED BY <2>4, <2>5 DEF Fit
<1>2. CASE s.lease.holder # by
    BY <1>2 DEF Renewed
<1> QED BY <1>1, <1>2

LEMMA PeopleKeep ==
    ASSUME IInv,
           \/ Look \/ (\E force \in BOOLEAN : AdminTakes(force)) \/ AdminReturns \/ AdminRenews
           \/ \E g \in Guests : GuestTakes(g) \/ GuestReturns(g) \/ GuestRenews(g)
           \/ \E a \in Agents : AgentTakes(a)
    PROVE  Kept
<1> USE Facts, SeenFits
<1>1. CASE Look
    BY <1>1, SameLinks DEF Look, Now
<1>2. ASSUME NEW force \in BOOLEAN, AdminTakes(force) PROVE Kept
    <2>1. PICK s \in {Acquired(Now, Admin, Live), Now} : Become(s)
        BY <1>2 DEF AdminTakes, Now
    <2>2. Fit(Acquired(Now, Admin, Live), Live, Revoked, stretch)
        BY TakenFits
    <2> QED BY <1>2, <2>1, <2>2, SameLinks DEF AdminTakes
<1>3. CASE AdminReturns
    BY <1>3, ReleasedFits, SameLinks DEF AdminReturns
<1>4. CASE AdminRenews
    BY <1>4, RenewedFits, Apart, SameLinks DEF AdminRenews, Now
<1>5. ASSUME NEW g \in Guests, GuestTakes(g) PROVE Kept
    <2>1. PICK s \in {Acquired(Begun(Now, g), g, Live), Now} : Become(s)
        BY <1>5 DEF GuestTakes, Now
    <2>2. g \in Live
        BY <1>5 DEF GuestTakes, SignedIn
    <2> QED BY <1>5, <2>1, <2>2, GuestTakenFits, SameLinks DEF GuestTakes
<1>6. ASSUME NEW g \in Guests, GuestReturns(g) PROVE Kept
    <2>1. PICK s \in {Released(Now), Now} : Become(s)
        BY <1>6 DEF GuestReturns, Now
    <2>2. Fit(Released(Now), Live, Revoked, stretch)
        BY ReleasedFits
    <2> QED BY <1>6, <2>1, <2>2, SameLinks DEF GuestReturns
<1>7. ASSUME NEW g \in Guests, GuestRenews(g) PROVE Kept
    <2>1. Fit(Renewed(Now, g), Live, Revoked, stretch)
        BY RenewedFits, Apart
    <2> QED BY <1>7, <2>1, SameLinks DEF GuestRenews, Now
<1>8. ASSUME NEW a \in Agents, AgentTakes(a) PROVE Kept
    <2>1. PICK s \in {Acquired(Now, a, Live), Now} : Become(s)
        BY <1>8 DEF AgentTakes, Now
    <2>2. Fit(Acquired(Now, a, Live), Live, Revoked, stretch)
        BY TakenFits
    <2> QED BY <1>8, <2>1, <2>2, SameLinks DEF AgentTakes
<1> QED BY <1>1, <1>2, <1>3, <1>4, <1>5, <1>6, <1>7, <1>8

LEMMA DesktopKeeps ==
    ASSUME IInv, (\E a \in Agents : DesktopStarts(a)) \/ DesktopExits \/ DesktopReleased
    PROVE  Kept
<1> USE Facts, SeenFits
<1>1. ASSUME NEW a \in Agents, DesktopStarts(a) PROVE Kept
    <2> DEFINE r == [Now EXCEPT !.desktop = [agent |-> a, stage |-> "run"]]
    <2>1. CASE Now.lease.holder \in {NoOne, a}
        <3>1. /\ r \in States /\ r.lease = Now.lease /\ r.hold = Now.hold
              /\ r.sockets = Now.sockets /\ r.bound = Now.bound
              /\ r.desktop = [agent |-> a, stage |-> "run"]
            BY DEF States, Desktops
        <3>2. Fit(r, Live, Revoked, stretch)
            BY <2>1, <3>1 DEF Fit
        <3>3. Become(r)
            BY <1>1, <2>1 DEF DesktopStarts, Now
        <3> QED BY <1>1, <3>2, <3>3, SameLinks DEF DesktopStarts
    <2>2. CASE Now.lease.holder \notin {NoOne, a}
        BY <1>1, <2>2, SameLinks DEF DesktopStarts, Now
    <2> QED BY <2>1, <2>2
<1>2. CASE DesktopExits
    <2> DEFINE r == [Now EXCEPT !.desktop.stage = "release"]
    <2>1. desktop \in Desktops /\ desktop.agent \in Agents
        BY <1>2, TypesFit DEF DesktopExits, Desktops, Idle
    <2>2. Now.desktop \in Desktops /\ Now.desktop.agent \in Agents
        BY <2>1, SeenParts DEF States
    <2>3. [Now.desktop EXCEPT !.stage = "release"] \in Desktops
          /\ [Now.desktop EXCEPT !.stage = "release"].stage # "run"
        BY <2>2, Apart DEF Desktops, Idle
    <2>4. /\ r \in States /\ r.lease = Now.lease /\ r.hold = Now.hold
          /\ r.sockets = Now.sockets /\ r.bound = Now.bound /\ r.desktop.stage # "run"
        BY <2>3 DEF States
    <2>5. Fit(r, Live, Revoked, stretch)
        BY <2>4 DEF Fit
    <2> QED BY <1>2, <2>5, SameLinks DEF DesktopExits, Now
<1>3. CASE DesktopReleased
    <2> DEFINE r == [Present EXCEPT !.desktop = Idle]
    <2>1. /\ r \in States /\ r.lease = lease /\ r.hold = hold /\ r.sockets = sockets
          /\ r.bound = bound /\ r.desktop = Idle
        BY DEF States, Desktops, Present
    <2>2. Fit(r, Live, Revoked, stretch)
        BY <2>1 DEF Fit, Present, Idle
    <2>3. Become(r)
        BY <1>3, <2>1 DEF DesktopReleased, Become
    <2> QED BY <1>3, <2>2, <2>3, SameLinks DEF DesktopReleased
<1> QED BY <1>1, <1>2, <1>3

\* A socket that opens is of one who is signed in; one that goes takes its binding with it.
LEMMA OpenFits ==
    ASSUME IInv, NEW s, Fit(s, Live, Revoked, stretch), NEW v \in Sockets, v \notin s.bound,
           NEW who \in People \ Revoked
    PROVE  Fit([s EXCEPT !.sockets[v] = who], Live, Revoked, stretch)
<1> DEFINE r == [s EXCEPT !.sockets[v] = who]
<1>1. /\ r \in States /\ r.lease = s.lease /\ r.hold = s.hold /\ r.bound = s.bound
      /\ r.desktop = s.desktop /\ r.sockets = [s.sockets EXCEPT ![v] = who]
      /\ s.sockets \in [Sockets -> {NoOne} \cup People]
    BY DEF Fit, States
<1>2. \A w \in Sockets : r.sockets[w] = IF w = v THEN who ELSE s.sockets[w]
    BY <1>1
<1>3. s.bound \subseteq Sockets
    BY DEF Fit, States
<1> QED BY <1>1, <1>2, <1>3, Facts DEF Fit

LEMMA CloseFits ==
    ASSUME IInv, NEW s, Fit(s, Live, Revoked, stretch), NEW v \in Sockets
    PROVE  Fit([s EXCEPT !.sockets[v] = NoOne, !.bound = @ \ {v}], Live, Revoked, stretch)
<1> DEFINE r == [s EXCEPT !.sockets[v] = NoOne, !.bound = @ \ {v}]
<1>1. /\ r \in States /\ r.lease = s.lease /\ r.hold = s.hold /\ r.bound = s.bound \ {v}
      /\ r.desktop = s.desktop /\ r.sockets = [s.sockets EXCEPT ![v] = NoOne]
      /\ s.sockets \in [Sockets -> {NoOne} \cup People] /\ s.bound \subseteq Sockets
    BY DEF Fit, States
<1>2. \A w \in Sockets : r.sockets[w] = IF w = v THEN NoOne ELSE s.sockets[w]
    BY <1>1
<1> QED BY <1>1, <1>2, Facts, Apart DEF Fit

LEMMA SocketsKeep ==
    ASSUME IInv, NEW v \in Sockets,
           \/ \E who \in People : Opens(v, who)
           \/ Binds(v) \/ Checks(v) \/ \E leaving \in BOOLEAN : Closes(v, leaving)
    PROVE  Kept
<1> USE Facts, SeenFits
<1>1. ASSUME NEW who \in People, Opens(v, who) PROVE Kept
    <2> DEFINE seen == IF who = Admin THEN Present ELSE Now
    <2>1. Fit(seen, Live, Revoked, stretch)
        OBVIOUS
    <2>2. PICK s \in {[seen EXCEPT !.sockets[v] = who], seen} : Become(s)
        BY <1>1 DEF Opens, Now
    <2>3. who \in People \ Revoked
        BY <1>1, ControlAssumption DEF Opens, SignedIn
    <2>4. v \notin seen.bound
        <3>1. v \notin bound
            BY <1>1, Apart DEF Opens, Fit, Present
        <3>2. Now.bound \subseteq bound
            BY SeenParts
        <3> QED BY <3>1, <3>2 DEF Present
    <2> HIDE DEF seen
    <2>5. Fit([seen EXCEPT !.sockets[v] = who], Live, Revoked, stretch)
        BY <2>1, <2>3, <2>4, OpenFits
    <2> QED BY <1>1, <2>1, <2>2, <2>5, SameLinks DEF Opens
<1>2. CASE Binds(v)
    <2>1. CASE Now.lease.holder = sockets[v]
        <3> DEFINE n == Renewed(Now, sockets[v])
                   r == [n EXCEPT !.bound = @ \cup {v}]
        <3>1. sockets[v] \in People
            BY <1>2, TypesFit DEF Binds
        <3>2. /\ Fit(n, Live, Revoked, stretch) /\ n.lease.holder = sockets[v]
              /\ n.sockets = Now.sockets
            BY <2>1, <3>1, RenewedFits
        <3> HIDE DEF n
        <3>3. Now.sockets[v] = sockets[v]
            <4>1. Now = Present
                BY <2>1, <3>1, ObservedFits, Apart DEF Now, Free
            <4> QED BY <4>1 DEF Present
        <3>4. /\ r \in States /\ r.lease = n.lease /\ r.hold = n.hold /\ r.sockets = n.sockets
              /\ r.desktop = n.desktop /\ r.bound = n.bound \cup {v}
            BY <3>2 DEF Fit, States
        <3>5. Fit(r, Live, Revoked, stretch)
            BY <3>1, <3>2, <3>3, <3>4 DEF Fit
        <3>6. Become(r)
            BY <1>2, <2>1 DEF Binds, Now, n
        <3> QED BY <1>2, <3>5, <3>6, SameLinks DEF Binds
    <2>2. CASE Now.lease.holder # sockets[v]
        BY <1>2, <2>2, SameLinks DEF Binds, Now
    <2> QED BY <2>1, <2>2
<1>3. CASE Checks(v)
    <2>1. PICK s \in {Now, Present} :
              \/ Become(s)
              \/ Become([s EXCEPT !.sockets[v] = NoOne, !.bound = @ \ {v}])
        BY <1>3 DEF Checks, Now
    <2>2. Fit(s, Live, Revoked, stretch)
        BY <2>1
    <2>3. Fit([s EXCEPT !.sockets[v] = NoOne, !.bound = @ \ {v}], Live, Revoked, stretch)
        BY <2>2, CloseFits
    <2> QED BY <1>3, <2>1, <2>2, <2>3, SameLinks DEF Checks
<1>4. ASSUME NEW leaving \in BOOLEAN, Closes(v, leaving) PROVE Kept
    <2> DEFINE left == [Present EXCEPT !.sockets[v] = NoOne, !.bound = @ \ {v}]
    <2>1. Fit(left, Live, Revoked, stretch)
        BY CloseFits
    <2> HIDE DEF left
    <2>2. Fit(Observed(left, Live), Live, Revoked, stretch)
        BY <2>1, ObservedFits
    <2>3. Fit(Released(Observed(left, Live)), Live, Revoked, stretch)
        BY <2>2, ReleasedFits
    <2>4. PICK s \in {left, Observed(left, Live), Released(Observed(left, Live))} : Become(s)
        BY <1>4 DEF Closes, left
    <2> QED BY <1>4, <2>1, <2>2, <2>3, <2>4, SameLinks DEF Closes
<1> QED BY <1>1, <1>2, <1>3, <1>4

-------------------------------------------------------------------------------
(* The steps that change links, and the end of the browser or the process. *)

LinkStates == {"none", "fresh", "opened", "expired", "revoked"}

LEMMA FewerFits ==
    ASSUME NEW live, NEW out, NEW ts, NEW s, Fit(s, live, out, ts),
           NEW l \in SUBSET live, NEW o \in SUBSET out
    PROVE  Fit(s, l, o, ts)
BY DEF Fit

LEMMA CreateKeeps ==
    ASSUME IInv, NEW g \in Guests, CreateGuest(g)
    PROVE  Kept
<1>1. /\ link \in [Guests -> LinkStates] /\ session \subseteq Guests /\ session \cap Revoked = {}
      /\ hold \in [Guests -> Holds]
    BY TypeParts, TypesFit DEF IInv, LinkStates
<1>2. /\ link[g] = "none" /\ lease.holder # g /\ link' = [link EXCEPT ![g] = "fresh"]
      /\ hold' = [hold EXCEPT ![g] = Rested] /\ session' = session
    BY DEF CreateGuest
<1>3. Live' = Live \cup {g} /\ Revoked' = Revoked
    BY <1>1, <1>2 DEF Live, Revoked
<1>4. hold' \in [Guests -> Holds] /\ hold'[g] = Rested /\ \A f \in Guests \ {g} : hold'[f] = hold[f]
    BY <1>1, <1>2, ControlAssumption DEF Holds, Rested, Never
<1>5. /\ Present'.lease = lease /\ Present'.hold = hold' /\ Present'.sockets = sockets
      /\ Present'.bound = bound /\ Present'.desktop = desktop
      /\ Present' = [lease |-> lease, hold |-> hold', sockets |-> sockets, bound |-> bound,
                     desktop |-> desktop]
    BY DEF CreateGuest, Present
<1>6. Present' \in States
    BY <1>4, <1>5, Facts, TypesFit DEF States
<1>7. Measured(Rested, stretch[g], FALSE)
    BY <1>2, ControlAssumption DEF IInv, Measured, NotYet
<1>8. \A f \in Live' : Measured(Present'.hold[f], stretch[f], Present'.lease.holder = f)
    <2> SUFFICES ASSUME NEW f \in Live'
                 PROVE  Measured(hold'[f], stretch[f], lease.holder = f)
        BY <1>5
    <2>1. CASE f = g
        BY <1>2, <1>4, <1>7, <2>1
    <2>2. CASE f # g
        <3>1. f \in Live /\ f \in Guests
            BY <1>3, <2>2, Facts
        <3> QED BY <1>4, <2>2, <3>1, Facts DEF Fit, Present
    <2> QED BY <2>1, <2>2
<1>9. Fit(Present', Live', Revoked', stretch)
    BY <1>3, <1>5, <1>6, <1>8, Facts DEF Fit, Present
<1>10. link' \in [Guests -> LinkStates]
    BY <1>1, <1>2 DEF LinkStates
<1> QED BY <1>1, <1>2, <1>3, <1>9, <1>10 DEF Kept, LinkStates

LEMMA EndKeeps ==
    ASSUME IInv, NEW g \in Guests, EndGuest(g)
    PROVE  Kept
<1> DEFINE live == Live \ {g}
           seen == Observed(Present, live)
           freed == IF seen.lease.holder = g THEN Released(seen) ELSE seen
           r == [freed EXCEPT !.sockets = [v \in Sockets |-> IF @[v] = g THEN NoOne ELSE @[v]]]
<1>1. /\ link \in [Guests -> LinkStates] /\ session \subseteq Guests /\ session \cap Revoked = {}
    BY TypeParts DEF IInv, LinkStates
<1>2. link' = [link EXCEPT ![g] = "revoked"] /\ session' = session \ {g} /\ Become(r)
    BY DEF EndGuest
<1>3. Live' = live /\ Revoked' = Revoked \cup {g} /\ link' \in [Guests -> LinkStates]
    BY <1>1, <1>2 DEF Live, Revoked, LinkStates
<1>4. live \in SUBSET Guests /\ Fit(Present, live, Revoked, stretch)
    BY Facts, FewerFits
<1> HIDE DEF live
<1>5. Fit(seen, live, Revoked, stretch)
    BY <1>4, Facts, ObservedFits
<1> HIDE DEF seen
<1>6. Fit(freed, live, Revoked, stretch) /\ freed.lease.holder # g
    <2>1. Fit(Released(seen), live, Revoked, stretch) /\ Released(seen).lease = Free
        BY <1>4, <1>5, Facts, ReleasedFits
    <2> QED BY <1>5, <2>1, Apart DEF Free
<1> HIDE DEF freed
<1>7. /\ freed \in States /\ freed.sockets \in [Sockets -> {NoOne} \cup People]
      /\ freed.bound \subseteq Sockets
    BY <1>6 DEF Fit, States
<1>8. /\ r \in States /\ r.lease = freed.lease /\ r.hold = freed.hold /\ r.bound = freed.bound
      /\ r.desktop = freed.desktop
      /\ r.sockets = [v \in Sockets |-> IF freed.sockets[v] = g THEN NoOne ELSE freed.sockets[v]]
    BY <1>7 DEF States
<1> HIDE DEF r
<1>9. \A v \in Sockets : r.sockets[v] = IF freed.sockets[v] = g THEN NoOne ELSE freed.sockets[v]
    BY <1>8
<1>10. \A v \in r.bound : r.sockets[v] = r.lease.holder /\ r.sockets[v] \in People
    BY <1>6, <1>7, <1>8, <1>9 DEF Fit
<1>11. \A f \in Revoked \cup {g} : r.lease.holder # f /\ \A v \in Sockets : r.sockets[v] # f
    BY <1>6, <1>7, <1>8, <1>9, Apart, Facts DEF Fit
<1>12. Fit(r, live, Revoked \cup {g}, stretch)
    BY <1>6, <1>8, <1>10, <1>11 DEF Fit
<1>13. Fit(Present', Live', Revoked', stretch)
    BY <1>2, <1>3, <1>12, BecomeFits
<1> QED BY <1>1, <1>2, <1>3, <1>13 DEF Kept, LinkStates

LEMMA LinksKeep ==
    ASSUME IInv, NEW g \in Guests, Exchange(g) \/ Expire(g) \/ SweepSession(g) \/ SweepLink(g)
    PROVE  Kept
<1>1. /\ link \in [Guests -> LinkStates] /\ session \subseteq Guests /\ session \cap Revoked = {}
    BY TypeParts DEF IInv, LinkStates
<1>2. CASE Exchange(g)
    <2>1. /\ link[g] = "fresh" /\ link' = [link EXCEPT ![g] = "opened"]
          /\ session' = session \cup {g} /\ Become(Now)
        BY <1>2 DEF Exchange, Now
    <2>2. Live' = Live /\ Revoked' = Revoked /\ link' \in [Guests -> LinkStates] /\ g \notin Revoked
        BY <1>1, <2>1 DEF Live, Revoked, LinkStates
    <2>3. Fit(Present', Live', Revoked', stretch)
        BY <2>1, <2>2, SeenFits, BecomeFits
    <2> QED BY <1>1, <2>1, <2>2, <2>3 DEF Kept, LinkStates
<1>3. CASE Expire(g) \/ SweepSession(g) \/ SweepLink(g)
    <2>1. Present' = Present
        BY <1>3 DEF Present, Expire, SweepSession, SweepLink
    <2>2. PICK to \in {"expired", "none"} :
              link' = link \/ (to = "expired" /\ g \in Live /\ link' = [link EXCEPT ![g] = to])
                  \/ (to = "none" /\ g \notin Live /\ link' = [link EXCEPT ![g] = to])
        BY <1>3 DEF Expire, SweepSession, SweepLink, Live
    <2>3. Live' \subseteq Live /\ Revoked' \subseteq Revoked /\ link' \in [Guests -> LinkStates]
        BY <1>1, <2>2 DEF Live, Revoked, LinkStates
    <2>4. session' \subseteq session
        BY <1>3 DEF Expire, SweepSession, SweepLink
    <2>5. Fit(Present', Live', Revoked', stretch)
        BY <2>1, <2>3, Facts, FewerFits
    <2> QED BY <1>1, <2>3, <2>4, <2>5 DEF Kept, LinkStates
<1> QED BY <1>2, <1>3

LEMMA EndsKeep ==
    ASSUME IInv, Destroyed \/ Restarts
    PROVE  Kept
<1> DEFINE none == [v \in Sockets |-> NoOne]
<1>1. none \in [Sockets -> {NoOne} \cup People] /\ \A v \in Sockets : none[v] = NoOne
    OBVIOUS
<1>2. Idle \in Desktops /\ Free \in Leases /\ {} \subseteq Sockets
    BY DEF Desktops, Leases
<1>3. CASE Destroyed
    <2> DEFINE s == [lease |-> Free, hold |-> [g \in Guests |-> Rested], sockets |-> none,
                     bound |-> {}, desktop |-> Idle]
    <2>1. Live' = {} /\ Revoked' = {}
        BY <1>3 DEF Destroyed, Live, Revoked
    <2>2. Rested \in Holds
        BY ControlAssumption DEF Rested, Holds, Never
    <2>3. s \in States
        BY <1>1, <1>2, <2>2 DEF States
    <2>4. Fit(s, {}, {}, stretch)
        BY <2>3 DEF Fit, Idle
    <2>5. Present' = s
        BY <1>3 DEF Destroyed, Present
    <2> QED BY <1>3, <2>1, <2>4, <2>5 DEF Destroyed, Kept
<1>4. CASE Restarts
    <2> DEFINE s == [lease |-> lease, hold |-> hold, sockets |-> none, bound |-> {}, desktop |-> Idle]
    <2>1. s \in States
        BY <1>1, <1>2, Facts, TypesFit DEF States
    <2>2. Fit(s, Live, Revoked, stretch)
        BY <1>1, <2>1, Facts, Apart DEF Fit, Idle, Present
    <2>3. Become(s)
        BY <1>4 DEF Restarts, Become
    <2> QED BY <1>4, <2>2, <2>3, SameLinks DEF Restarts
<1> QED BY <1>3, <1>4

-------------------------------------------------------------------------------
(* The invariant, and what follows from it. *)

LEMMA InitInvariant == Init => IInv
<1> SUFFICES ASSUME Init PROVE IInv
    OBVIOUS
<1>1. Live = {} /\ Revoked = {}
    BY DEF Init, Live, Revoked
<1>2. Rested \in Holds /\ NotYet \in Stretches /\ Free \in Leases /\ Idle \in Desktops
    BY ControlAssumption DEF Rested, Holds, Never, NotYet, Stretches, Leases, Desktops
<1>3. Present \in States
    BY <1>2, TypesFit DEF Init
<1>4. TypeOK
    BY <1>2, <1>3, TypeParts DEF Init
<1>5. Fit(Present, {}, {}, stretch)
    BY <1>3 DEF Fit, Init, Present, Idle
<1> QED BY <1>1, <1>4, <1>5 DEF IInv, Init, NotYet

LEMMA NextKeeps == IInv /\ [Next]_vars => IInv'
<1> SUFFICES ASSUME IInv, [Next]_vars PROVE IInv'
    OBVIOUS
<1>1. CASE Passes
    BY <1>1, TickKeeps
<1>2. CASE Step /\ Stretch(FALSE)
    <2>1. Kept
        BY <1>2, PeopleKeep, DesktopKeeps, SocketsKeep, CreateKeeps, EndKeeps, LinksKeep, EndsKeep
           DEF Step
    <2> QED BY <1>2, <2>1, StepKeeps
<1>3. CASE UNCHANGED vars
    <2>1. UNCHANGED <<lease, hold, link, session, sockets, bound, desktop, stretch>>
        BY <1>3 DEF vars
    <2>2. /\ TypeOK' = TypeOK /\ Present' = Present /\ Live' = Live /\ Revoked' = Revoked
        BY <2>1 DEF TypeOK, Present, Live, Revoked
    <2> QED BY <2>1, <2>2 DEF IInv
<1> QED BY <1>1, <1>2, <1>3 DEF Next

\* The inductive invariant holds in every behaviour of the lease, its links, sockets and operation.
THEOREM Invariant == Spec => []IInv
BY InitInvariant, NextKeeps, PTL DEF Spec

\* The rows, sockets, operations and clocks stay in their types.
THEOREM TypeCorrect == Spec => []TypeOK
<1>1. IInv => TypeOK
    BY DEF IInv
<1> QED BY <1>1, Invariant, PTL

\* A guest never controls for MaxHold without a break of Cooldown, however its leases begin,
\* lapse, are displaced and are taken again: the clock the code keeps is never behind.
THEOREM HoldsEnd == Spec => []HoldBounded
<1>1. IInv => HoldBounded
    <2> SUFFICES ASSUME IInv, NEW g \in Guests, Controls(g)
                 PROVE  stretch[g].held < MaxHold
        BY DEF HoldBounded
    <2>1. lease.holder = g /\ g \in Live /\ ~Spent(Present, g)
        <3>1. lease # Free
            BY Apart DEF Controls, Free
        <3> QED BY <3>1 DEF Controls, Lapsed, GuestOver, Present
    <2>2. Measured(hold[g], stretch[g], TRUE)
        BY <2>1, Facts DEF Fit, Present
    <2>3. hold[g] \in Holds /\ stretch[g] \in Stretches
        BY Facts, TypesFit
    <2> QED BY <2>1, <2>2, <2>3, ControlAssumption
               DEF Measured, Spent, Present, Holds, Stretches, Never
<1> QED BY <1>1, Invariant, PTL

\* A viewer's input passes only if the viewer is of whoever holds the lease.
THEOREM InputIsHolders == Spec => []InputOnlyFromHolder
<1>1. IInv => InputOnlyFromHolder
    BY DEF IInv, Fit, Present, InputOnlyFromHolder
<1> QED BY <1>1, Invariant, PTL

\* No desktop operation goes on under somebody else's lease.
THEOREM DesktopAlwaysStops == Spec => []DesktopStops
<1>1. IInv => DesktopStops
    BY DEF IInv, Fit, Present, DesktopStops
<1> QED BY <1>1, Invariant, PTL

\* A revoked guest has no session, no viewer and no lease.
THEOREM RevokedStaysOut == Spec => []RevokedIsOut
<1>1. IInv => RevokedIsOut
    <2> SUFFICES ASSUME IInv, NEW g \in Guests, link[g] = "revoked"
                 PROVE  g \notin session /\ lease.holder # g /\ \A v \in Sockets : sockets[v] # g
        BY DEF RevokedIsOut
    <2>1. g \in Revoked
        BY DEF Revoked
    <2> QED BY <2>1 DEF IInv, Fit, Present
<1> QED BY <1>1, Invariant, PTL

LEMMA PersonKept ==
    ASSUME IInv, Next, NEW h \in People, Controls(h)
    PROVE  lease'.holder \in {h, NoOne, Admin}
<1> DEFINE Good == {h, NoOne, Admin}
<1>1. /\ lease.holder = h /\ h \notin Agents \cup {NoOne} /\ Now = Present
      /\ Present.lease = lease
    BY ControlAssumption, NamesAssumption DEF Controls, Now, Observed, Present, People
<1>2. \A s : Become(s) => lease'.holder = s.lease.holder
    BY DEF Become
<1>3. Released(Present).lease = Free /\ Free.holder = NoOne
    BY Facts, ReleasedFits DEF Free
<1>4. CASE lease'.holder = lease.holder
    BY <1>1, <1>4
<1>5. CASE Passes
    BY <1>4, <1>5 DEF Passes, Tick
<1>6. CASE Look \/ AdminReturns \/ AdminRenews \/ \E force \in BOOLEAN : AdminTakes(force)
    <2>1. PICK s \in {Present, Released(Present), Renewed(Present, Admin), Acquired(Now, Admin, Live)} :
              Become(s)
        BY <1>1, <1>6 DEF Look, AdminReturns, AdminRenews, AdminTakes, Now
    <2>2. Renewed(Present, Admin).lease.holder = lease.holder
        BY <1>1, Facts, RenewedFits, Apart
    <2>3. Acquired(Now, Admin, Live).lease.holder \in {Admin, NoOne}
        BY TakenFits
    <2> QED BY <1>1, <1>2, <1>3, <2>1, <2>2, <2>3
<1>7. ASSUME NEW g \in Guests,
             CreateGuest(g) \/ Exchange(g) \/ Expire(g) \/ SweepSession(g) \/ SweepLink(g)
      PROVE  lease'.holder \in Good
    <2>1. lease' = lease \/ Become(Now)
        BY <1>7 DEF CreateGuest, Exchange, Expire, SweepSession, SweepLink, Now
    <2> QED BY <1>1, <1>2, <2>1
<1>8. ASSUME NEW g \in Guests, EndGuest(g)
      PROVE  lease'.holder \in Good
    <2> DEFINE seen == Observed(Present, Live \ {g})
               freed == IF seen.lease.holder = g THEN Released(seen) ELSE seen
    <2>1. lease' = freed.lease
        <3> DEFINE r == [freed EXCEPT !.sockets = [v \in Sockets |-> IF @[v] = g THEN NoOne ELSE @[v]]]
        <3>1. lease' = r.lease
            BY <1>8 DEF EndGuest, Become
        <3>2. freed \in States
            BY Facts, FewerFits, ObservedFits, ReleasedFits DEF Fit
        <3> QED BY <3>1, <3>2 DEF States
    <2>2. seen.lease.holder \in {h, NoOne} /\ Released(seen).lease = Free
        <3>1. /\ Live \ {g} \in SUBSET Guests /\ Revoked \in SUBSET Guests
              /\ stretch \in [Guests -> Stretches]
              /\ Fit(Present, Live \ {g}, Revoked, stretch)
            BY Facts, FewerFits
        <3>2. Fit(seen, Live \ {g}, Revoked, stretch) /\ seen.lease.holder \in {Present.lease.holder, NoOne}
            BY <3>1, ObservedFits
        <3> HIDE DEF seen
        <3>3. Released(seen).lease = Free
            BY <3>1, <3>2, ReleasedFits
        <3> QED BY <1>1, <3>2, <3>3
    <2> QED BY <1>3, <2>1, <2>2
<1>9. ASSUME NEW g \in Guests, GuestTakes(g) \/ GuestReturns(g) \/ GuestRenews(g)
      PROVE  lease'.holder \in Good
    <2>1. g \in Live
        BY <1>9 DEF GuestTakes, GuestReturns, GuestRenews, SignedIn
    <2>2. \/ h = g /\ Become(Acquired(Begun(Now, g), g, Live))
          \/ Become(Now) \/ Become(Released(Present)) \/ Become(Renewed(Present, g))
        BY <1>1, <1>9 DEF GuestTakes, GuestReturns, GuestRenews, Now
    <2>3. Renewed(Present, g).lease.holder = lease.holder
        BY <1>1, Facts, RenewedFits, Apart
    <2>4. Acquired(Begun(Now, g), g, Live).lease.holder \in {g, NoOne}
        BY <2>1, GuestTakenFits
    <2> QED BY <1>1, <1>2, <1>3, <2>1, <2>2, <2>3, <2>4
<1>10. ASSUME NEW a \in Agents, AgentTakes(a) \/ DesktopStarts(a)
       PROVE  lease'.holder \in Good
    <2>1. Become(Now)
        BY <1>1, <1>10 DEF AgentTakes, DesktopStarts, Now
    <2> QED BY <1>1, <1>2, <2>1
<1>11. CASE DesktopExits \/ DesktopReleased \/ Restarts \/ Destroyed
    <2>1. lease' = lease \/ lease' = Free \/ Become([Present EXCEPT !.desktop.stage = "release"])
        BY <1>1, <1>11 DEF DesktopExits, DesktopReleased, Restarts, Destroyed, Now
    <2>2. [Present EXCEPT !.desktop.stage = "release"].lease = lease
        BY DEF Present
    <2> QED BY <1>1, <1>2, <1>3, <2>1, <2>2
<1>12. ASSUME NEW v \in Sockets, NEW who \in People, Opens(v, who)
       PROVE  lease'.holder \in Good
    <2>1. Become(Present) \/ Become([Present EXCEPT !.sockets[v] = who])
        BY <1>1, <1>12 DEF Opens, Now
    <2>2. [Present EXCEPT !.sockets[v] = who].lease = lease
        BY DEF Present
    <2> QED BY <1>1, <1>2, <2>1, <2>2
<1>13. ASSUME NEW v \in Sockets, Binds(v)
       PROVE  lease'.holder \in Good
    <2> DEFINE n == Renewed(Present, sockets[v])
    <2>1. sockets[v] \in People
        BY <1>13, Facts, TypesFit DEF Binds
    <2>2. n \in States /\ n.lease.holder = lease.holder
        <3>1. Fit(n, Live, Revoked, stretch) /\ n.lease.holder = Present.lease.holder
            BY <2>1, Facts, RenewedFits
        <3>2. n \in States
            BY <3>1 DEF Fit
        <3> QED BY <1>1, <3>1, <3>2
    <2>3. Become(Present) \/ Become([n EXCEPT !.bound = @ \cup {v}])
        BY <1>1, <1>13 DEF Binds, Now
    <2> HIDE DEF n
    <2>4. [n EXCEPT !.bound = @ \cup {v}].lease = n.lease
        BY <2>2 DEF States
    <2> QED BY <1>1, <1>2, <2>2, <2>3, <2>4
<1>14. ASSUME NEW v \in Sockets, Checks(v) \/ \E leaving \in BOOLEAN : Closes(v, leaving)
       PROVE  lease'.holder \in Good
    <2> DEFINE left == [Present EXCEPT !.sockets[v] = NoOne, !.bound = @ \ {v}]
    <2>1. left.lease = lease
        BY DEF Present
    <2>2. Fit(left, Live, Revoked, stretch)
        BY Facts, CloseFits
    <2>3. \/ Become(Present) \/ Become(left)
          \/ Become(Observed(left, Live)) \/ Become(Released(Observed(left, Live)))
        BY <1>1, <1>14 DEF Checks, Closes, Now
    <2> HIDE DEF left
    <2>4. Observed(left, Live).lease.holder \in {h, NoOne} /\ Fit(Observed(left, Live), Live, Revoked, stretch)
        BY <1>1, <2>1, <2>2, Facts, ObservedFits
    <2>5. Released(Observed(left, Live)).lease = Free
        BY <2>4, Facts, ReleasedFits
    <2> QED BY <1>1, <1>2, <1>3, <2>1, <2>3, <2>4, <2>5
<1> QED BY <1>5, <1>6, <1>7, <1>8, <1>9, <1>10, <1>11, <1>12, <1>13, <1>14 DEF Next, Step

\* A person in control is displaced by nobody but the administrator.
THEOREM PersonStays == Spec => PersonKeepsControl
<1>1. IInv /\ [Next]_vars => [\A h \in People : Controls(h) => lease'.holder \in {h, NoOne, Admin}]_vars
    BY PersonKept
<1> QED BY <1>1, Invariant, PTL DEF Spec, PersonKeepsControl

-------------------------------------------------------------------------------
(* The lease as an abstract one (Lease): what a state in the middle of a handler amounts to. *)
Bears(s, live) == IF s.lease # Free /\ ~Lapsed(s, live) THEN s.lease.holder ELSE NoOne
Works(s) == IF s.desktop.stage = "run" THEN s.desktop.agent ELSE NoOne

LEMMA Becoming ==
    ASSUME NEW s, Become(s)
    PROVE  InControl' = Bears(s, Live') /\ Operation' = Works(s)
BY DEF Become, InControl, Bears, Operation, Works, Lapsed, GuestOver, Spent, Present, Live

\* A step that starts no operation and after which, if anybody is in control, it is who was
\* before, and no viewer of anybody else drives.
LEMMA StepLeaves ==
    ASSUME Operation' \in {Operation, NoOne},
           InControl' # NoOne => /\ InControl' = InControl
                                 /\ bound' \subseteq bound
                                 /\ \A v \in bound' : sockets'[v] = sockets[v]
    PROVE  AbstractLease!Next
<1>1. CASE InControl' = NoOne
    <2>1. Drivers' = {}
        BY <1>1 DEF Drivers
    <2> QED BY <1>1, <2>1 DEF AbstractLease!Next, AbstractLease!Ends
<1>2. CASE InControl' # NoOne
    <2>1. Drivers' \subseteq Drivers
        BY <1>2 DEF Drivers
    <2> QED BY <1>2, <2>1 DEF AbstractLease!Next, AbstractLease!Leaves
<1> QED BY <1>1, <1>2

\* A handler that takes nothing away from anybody.
LEMMA HandlerLeaves ==
    ASSUME NEW s, Become(s), Works(s) \in {Operation, NoOne},
           Bears(s, Live') # NoOne => /\ Bears(s, Live') = InControl
                                      /\ s.bound \subseteq bound
                                      /\ \A v \in s.bound : s.sockets[v] = sockets[v]
    PROVE  AbstractLease!Next
<1>1. bound' = s.bound /\ sockets' = s.sockets
    BY DEF Become
<1> QED BY <1>1, Becoming, StepLeaves

\* A handler that takes the lease, which may lapse at once.
LEMMA HandlerTakes ==
    ASSUME NEW s, Become(s), NEW who \in People \cup Agents, s.lease.holder \in {who, NoOne}, Afresh(s),
           \/ InControl \in {who, NoOne} \/ who = Admin \/ (who \in Guests /\ InControl \in Agents)
    PROVE  AbstractLease!Next
<1>1. InControl' \in {who, NoOne} /\ Operation' = NoOne
    BY Becoming DEF Bears, Works, Afresh
<1>2. Drivers' = {}
    BY DEF Become, Drivers, Afresh
<1>3. CASE InControl' = NoOne
    BY <1>1, <1>3, StepLeaves
<1>4. CASE InControl' = who
    <2>1. AbstractLease!Takes(who)
        BY <1>1, <1>2, <1>4 DEF AbstractLease!Takes, AbstractLease!MayTake
    <2> QED BY <2>1 DEF AbstractLease!Next, People
<1> QED BY <1>1, <1>3, <1>4

\* Whoever reads the lease is told who is in control.
LEMMA NowTells ==
    ASSUME IInv
    PROVE  /\ Now.lease.holder = InControl
           /\ Bears(Now, Live) = InControl
           /\ InControl # NoOne => Now = Present
           /\ Works(Now) \in {Operation, NoOne}
           /\ Operation = NoOne => Works(Now) = NoOne
<1>1. Narrows(Now, Present)
    BY Facts, ObservedNarrows DEF Now
<1>2. Works(Now) \in {Operation, NoOne}
    BY <1>1 DEF Narrows, Works, Operation, Present
<1>3. CASE Lapsed(Present, Live)
    <2>1. Now.lease = Free
        <3>1. Now = Released(Cooled(Present, Live)) /\ Fit(Cooled(Present, Live), Live, Revoked, stretch)
            BY <1>3, Facts, CooledFits DEF Now, Observed
        <3> QED BY <3>1, Facts, ReleasedFits
    <2>2. InControl = NoOne
        BY <1>3 DEF InControl
    <2> QED BY <1>2, <2>1, <2>2 DEF Bears, Free
<1>4. CASE ~Lapsed(Present, Live)
    <2>1. Now = Present /\ Present.lease = lease
        BY <1>4 DEF Now, Observed, Present
    <2>2. lease = Free => lease.holder = NoOne
        BY DEF Free
    <2>3. InControl = lease.holder /\ Bears(Present, Live) = lease.holder
        BY <1>4, <2>1, <2>2 DEF InControl, Bears
    <2> QED BY <1>2, <2>1, <2>3
<1> QED BY <1>3, <1>4

LEMMA RenewedTells ==
    ASSUME IInv, NEW by \in People
    PROVE  /\ Bears(Renewed(Now, by), Live) = InControl /\ Works(Renewed(Now, by)) = Works(Now)
           /\ Renewed(Now, by).bound = Now.bound /\ Renewed(Now, by).sockets = Now.sockets
<1>1. CASE Now.lease.holder = by
    <2> DEFINE r == [Now EXCEPT !.lease.left = Ttl]
    <2>1. Now \in States /\ Now.lease \in Leases /\ ~Lapsed(Now, Live)
        BY SeenFits DEF States
    <2>2. Now.lease \in [holder : People \cup Agents, left : -1..Ttl]
        BY <1>1, <2>1, Apart DEF Leases, Free
    <2>3. /\ r.lease = [holder |-> by, left |-> Ttl] /\ r.hold = Now.hold
          /\ r.sockets = Now.sockets /\ r.bound = Now.bound /\ r.desktop = Now.desktop
        BY <1>1, <2>1, <2>2 DEF States
    <2>4. Renewed(Now, by) = r
        BY <1>1 DEF Renewed
    <2> HIDE DEF r
    <2>5. Now.lease # Free /\ by # NoOne
        BY <1>1, Apart DEF Free
    <2>6. ~GuestOver(Now, Live)
        BY <2>1, <2>5 DEF Lapsed
    <2>7. ~GuestOver(r, Live)
        BY <1>1, <2>3, <2>6 DEF GuestOver, Spent
    <2>8. r.lease # Free /\ ~(Ttl < 0)
        BY <2>3, <2>5, ControlAssumption DEF Free
    <2>9. ~Lapsed(r, Live)
        BY <2>3, <2>7, <2>8 DEF Lapsed
    <2>10. Bears(r, Live) = by
        BY <2>3, <2>8, <2>9 DEF Bears
    <2>11. Works(r) = Works(Now)
        BY <2>3 DEF Works
    <2> QED BY <1>1, <2>3, <2>4, <2>10, <2>11, NowTells
<1>2. CASE Now.lease.holder # by
    BY <1>2, NowTells DEF Renewed
<1> QED BY <1>1, <1>2

\* A lease that is given up leaves nobody in control, and no operation that was not under way.
LEMMA ReleasedTells ==
    ASSUME NEW s \in States
    PROVE  /\ \A live : Bears(Released(s), live) = NoOne
           /\ Works(Released(s)) \in {Works(s), NoOne}
<1>1. CASE s.lease = Free
    BY <1>1 DEF Released, Bears, Works
<1>2. CASE s.lease # Free
    <2> DEFINE r == [s EXCEPT !.lease = Free, !.hold = Noted(@, s.lease.holder)]
    <2>1. r \in States /\ r.lease = Free
        BY NotedFits DEF States, Leases
    <2>2. Released(s) = Announced(r)
        BY <1>2 DEF Released
    <2> HIDE DEF r
    <2>3. Announced(r).lease = Free /\ Announced(r).desktop.stage # "run"
        BY <2>1, AnnouncedFits
    <2> QED BY <2>2, <2>3 DEF Bears, Works
<1> QED BY <1>1, <1>2

\* Whoever looks at it, returns it or renews it.
LEMMA SeenLeaves ==
    ASSUME IInv, UNCHANGED link, NEW by \in People,
           Become(Now) \/ Become(Released(Now)) \/ Become(Released(Present)) \/ Become(Renewed(Now, by))
    PROVE  AbstractLease!Next
<1>1. Live' = Live /\ Present.bound = bound /\ Present.sockets = sockets /\ Works(Present) = Operation
    BY DEF Live, Present, Works, Operation
<1>2. Now \in States /\ Present \in States
    BY SeenFits, Facts
<1>3. CASE Become(Now)
    BY <1>1, <1>3, NowTells, HandlerLeaves
<1>4. CASE Become(Released(Now))
    <2>1. Bears(Released(Now), Live) = NoOne /\ Works(Released(Now)) \in {Works(Now), NoOne}
        BY <1>2, ReleasedTells
    <2> QED BY <1>1, <1>4, <2>1, NowTells, HandlerLeaves
<1>5. CASE Become(Released(Present))
    <2>1. Bears(Released(Present), Live) = NoOne /\ Works(Released(Present)) \in {Works(Present), NoOne}
        BY <1>2, ReleasedTells
    <2> QED BY <1>1, <1>5, <2>1, HandlerLeaves
<1>6. CASE Become(Renewed(Now, by))
    BY <1>1, <1>6, NowTells, RenewedTells, HandlerLeaves
<1> QED BY <1>3, <1>4, <1>5, <1>6

LEMMA TakingRefines ==
    ASSUME IInv,
           \/ Look \/ (\E force \in BOOLEAN : AdminTakes(force)) \/ AdminReturns \/ AdminRenews
           \/ \E g \in Guests : GuestTakes(g) \/ GuestReturns(g) \/ GuestRenews(g) \/ Exchange(g)
           \/ \E a \in Agents : AgentTakes(a)
    PROVE  AbstractLease!Next
<1>1. Admin \in People /\ Guests \subseteq People
    BY DEF People
<1>2. CASE Look \/ AdminReturns \/ AdminRenews
    <2>1. UNCHANGED link /\ (Become(Now) \/ Become(Released(Present)) \/ Become(Renewed(Now, Admin)))
        BY <1>2 DEF Look, AdminReturns, AdminRenews, Now
    <2> QED BY <1>1, <2>1, SeenLeaves
<1>3. ASSUME NEW force \in BOOLEAN, AdminTakes(force)
      PROVE  AbstractLease!Next
    <2>1. UNCHANGED link /\ (Become(Now) \/ Become(Acquired(Now, Admin, Live)))
        BY <1>3 DEF AdminTakes, Now
    <2>2. /\ Acquired(Now, Admin, Live).lease.holder \in {Admin, NoOne}
          /\ Afresh(Acquired(Now, Admin, Live))
        BY TakenFits
    <2>3. CASE Become(Acquired(Now, Admin, Live))
        BY <1>1, <2>2, <2>3, HandlerTakes
    <2> QED BY <1>1, <2>1, <2>3, SeenLeaves
<1>4. ASSUME NEW g \in Guests, GuestTakes(g)
      PROVE  AbstractLease!Next
    <2>1. UNCHANGED link /\ g \in Live
        BY <1>4 DEF GuestTakes, SignedIn
    <2>2. \/ Become(Now)
          \/ Now.lease.holder \in {NoOne, g} \cup Agents /\ Become(Acquired(Begun(Now, g), g, Live))
        BY <1>4 DEF GuestTakes, Now
    <2>3. /\ Acquired(Begun(Now, g), g, Live).lease.holder \in {g, NoOne}
          /\ Afresh(Acquired(Begun(Now, g), g, Live))
        BY <2>1, GuestTakenFits
    <2>4. CASE Now.lease.holder \in {NoOne, g} \cup Agents /\ Become(Acquired(Begun(Now, g), g, Live))
        BY <1>1, <2>3, <2>4, NowTells, HandlerTakes
    <2> QED BY <1>1, <2>1, <2>2, <2>4, SeenLeaves
<1>5. ASSUME NEW g \in Guests, GuestReturns(g) \/ GuestRenews(g) \/ Exchange(g)
      PROVE  AbstractLease!Next
    <2>1. CASE GuestReturns(g) \/ GuestRenews(g)
        <3>1. UNCHANGED link /\ (Become(Now) \/ Become(Released(Now)) \/ Become(Renewed(Now, g)))
            BY <2>1 DEF GuestReturns, GuestRenews, Now
        <3> QED BY <1>1, <3>1, SeenLeaves
    <2>2. CASE Exchange(g)
        <3>1. Become(Now) /\ Live' = Live
            BY <2>2, TypeParts DEF Exchange, Now, Live, IInv
        <3>2. Present.bound = bound /\ Present.sockets = sockets
            BY DEF Present
        <3> QED BY <3>1, <3>2, NowTells, HandlerLeaves
    <2> QED BY <1>5, <2>1, <2>2
<1>6. ASSUME NEW a \in Agents, AgentTakes(a)
      PROVE  AbstractLease!Next
    <2>1. UNCHANGED link
        BY <1>6 DEF AgentTakes
    <2>2. Become(Now) \/ (Now.lease.holder \in {NoOne, a} /\ Become(Acquired(Now, a, Live)))
        BY <1>6 DEF AgentTakes, Now
    <2>3. /\ Acquired(Now, a, Live).lease.holder \in {a, NoOne}
          /\ Afresh(Acquired(Now, a, Live))
        BY TakenFits
    <2>4. CASE Now.lease.holder \in {NoOne, a} /\ Become(Acquired(Now, a, Live))
        BY <1>1, <2>3, <2>4, NowTells, HandlerTakes
    <2> QED BY <1>1, <2>1, <2>2, <2>4, SeenLeaves
<1> QED BY <1>2, <1>3, <1>4, <1>5, <1>6

\* A step that leaves the lease and the holder's hold as they are puts nobody in control who was not.
LEMMA SameLease ==
    ASSUME lease' = lease, lease.holder \in Guests => hold'[lease.holder].since = hold[lease.holder].since,
           lease.holder \in Live' => lease.holder \in Live
    PROVE  InControl' \in {InControl, NoOne}
<1>1. CASE InControl' = NoOne
    BY <1>1
<1>2. CASE InControl' # NoOne
    <2>1. lease # Free /\ ~(lease.left < 0) /\ InControl' = lease.holder
        BY <1>2 DEF InControl, Lapsed, Present
    <2>2. lease.holder \in Guests =>
              lease.holder \in Live' /\ ~(hold'[lease.holder].since # Never /\ hold'[lease.holder].since >= MaxHold)
        BY <1>2 DEF InControl, Lapsed, GuestOver, Spent, Present
    <2>3. InControl = lease.holder
        BY <2>1, <2>2 DEF InControl, Lapsed, GuestOver, Spent, Present
    <2> QED BY <2>1, <2>3
<1> QED BY <1>1, <1>2

LEMMA LinksRefine ==
    ASSUME IInv, NEW g \in Guests, CreateGuest(g) \/ Expire(g) \/ SweepSession(g) \/ SweepLink(g)
    PROVE  AbstractLease!Next
<1>1. UNCHANGED <<lease, sockets, bound, desktop>>
    BY DEF CreateGuest, Expire, SweepSession, SweepLink
<1>2. lease.holder \in Guests => hold'[lease.holder] = hold[lease.holder]
    BY TypeParts, TypesFit DEF IInv, CreateGuest, Expire, SweepSession, SweepLink
<1>3. lease.holder \in Live' => lease.holder \in Live
    <2>1. link \in [Guests -> {"none", "fresh", "opened", "expired", "revoked"}]
        BY TypeParts DEF IInv
    <2> QED BY <2>1 DEF CreateGuest, Expire, SweepSession, SweepLink, Live
<1>4. InControl' \in {InControl, NoOne}
    BY <1>1, <1>2, <1>3, SameLease
<1>5. Operation' = Operation
    BY <1>1 DEF Operation
<1> QED BY <1>1, <1>4, <1>5, StepLeaves

LEMMA EndRefines ==
    ASSUME IInv, NEW g \in Guests, EndGuest(g)
    PROVE  AbstractLease!Next
<1> DEFINE left == Live \ {g}
           seen == Observed(Present, left)
           freed == IF seen.lease.holder = g THEN Released(seen) ELSE seen
           r == [freed EXCEPT !.sockets = [v \in Sockets |-> IF @[v] = g THEN NoOne ELSE @[v]]]
<1>1. Become(r) /\ Live' = left
    <2>1. link \in [Guests -> {"none", "fresh", "opened", "expired", "revoked"}]
        BY TypeParts DEF IInv
    <2> QED BY <2>1 DEF EndGuest, Live
<1>2. /\ left \in SUBSET Guests /\ Revoked \in SUBSET Guests
      /\ stretch \in [Guests -> Stretches] /\ Fit(Present, left, Revoked, stretch)
    BY Facts, FewerFits
<1>3. /\ Fit(seen, left, Revoked, stretch) /\ Narrows(seen, Present)
      /\ seen = Present \/ seen.lease = Free
    BY <1>2, ObservedFits, ObservedNarrows
<1> HIDE DEF seen
<1>4. seen \in States /\ Works(seen) \in {Operation, NoOne}
    BY <1>3 DEF Fit, Narrows, Works, Operation, Present
<1>5. Fit(Released(seen), left, Revoked, stretch) /\ Released(seen).lease = Free
    BY <1>2, <1>3, ReleasedFits
<1>6. Works(Released(seen)) \in {Works(seen), NoOne}
    BY <1>4, ReleasedTells
<1>7. freed \in States /\ Works(freed) \in {Operation, NoOne}
    BY <1>4, <1>5, <1>6 DEF Fit
<1>8. freed.lease = Free \/ (freed = Present /\ lease.holder # g)
    BY <1>3, <1>5 DEF Present
<1> HIDE DEF freed
<1>9. /\ r.lease = freed.lease /\ r.hold = freed.hold /\ r.bound = freed.bound /\ r.desktop = freed.desktop
      /\ r.sockets = [v \in Sockets |-> IF freed.sockets[v] = g THEN NoOne ELSE freed.sockets[v]]
    BY <1>7 DEF States
<1>10. lease' = freed.lease /\ hold' = freed.hold /\ bound' = freed.bound /\ desktop' = freed.desktop
       /\ sockets' = [v \in Sockets |-> IF freed.sockets[v] = g THEN NoOne ELSE freed.sockets[v]]
    BY <1>1, <1>9 DEF Become
<1>11. Operation' \in {Operation, NoOne}
    BY <1>7, <1>10 DEF Works, Operation
<1>12. CASE freed.lease = Free
    <2>1. InControl' = NoOne
        BY <1>10, <1>12 DEF InControl
    <2> QED BY <1>11, <2>1, StepLeaves
<1>13. CASE freed = Present /\ lease.holder # g
    <2>1. lease' = lease /\ hold' = hold /\ bound' = bound
          /\ sockets' = [v \in Sockets |-> IF sockets[v] = g THEN NoOne ELSE sockets[v]]
        BY <1>10, <1>13 DEF Present
    <2>2. InControl' \in {InControl, NoOne}
        BY <1>1, <2>1, SameLease
    <2>3. \A v \in bound : v \in Sockets /\ sockets[v] = lease.holder
        BY Facts DEF Fit, Present, States
    <2>4. \A v \in bound' : sockets'[v] = sockets[v]
        BY <1>13, <2>1, <2>3
    <2> QED BY <1>11, <2>1, <2>2, <2>4, StepLeaves
<1> QED BY <1>8, <1>12, <1>13

LEMMA DesktopRefines ==
    ASSUME IInv, (\E a \in Agents : DesktopStarts(a)) \/ DesktopExits \/ DesktopReleased
    PROVE  AbstractLease!Next
<1>0. Present.bound = bound /\ Present.sockets = sockets /\ Live \subseteq Guests
    BY DEF Present, Live
<1>1. ASSUME NEW a \in Agents, DesktopStarts(a)
      PROVE  AbstractLease!Next
    <2> DEFINE r == [Now EXCEPT !.desktop = [agent |-> a, stage |-> "run"]]
    <2>1. Live' = Live /\ Operation = NoOne
        BY <1>1 DEF DesktopStarts, Live, Operation, Idle
    <2>2. CASE Now.lease.holder \in {NoOne, a}
        <3>1. /\ r.lease = Now.lease /\ r.hold = Now.hold /\ r.sockets = Now.sockets /\ r.bound = Now.bound
              /\ r.desktop = [agent |-> a, stage |-> "run"]
            BY SeenFits DEF States
        <3>2. Become(r)
            BY <1>1, <2>2 DEF DesktopStarts, Now
        <3> HIDE DEF r
        <3>3. Bears(r, Live) = Bears(Now, Live) /\ Works(r) = a
            BY <3>1 DEF Bears, Lapsed, GuestOver, Spent, Works
        <3>4. InControl' = InControl /\ Operation' = a /\ InControl \in {NoOne, a}
            BY <2>1, <2>2, <3>2, <3>3, Becoming, NowTells
        <3>5. Drivers' = Drivers
            <4>1. CASE InControl = NoOne
                BY <3>4, <4>1 DEF Drivers
            <4>2. CASE InControl # NoOne
                <5>1. bound' = bound /\ sockets' = sockets
                    BY <1>0, <3>1, <3>2, <4>2, NowTells DEF Become
                <5> QED BY <3>4, <5>1 DEF Drivers
            <4> QED BY <4>1, <4>2
        <3> QED BY <2>1, <3>4, <3>5 DEF AbstractLease!Next, AbstractLease!Starts
    <2>3. CASE Now.lease.holder \notin {NoOne, a}
        <3>1. Become(Now)
            BY <1>1, <2>3 DEF DesktopStarts, Now
        <3> QED BY <1>0, <2>1, <3>1, NowTells, HandlerLeaves
    <2> QED BY <2>2, <2>3
<1>2. CASE DesktopExits
    <2> DEFINE r == [Now EXCEPT !.desktop.stage = "release"]
    <2>1. desktop \in Desktops /\ desktop.agent \in Agents
        BY <1>2, Facts, TypesFit DEF DesktopExits, Desktops, Idle
    <2>2. Now.desktop \in Desktops /\ Now.desktop.agent \in Agents
        BY <2>1, SeenFits, SeenParts DEF States
    <2>3. [Now.desktop EXCEPT !.stage = "release"].stage # "run"
        BY <2>2, Apart DEF Desktops, Idle
    <2>4. /\ r.lease = Now.lease /\ r.hold = Now.hold
          /\ r.sockets = Now.sockets /\ r.bound = Now.bound /\ r.desktop.stage # "run"
        BY <2>3, SeenFits DEF States
    <2>5. Become(r) /\ Live' = Live
        BY <1>2 DEF DesktopExits, Now, Live
    <2> HIDE DEF r
    <2>6. Bears(r, Live) = Bears(Now, Live) /\ Works(r) = NoOne
        BY <2>4 DEF Bears, Lapsed, GuestOver, Spent, Works
    <2> QED BY <1>0, <2>4, <2>5, <2>6, NowTells, HandlerLeaves
<1>3. CASE DesktopReleased
    <2>1. UNCHANGED <<lease, hold, link, sockets, bound>> /\ Operation' = NoOne
        BY <1>3 DEF DesktopReleased, Operation, Idle
    <2>2. InControl' \in {InControl, NoOne}
        BY <2>1, SameLease DEF Live
    <2> QED BY <2>1, <2>2, StepLeaves
<1> QED BY <1>1, <1>2, <1>3

\* A viewer that is bound is somebody's, who is in control by the lease.
LEMMA BoundAre ==
    ASSUME IInv
    PROVE  \A v \in bound : v \in Sockets /\ sockets[v] \in People /\ sockets[v] = lease.holder
BY Facts DEF Fit, Present, States

LEMMA OpenRefines ==
    ASSUME IInv, NEW v \in Sockets, NEW who \in People, Opens(v, who)
    PROVE  AbstractLease!Next
<1> DEFINE seen == IF who = Admin THEN Present ELSE Now
           r == [seen EXCEPT !.sockets[v] = who]
<1>1. /\ Live' = Live /\ sockets[v] = NoOne
      /\ Become(r) \/ Become(seen)
    BY DEF Opens, Now, Live
<1>2. /\ seen \in States /\ Bears(seen, Live) = InControl /\ Works(seen) \in {Operation, NoOne}
      /\ InControl # NoOne => seen = Present
    <2>1. Bears(Present, Live) = InControl /\ Works(Present) = Operation
        BY DEF Bears, InControl, Works, Operation, Present
    <2> QED BY <2>1, NowTells, SeenFits, Facts
<1>3. Present.bound = bound /\ Present.sockets = sockets /\ sockets \in [Sockets -> {NoOne} \cup People]
    BY Facts, TypesFit DEF Present
<1>4. v \notin bound
    BY <1>1, BoundAre, Apart
<1> HIDE DEF seen
<1>5. CASE Become(seen)
    BY <1>1, <1>2, <1>3, <1>5, HandlerLeaves
<1>6. CASE Become(r)
    <2>1. /\ r.lease = seen.lease /\ r.hold = seen.hold /\ r.bound = seen.bound /\ r.desktop = seen.desktop
          /\ r.sockets = [seen.sockets EXCEPT ![v] = who]
        BY <1>2 DEF States
    <2> HIDE DEF r
    <2>2. Bears(r, Live) = Bears(seen, Live) /\ Works(r) = Works(seen)
        BY <2>1 DEF Bears, Lapsed, GuestOver, Spent, Works
    <2>3. InControl # NoOne => /\ r.bound = bound
                               /\ \A w \in bound : r.sockets[w] = sockets[w]
        BY <1>2, <1>3, <1>4, <2>1, BoundAre
    <2> QED BY <1>1, <1>2, <1>6, <2>2, <2>3, HandlerLeaves
<1> QED BY <1>1, <1>5, <1>6

LEMMA BindRefines ==
    ASSUME IInv, NEW v \in Sockets, Binds(v)
    PROVE  AbstractLease!Next
<1> DEFINE n == Renewed(Now, sockets[v])
           r == [n EXCEPT !.bound = @ \cup {v}]
<1>1. /\ Live' = Live /\ sockets[v] \in People /\ UNCHANGED link
      /\ Become(Now) \/ (Now.lease.holder = sockets[v] /\ Become(r))
    BY Facts, TypesFit DEF Binds, Now, Live
<1>2. CASE Now.lease.holder = sockets[v] /\ Become(r)
    <2>1. InControl = sockets[v] /\ InControl # NoOne /\ Now = Present
        BY <1>1, <1>2, NowTells, Apart
    <2>2. n \in States
        <3>1. Fit(n, Live, Revoked, stretch)
            BY <1>1, SeenFits, RenewedFits
        <3> QED BY <3>1 DEF Fit
    <2>3. /\ Bears(n, Live) = InControl /\ Works(n) = Operation /\ n.bound = bound /\ n.sockets = sockets
        <3>1. Works(Present) = Operation /\ Present.bound = bound /\ Present.sockets = sockets
            BY DEF Works, Operation, Present
        <3> QED BY <1>1, <2>1, <3>1, RenewedTells
    <2> HIDE DEF n
    <2>4. /\ r.lease = n.lease /\ r.hold = n.hold /\ r.bound = n.bound \cup {v} /\ r.desktop = n.desktop
          /\ r.sockets = n.sockets
        BY <2>2 DEF States
    <2> HIDE DEF r
    <2>5. Bears(r, Live) = InControl /\ Works(r) = Operation
        BY <2>3, <2>4 DEF Bears, Lapsed, GuestOver, Spent, Works
    <2>6. /\ InControl' = InControl /\ Operation' = Operation
          /\ bound' = bound \cup {v} /\ sockets' = sockets
        <3>1. bound' = r.bound /\ sockets' = r.sockets
            BY <1>2 DEF Become
        <3> QED BY <1>1, <1>2, <2>3, <2>4, <2>5, <3>1, Becoming
    <2>7. Drivers' = Drivers \cup {<<v, InControl>>}
        BY <2>1, <2>6 DEF Drivers
    <2> QED BY <2>1, <2>6, <2>7 DEF AbstractLease!Next, AbstractLease!Drives
<1> QED BY <1>1, <1>2, SeenLeaves

LEMMA CloseRefines ==
    ASSUME IInv, NEW v \in Sockets, Checks(v) \/ \E leaving \in BOOLEAN : Closes(v, leaving)
    PROVE  AbstractLease!Next
<1> DEFINE left == [Present EXCEPT !.sockets[v] = NoOne, !.bound = @ \ {v}]
           gone == [Now EXCEPT !.sockets[v] = NoOne, !.bound = @ \ {v}]
           seen == Observed(left, Live)
<1>1. /\ Live' = Live /\ UNCHANGED link
      /\ \/ Become(Now) \/ Become(gone) \/ Become(left) \/ Become(seen) \/ Become(Released(seen))
    BY DEF Checks, Closes, Now, Live
<1>2. /\ Present.bound = bound /\ Present.sockets = sockets /\ sockets \in [Sockets -> {NoOne} \cup People]
      /\ Present \in States /\ Live \in SUBSET Guests /\ Revoked \in SUBSET Guests
      /\ stretch \in [Guests -> Stretches]
    BY Facts, TypesFit DEF Present
<1>3. /\ left.lease = lease /\ left.hold = hold /\ left.bound = bound \ {v} /\ left.desktop = desktop
      /\ left.sockets = [sockets EXCEPT ![v] = NoOne]
    BY DEF Present
<1>4. Fit(left, Live, Revoked, stretch)
    BY Facts, CloseFits
<1>5. /\ gone.lease = Now.lease /\ gone.hold = Now.hold /\ gone.bound = Now.bound \ {v}
      /\ gone.desktop = Now.desktop /\ gone.sockets = [Now.sockets EXCEPT ![v] = NoOne]
    BY SeenFits DEF States
<1> HIDE DEF left, gone
<1>6. Bears(left, Live) = InControl /\ Works(left) = Operation
      /\ left.bound \subseteq bound /\ \A w \in left.bound : left.sockets[w] = sockets[w]
    BY <1>2, <1>3, BoundAre DEF Bears, InControl, Lapsed, GuestOver, Spent, Present, Works, Operation
<1>7. /\ Fit(seen, Live, Revoked, stretch) /\ Narrows(seen, left)
      /\ seen = left \/ seen.lease = Free
    BY <1>2, <1>4, ObservedFits, ObservedNarrows
<1> HIDE DEF seen
<1>8. Works(seen) \in {Operation, NoOne} /\ seen \in States
    BY <1>6, <1>7 DEF Narrows, Works, Fit
<1>9. CASE Become(left)
    BY <1>1, <1>6, <1>9, HandlerLeaves
<1>10. CASE Become(seen)
    <2>1. CASE seen = left
        BY <1>9, <1>10, <2>1
    <2>2. CASE seen.lease = Free
        <3>1. Bears(seen, Live) = NoOne
            BY <2>2 DEF Bears
        <3> QED BY <1>1, <1>8, <1>10, <3>1, HandlerLeaves
    <2> QED BY <1>7, <2>1, <2>2
<1>11. CASE Become(Released(seen))
    <2>1. Bears(Released(seen), Live) = NoOne /\ Works(Released(seen)) \in {Works(seen), NoOne}
        BY <1>8, ReleasedTells
    <2> QED BY <1>1, <1>8, <1>11, <2>1, HandlerLeaves
<1>12. CASE Become(gone)
    <2>1. Bears(gone, Live) = Bears(Now, Live) /\ Works(gone) = Works(Now)
        BY <1>5 DEF Bears, Lapsed, GuestOver, Spent, Works
    <2>2. InControl # NoOne => /\ gone.bound \subseteq bound
                               /\ \A w \in gone.bound : gone.sockets[w] = sockets[w]
        BY <1>2, <1>5, NowTells, BoundAre
    <2> QED BY <1>1, <1>12, <2>1, <2>2, NowTells, HandlerLeaves
<1>13. CASE Become(Now)
    BY <1>1, <1>13, Apart, SeenLeaves
<1> QED BY <1>1, <1>9, <1>10, <1>11, <1>12, <1>13

LEMMA TimeRefines ==
    ASSUME IInv, Destroyed \/ Restarts \/ Tick
    PROVE  AbstractLease!Next
<1>1. CASE Destroyed
    <2>1. InControl' = NoOne /\ Operation' = NoOne
        BY <1>1 DEF Destroyed, InControl, Operation, Idle
    <2> QED BY <2>1, StepLeaves
<1>2. CASE Restarts
    <2>1. InControl' \in {InControl, NoOne}
        BY <1>2, SameLease DEF Restarts, Live
    <2>2. bound' = {} /\ Operation' = NoOne
        BY <1>2 DEF Restarts, Operation, Idle
    <2> QED BY <2>1, <2>2, StepLeaves
<1>3. CASE Tick
    <2>1. UNCHANGED <<link, sockets, bound, desktop>> /\ Live' = Live /\ Operation' = Operation
        BY <1>3 DEF Tick, Live, Operation
    <2>2. lease \in Leases /\ hold \in [Guests -> Holds]
        BY Facts, TypesFit
    <2>3. ASSUME InControl' # NoOne
          PROVE  InControl' = InControl
        <3>1. lease' # Free /\ ~(lease'.left < 0) /\ ~GuestOver(Present, Live)' /\ InControl' = lease'.holder
            BY <2>3 DEF InControl, Lapsed, Present
        <3>2. lease # Free /\ lease' = [lease EXCEPT !.left = Sooner(@, -1)]
            BY <1>3, <3>1 DEF Tick
        <3>3. lease \in [holder : People \cup Agents, left : -1..Ttl]
            BY <2>2, <3>2 DEF Leases
        <3>4. lease'.holder = lease.holder /\ ~(lease.left < 0)
            BY <3>1, <3>2, <3>3, ControlAssumption DEF Sooner
        <3>5. ASSUME lease.holder \in Guests
              PROVE  lease.holder \in Live /\ ~Spent(Present, lease.holder)
            <4> DEFINE g == lease.holder
            <4>1. g \in Live /\ ~(hold'[g].since # Never /\ hold'[g].since >= MaxHold)
                BY <2>1, <3>1, <3>4, <3>5 DEF GuestOver, Spent, Present
            <4>2. hold'[g].since = Older(hold[g].since, MaxHold) /\ hold[g].since \in Never..MaxHold
                BY <1>3, <2>2, <3>5 DEF Tick, Holds
            <4> QED BY <4>1, <4>2, ControlAssumption DEF Older, Spent, Present, Never
        <3>6. ~GuestOver(Present, Live)
            BY <3>5 DEF GuestOver, Present
        <3> QED BY <3>1, <3>2, <3>4, <3>6 DEF InControl, Lapsed, Present
    <2> QED BY <2>1, <2>3, StepLeaves
<1> QED BY <1>1, <1>2, <1>3

(***************************************************************************)
(* Control implements the abstract lease: whatever lapses, is renewed,     *)
(* swept, revoked or closes in between, control passes only to who may     *)
(* take it, and nothing of the last holder is left under the next.         *)
(***************************************************************************)
THEOREM RefinesLease == Spec => LeaseRefined
<1>1. Init => AbstractLease!Init
    <2> SUFFICES ASSUME Init PROVE AbstractLease!Init
        OBVIOUS
    <2>1. InControl = NoOne /\ Drivers = {} /\ Operation = NoOne
        BY DEF Init, InControl, Drivers, Operation, Idle
    <2> QED BY <2>1 DEF AbstractLease!Init
<1>2. IInv /\ [Next]_vars => [AbstractLease!Next]_(AbstractLease!leaseVars)
    <2> SUFFICES ASSUME IInv, [Next]_vars
                 PROVE  AbstractLease!Next \/ UNCHANGED AbstractLease!leaseVars
        OBVIOUS
    <2>1. CASE Passes
        BY <2>1, TimeRefines DEF Passes
    <2>2. CASE Step
        BY <2>2, TakingRefines, LinksRefine, EndRefines, DesktopRefines, OpenRefines, BindRefines,
           CloseRefines, TimeRefines DEF Step
    <2>3. CASE UNCHANGED vars
        <3>1. UNCHANGED <<InControl, Drivers, Operation>>
            BY <2>3 DEF vars, InControl, Drivers, Operation, Lapsed, GuestOver, Spent, Present, Live
        <3> QED BY <3>1 DEF AbstractLease!leaseVars
    <2> QED BY <2>1, <2>2, <2>3 DEF Next
<1> QED BY <1>1, <1>2, Invariant, PTL DEF Spec, LeaseRefined, AbstractLease!Spec

---------------------------------------------------------------------------
(* A guest's budget of audit rows (GuestBudget). *)

\* What is still to be written though nothing more is reserved: how the hold under way ends, the
\* starts that wait, and one row each of the exhausted budget and of leaving, which need no reserve.
Bit(b) == IF b THEN 1 ELSE 0
Covered(b, owed, g) == b.rows + owed <= b.spent + Bit(b.exhausted) + Bit(g = "left")
Book == [spent : 0..Budget, exhausted : BOOLEAN, rows : Nat]
Seats == [holder : Holders, ripe : BOOLEAN, cooling : BOOLEAN]
Grants == {"fresh", "open", "left", "revoked"}
Owed(s, n) == Bit(s.holder = "guest") + n

BudgetInv ==
    /\ book \in Book /\ starting \in Nat /\ seat \in Seats /\ grant \in Grants
    /\ Covered(book, Owed(seat, starting), grant)

LEMMA BudgetInitially == BudgetInit => BudgetInv
<1>. SUFFICES ASSUME BudgetInit PROVE BudgetInv
  OBVIOUS
<1>1. PICK h \in Holders \ {"guest"} : seat = [holder |-> h, ripe |-> FALSE, cooling |-> FALSE]
  BY DEF BudgetInit, Empty
<1>2. book \in Book /\ book.rows = 0 /\ book.spent = 0 /\ starting = 0 /\ grant = "fresh"
  BY BudgetAssumption DEF BudgetInit, Book
<1>3. seat \in Seats /\ Owed(seat, starting) = 0
  BY <1>1, <1>2 DEF Seats, Owed, Bit
<1>. QED BY <1>2, <1>3 DEF BudgetInv, Grants, Covered, Bit, Book

\* A reservation covers what it is for; a refusal covers its own row.
LEMMA ReservedCovers ==
    ASSUME NEW b \in Book, NEW owed \in Nat, NEW n \in Nat, NEW g, Covered(b, owed, g)
    PROVE  /\ Reserved(b, n) \in Book
           /\ Covered(Reserved(b, n), owed, g)
           /\ Fits(b, n) => Covered(Reserved(b, n), owed + n, g)
<1>1. CASE Fits(b, n)
  <2>1. b.spent + n \in 0..Budget
    BY <1>1, BudgetAssumption DEF Fits, Book
  <2>2. Reserved(b, n) = [spent |-> b.spent + n, exhausted |-> b.exhausted, rows |-> b.rows]
    BY <1>1 DEF Reserved, Book
  <2>. QED BY <2>1, <2>2 DEF Book, Covered, Bit
<1>2. CASE ~Fits(b, n)
  <2>1. Reserved(b, n) = [spent |-> b.spent, exhausted |-> TRUE, rows |-> b.rows + (IF b.exhausted THEN 0 ELSE 1)]
    BY <1>2 DEF Reserved, Wrote, Book
  <2>. QED BY <1>2, <2>1 DEF Book, Covered, Bit
<1>. QED BY <1>1, <1>2

LEMMA WroteCovers ==
    ASSUME NEW b \in Book, NEW owed \in Nat, NEW n \in Nat, NEW g, Covered(b, owed + n, g)
    PROVE  Wrote(b, n) \in Book /\ Covered(Wrote(b, n), owed, g)
<1>1. Wrote(b, n) = [spent |-> b.spent, exhausted |-> b.exhausted, rows |-> b.rows + n]
  BY DEF Wrote, Book
<1>. QED BY <1>1 DEF Book, Covered, Bit

LEMMA WroteTwice ==
    ASSUME NEW b \in Book, NEW m \in Nat, NEW n \in Nat
    PROVE  Wrote(Wrote(b, m), n) = Wrote(b, m + n)
<1>1. Wrote(b, m) = [spent |-> b.spent, exhausted |-> b.exhausted, rows |-> b.rows + m]
  BY DEF Wrote, Book
<1>2. Wrote([spent |-> b.spent, exhausted |-> b.exhausted, rows |-> b.rows + m], n)
        = [spent |-> b.spent, exhausted |-> b.exhausted, rows |-> b.rows + (m + n)]
  <2>1. b.rows + m + n = b.rows + (m + n)
    BY DEF Book
  <2>. QED BY <2>1 DEF Wrote
<1>3. Wrote(b, m + n) = [spent |-> b.spent, exhausted |-> b.exhausted, rows |-> b.rows + (m + n)]
  BY DEF Wrote, Book
<1>. QED BY <1>1, <1>2, <1>3

LEMMA RecordedCovers ==
    ASSUME NEW b \in Book, NEW owed \in Nat, NEW g, Covered(b, owed, g)
    PROVE  /\ Recorded(b) \in Book /\ Covered(Recorded(b), owed, g)
           /\ \A d \in Denied(b) : d \in Book /\ Covered(d, owed, g)
<1>1. Recorded(b) \in Book /\ Covered(Recorded(b), owed, g)
  <2>1. CASE Fits(b, 1)
    BY <2>1, ReservedCovers, WroteCovers DEF Recorded
  <2>2. CASE ~Fits(b, 1)
    <3>1. Covered(Reserved(b, 1), owed, g) /\ Reserved(b, 1) \in Book /\ owed + 0 = owed
      BY ReservedCovers
    <3>2. Recorded(b) = Wrote(Reserved(b, 1), 0)
      BY <2>2 DEF Recorded
    <3>. QED BY <3>1, <3>2, WroteCovers
  <2>. QED BY <2>1, <2>2
<1>. QED BY <1>1 DEF Denied

\* Looking at the lease: the row it may write is the one its hold owed.
LEMMA SeenCovers ==
    ASSUME NEW b \in Book, NEW s \in Seats, NEW n \in Nat, NEW g \in Grants, Covered(b, Owed(s, n), g)
    PROVE  /\ Seen(s, g) \in Seats /\ Wrote(b, SeenRows(s, g)) \in Book
           /\ Covered(Wrote(b, SeenRows(s, g)), Owed(Seen(s, g), n), g)
<1>1. CASE ~Over(s, g)
  <2>1. Seen(s, g) = s /\ SeenRows(s, g) = 0
    BY <1>1 DEF Seen, SeenRows, Aged
  <2>. QED BY <2>1, WroteCovers DEF Owed, Bit
<1>2. CASE Over(s, g)
  <2>1. Seen(s, g) = [holder |-> "nobody", ripe |-> s.ripe, cooling |-> s.cooling \/ Aged(s, g)] /\ s.holder = "guest"
    BY <1>2 DEF Seen, Seats, Over
  <2>2. Seen(s, g) \in Seats /\ Owed(Seen(s, g), n) = n /\ Owed(s, n) = n + 1
    BY <2>1 DEF Seats, Holders, Owed, Bit, Aged, Over
  <2>3. SeenRows(s, g) \in {0, 1}
    BY DEF SeenRows
  <2>4. Covered(b, n + SeenRows(s, g), g)
    BY <2>2, <2>3 DEF Covered, Book, Bit
  <2>. QED BY <2>2, <2>3, <2>4, WroteCovers
<1>. QED BY <1>1, <1>2

\* A seat and starts that owe no more keep what covers them.
LEMMA OwingLess ==
    ASSUME NEW b \in Book, NEW o \in Nat, NEW p \in Nat, p <= o, NEW g, Covered(b, o, g)
    PROVE  Covered(b, p, g)
  BY DEF Covered, Book, Bit

\* A takeover: what it reserves covers the row it writes, or two, and how its hold will end.
LEMMA TakeoverKeeps == ASSUME BudgetInv, TakesControl PROVE BudgetInv'
<1>. DEFINE s == Seen(seat, grant)
            r == Reserved(book, TakeoverRows)
            paid == Wrote(r, SeenRows(seat, grant))
            got == [s EXCEPT !.holder = "guest"]
            k == IF s.holder = "agent" THEN 2 ELSE 1
            wrote == Wrote(paid, k)
<1>1. /\ book \in Book /\ starting \in Nat /\ seat \in Seats /\ grant \in Grants
      /\ Covered(book, Owed(seat, starting), grant) /\ Owed(seat, starting) \in Nat
  BY DEF BudgetInv, Owed, Bit
<1>2. r \in Book /\ Covered(r, Owed(seat, starting + 3), grant)
  <2>1. r \in Book /\ Covered(r, Owed(seat, starting) + 3, grant)
    BY <1>1, ReservedCovers DEF TakesControl, TakeoverRows
  <2>2. Owed(seat, starting) + 3 = Owed(seat, starting + 3)
    BY <1>1 DEF Owed, Bit
  <2>. QED BY <2>1, <2>2
<1>3. s \in Seats /\ paid \in Book /\ Covered(paid, Owed(s, starting + 3), grant)
  <2>1. starting + 3 \in Nat
    BY <1>1
  <2>. QED BY <1>1, <1>2, <2>1, SeenCovers
<1>4. starting' = starting /\ grant' = grant
  BY DEF TakesControl
<1>5. CASE s.holder = "person"
  <2>1. book' \in Denied(paid) /\ seat' = s
    BY <1>5 DEF TakesControl
  <2>2. Owed(s, starting) \in Nat /\ Owed(s, starting + 3) \in Nat /\ Owed(s, starting) <= Owed(s, starting + 3)
    BY <1>1 DEF Owed, Bit
  <2>3. Covered(paid, Owed(s, starting), grant)
    BY <1>3, <2>2, OwingLess
  <2>. QED BY <1>1, <1>3, <1>4, <2>1, <2>2, <2>3, RecordedCovers DEF BudgetInv
<1>6. CASE s.holder # "person"
  <2>1. seat' = Seen(got, grant) /\ book' = Wrote(paid, k + SeenRows(got, grant))
    BY <1>6 DEF TakesControl
  <2>2. got \in Seats /\ got.holder = "guest" /\ Owed(got, starting) = starting + 1
    BY <1>1, <1>3 DEF Seats, Holders, Owed, Bit
  <2>3. k \in {1, 2} /\ Owed(s, starting + 3) >= starting + 3 /\ Owed(s, starting + 3) \in Nat
    BY <1>1 DEF Owed, Bit
  <2>4. Covered(paid, Owed(got, starting) + k, grant)
    BY <1>1, <1>3, <2>2, <2>3, OwingLess
  <2>5. wrote \in Book /\ Covered(wrote, Owed(got, starting), grant)
    <3>1. paid \in Book /\ k \in Nat /\ Owed(got, starting) \in Nat
      BY <1>1, <1>3, <2>2, <2>3
    <3>. HIDE DEF s, paid, got, k
    <3>. QED BY <2>4, <3>1, WroteCovers
  <2>6. /\ seat' \in Seats /\ Wrote(wrote, SeenRows(got, grant)) \in Book
        /\ Covered(Wrote(wrote, SeenRows(got, grant)), Owed(seat', starting), grant)
    BY <1>1, <2>1, <2>2, <2>5, SeenCovers
  <2>7. book' = Wrote(wrote, SeenRows(got, grant))
    <3>1. paid \in Book /\ k \in Nat /\ SeenRows(got, grant) \in Nat
      BY <1>3, <2>3 DEF SeenRows
    <3>. HIDE DEF s, paid, got, k
    <3>. QED BY <2>1, <3>1, WroteTwice
  <2>. QED BY <1>1, <1>4, <2>6, <2>7 DEF BudgetInv
<1>. QED BY <1>5, <1>6

\* Others, time, and a look move the seat; the guest's other acts pay as they write.
LEMMA BudgetStep == BudgetInv /\ [BudgetNext]_budgetVars => BudgetInv'
<1>. SUFFICES ASSUME BudgetInv, [BudgetNext]_budgetVars PROVE BudgetInv'
  OBVIOUS
<1>. DEFINE s == Seen(seat, grant)
            read == Wrote(book, SeenRows(seat, grant))
<1>1. /\ book \in Book /\ starting \in Nat /\ seat \in Seats /\ grant \in Grants
      /\ Covered(book, Owed(seat, starting), grant) /\ Owed(seat, starting) \in Nat
  BY DEF BudgetInv, Owed, Bit
<1>2. /\ s \in Seats /\ read \in Book /\ Covered(read, Owed(s, starting), grant)
      /\ Owed(s, starting) \in Nat /\ starting <= Owed(s, starting) /\ starting <= Owed(seat, starting)
      /\ Covered(book, starting, grant)
  BY <1>1, SeenCovers, OwingLess DEF Owed, Bit
<1>3. CASE SomebodyLooks
  BY <1>1, <1>2, <1>3 DEF SomebodyLooks, BudgetInv
<1>4. CASE TimePasses
  <2>1. /\ book' = book /\ starting' = starting /\ grant' = grant /\ seat' \in Seats
        /\ seat'.holder = seat.holder \/ seat'.holder = "nobody"
    BY <1>1, <1>4 DEF TimePasses, Seats, Holders
  <2>2. Owed(seat', starting) \in Nat /\ Owed(seat', starting) <= Owed(seat, starting)
    BY <1>1, <2>1 DEF Owed, Bit
  <2>. QED BY <1>1, <2>1, <2>2, OwingLess DEF BudgetInv
<1>5. ASSUME NEW h \in Holders, OthersSit(h) PROVE BudgetInv'
  <2>1. starting' = starting /\ grant' = grant /\ h # "guest"
    BY <1>5 DEF OthersSit
  <2>2. seat' \in Seats /\ seat'.holder = h /\ book' \in {book, read}
    BY <1>1, <1>2, <1>5 DEF OthersSit, Seats, Holders
  <2>3. Owed(seat', starting) = starting
    BY <1>1, <2>1, <2>2 DEF Owed, Bit
  <2>4. Covered(read, starting, grant)
    BY <1>1, <1>2, OwingLess
  <2>. QED BY <1>1, <1>2, <2>1, <2>2, <2>3, <2>4 DEF BudgetInv
<1>6. CASE SignsIn
  <2>1. Covered(book, Owed(seat, starting), "open")
    BY <1>1, <1>6 DEF SignsIn, Covered, Bit
  <2>. QED BY <1>1, <1>6, <2>1, RecordedCovers DEF SignsIn, BudgetInv, Grants
<1>7. CASE TakeRefused
  BY <1>1, <1>7, RecordedCovers, ReservedCovers DEF TakeRefused, TakeoverRows, BudgetInv
<1>8. CASE ReturnsControl
  <2>. DEFINE k == IF s.holder = "guest" THEN 1 ELSE 0
  <2>1. /\ starting' = starting /\ grant' = grant /\ seat' = [s EXCEPT !.holder = "nobody"]
        /\ book' = Wrote(book, SeenRows(seat, grant) + k)
    BY <1>8 DEF ReturnsControl
  <2>2. seat' \in Seats /\ Owed(seat', starting) = starting /\ Owed(s, starting) = starting + k
    BY <1>1, <1>2, <2>1 DEF Seats, Holders, Owed, Bit
  <2>3. k \in Nat /\ book' = Wrote(read, k)
    <3>1. k \in Nat /\ SeenRows(seat, grant) \in Nat
      BY DEF SeenRows
    <3>. HIDE DEF k
    <3>. QED BY <1>1, <2>1, <3>1, WroteTwice
  <2>. QED BY <1>1, <1>2, <2>1, <2>2, <2>3, WroteCovers DEF BudgetInv
<1>9. ASSUME NEW c \in BOOLEAN, AsksTicket(c) PROVE BudgetInv'
  <2>1. starting' = starting /\ grant' = grant
    BY <1>9 DEF AsksTicket
  <2>2. \/ seat' = s /\ (book' = Recorded(read) \/ book' \in Denied(read))
        \/ seat' = seat /\ book' = Recorded(book)
    BY <1>9 DEF AsksTicket
  <2>. QED BY <1>1, <1>2, <2>1, <2>2, RecordedCovers DEF BudgetInv
<1>10. CASE StartBegins
  <2>1. /\ grant' = grant /\ seat' = seat /\ book' = Reserved(book, 1)
        /\ starting' = IF Fits(book, 1) THEN starting + 1 ELSE starting
    BY <1>10 DEF StartBegins
  <2>2. Owed(seat, starting + 1) = Owed(seat, starting) + 1
    BY <1>1 DEF Owed, Bit
  <2>. QED BY <1>1, <2>1, <2>2, ReservedCovers DEF BudgetInv
<1>11. ASSUME NEW yes \in BOOLEAN, StartEnds(yes) PROVE BudgetInv'
  <2>1. /\ grant' = grant /\ seat' = seat /\ starting > 0 /\ starting' = starting - 1
        /\ book' = IF yes THEN Wrote(book, 1) ELSE book
    BY <1>11 DEF StartEnds
  <2>2. starting' \in Nat /\ Owed(seat, starting) = Owed(seat, starting') + 1 /\ Owed(seat, starting') \in Nat
    BY <1>1, <2>1 DEF Owed, Bit
  <2>3. Covered(book, Owed(seat, starting'), grant) /\ Covered(book, Owed(seat, starting') + 1, grant)
    BY <1>1, <2>2, OwingLess
  <2>. QED BY <1>1, <2>1, <2>2, <2>3, WroteCovers DEF BudgetInv
<1>12. CASE AsksElse
  BY <1>1, <1>12, RecordedCovers DEF AsksElse, BudgetInv
<1>13. ASSUME NEW how \in {"left", "revoked"}, Ends(how) PROVE BudgetInv'
  <2>. DEFINE e == Seen(seat, how)
              k == (IF e.holder = "guest" THEN 1 ELSE 0) + 1
  <2>1. /\ grant = "open" /\ grant' = how /\ starting' = starting
        /\ seat' = [e EXCEPT !.holder = IF @ = "guest" THEN "nobody" ELSE @]
        /\ book' = IF how = "left" THEN Wrote(book, k) ELSE book
    BY <1>13 DEF Ends
  <2>2. e \in Seats /\ e.holder # "guest"
    BY <1>1, <2>1 DEF Seen, Over, Seats, Holders, Aged
  <2>3. seat' \in Seats /\ Owed(seat', starting) = starting /\ k = 1
    BY <1>1, <2>1, <2>2 DEF Seats, Holders, Owed, Bit
  <2>4. CASE how = "left"
    <3>1. Covered(book, starting + 1, "left")
      BY <1>1, <1>2, <2>1 DEF Covered, Bit, Book
    <3>. QED BY <1>1, <2>1, <2>3, <2>4, <3>1, WroteCovers DEF BudgetInv, Grants
  <2>5. CASE how = "revoked"
    <3>1. Covered(book, starting, "revoked")
      BY <1>1, <1>2, <2>1 DEF Covered, Bit, Book
    <3>. QED BY <1>1, <2>1, <2>3, <2>5, <3>1 DEF BudgetInv, Grants
  <2>. QED BY <2>4, <2>5
<1>14. CASE UNCHANGED budgetVars
  BY <1>1, <1>14 DEF budgetVars, BudgetInv
<1>. QED BY <1>3, <1>4, <1>5, <1>6, <1>7, <1>8, <1>9, <1>10, <1>11, <1>12, <1>13, <1>14, TakeoverKeeps DEF BudgetNext

\* For every budget and however many starts wait: what a guest's requests, the ends of its holds and its
\* leaving write into the audit log was reserved for, but for the two rows that need no reserve.
THEOREM RecordsFit == BudgetSpec => []RecordsFitBudget
<1>1. BudgetInv => RecordsFitBudget
  <2>. SUFFICES ASSUME BudgetInv PROVE RecordsFitBudget
    OBVIOUS
  <2>1. book \in Book /\ Owed(seat, starting) \in Nat /\ Covered(book, Owed(seat, starting), grant)
    BY DEF BudgetInv, Owed, Bit
  <2>. QED BY <2>1, BudgetAssumption DEF RecordsFitBudget, Covered, Bit, Book
<1>. QED BY <1>1, BudgetInitially, BudgetStep, PTL DEF BudgetSpec

-------------------------------------------------------------------------------
(* GuestPlaces: where a guest's back and forward lead.                     *)

Visits == {h \in [entries : Seq(1..MaxPlaces), at : Nat] : h.at <= Len(h.entries)}
Calls == [do : {"attach", "leave", "look", "read", "go"}, my : 0..MaxAttach, n : Int,
          done : {"no", "ok", "failed"}, got : SUBSET Int]

Queued == 1..Len(asked)
Moves(c) == c.do = "leave" /\ c.my # 0
Arrives(c) == c.do \in {"attach", "look"}
Comes(c) == Moves(c) \/ Arrives(c)

\* An entry the guest must not be led to
Old(e) == e <= OldPlaces /\ e \notin allowed /\ e \notin onScreen

PlacesShape ==
    /\ PlacesTypeOK
    /\ history \in [Rooms -> Visits]
    /\ asked \in Seq(Calls)
    /\ opened >= OldPlaces
    /\ current.session <= epoch
    /\ current.session = 0 => current.tab = NoRoom
    /\ current.session # 0 => current.tab \in {room[current.session], NoRoom}
    /\ \A i \in Queued :
        /\ asked[i].my \in 0..epoch
        /\ asked[i].my = 0 => asked[i].do = "leave"
        /\ asked[i].done # "ok" => asked[i].got = {}
        /\ asked[i].do = "read" => \A e, f \in asked[i].got : e = f

\* Chrome answers in the order asked.
InOrder == \A i, j \in Queued : j < i /\ asked[i].done # "no" => asked[j].done # "no"

\* One wait of one attach is under way, and none of the attach that is streamed.
OneComing ==
    \A i \in Queued :
        Comes(asked[i]) =>
            /\ asked[i].my # current.session
            /\ \A j \in Queued : i # j /\ (Comes(asked[j]) \/ asked[j].do = "read") => asked[j].my # asked[i].my

\* While the latest attach arrives nothing is streamed, and no leaving comes after it.
LatestArrives ==
    \A i \in Queued :
        Arrives(asked[i]) /\ asked[i].my = epoch =>
            /\ current.session = 0
            /\ \A j \in Queued : Moves(asked[j]) => j < i

\* What is left is the session streamed, and it does not come back.
LeftForGood ==
    \A i \in Queued :
        Moves(asked[i]) =>
            /\ asked[i].n \in 1..epoch
            /\ current.session \in {0, asked[i].n}
            /\ asked[i].done # "no" => asked[i].n \notin sessions
            /\ \A j \in Queued :
                /\ Comes(asked[j]) => asked[j].my # asked[i].n
                /\ i < j /\ asked[j].do = "read" /\ asked[j].my = asked[i].n /\ asked[i].done # "no" =>
                        asked[j].got = {}

\* Only what the session streamed reads has an answer.
ReadsOwn ==
    \A i \in Queued :
        asked[i].do = "read" /\ asked[i].my # current.session => asked[i].my \notin sessions /\ asked[i].got = {}

Streamed ==
    \A n \in sessions : n \in 1..epoch /\ room[n] \in OpenRooms /\ On(history[room[n]]) \in onScreen

PriorKnows == \A t \in DOMAIN prior : \A e \in Entries(history[t]) : Old(e) => e \in prior[t]

LookKnows ==
    \A i \in Queued :
        asked[i].do = "look" /\ asked[i].done = "ok" =>
            \A e \in Entries(history[room[asked[i].my]]) : Old(e) => e \in asked[i].got

\* What a reading found is in every snapshot taken before it.
ReadKnows ==
    \A i \in Queued :
        asked[i].do = "read" =>
            \A e \in asked[i].got :
                Old(e) =>
                    /\ room[asked[i].my] \in DOMAIN prior => e \in prior[room[asked[i].my]]
                    /\ \A j \in Queued :
                        /\ j < i /\ asked[j].do = "look" /\ asked[j].done = "ok"
                        /\ room[asked[j].my] = room[asked[i].my]
                        => e \in asked[j].got

GoesOn == \A i \in Queued : asked[i].do = "go" => ~Old(asked[i].n)

QueueInv == InOrder /\ OneComing /\ LatestArrives /\ LeftForGood /\ ReadsOwn
KnowInv == PriorKnows /\ LookKnows /\ ReadKnows /\ GoesOn
PlacesInv == PlacesShape /\ QueueInv /\ Streamed /\ KnowInv

LEMMA OneAsked ==
    ASSUME NEW do \in {"attach", "leave", "look", "read", "go"}, NEW my \in 0..MaxAttach, NEW n \in Int
    PROVE  /\ Asks(do, my, n) \in Calls
           /\ Asks(do, my, n).do = do /\ Asks(do, my, n).my = my /\ Asks(do, my, n).n = n
           /\ Asks(do, my, n).done = "no" /\ Asks(do, my, n).got = {}
BY DEF Asks, Calls

\* The queue with one more command
LEMMA Longer ==
    ASSUME asked \in Seq(Calls), NEW c \in Calls, asked' = Append(asked, c)
    PROVE  /\ asked' \in Seq(Calls)
           /\ Len(asked) \in Nat /\ Queued' = Queued \cup {Len(asked) + 1}
           /\ \A i \in Queued : asked'[i] = asked[i] /\ i < Len(asked) + 1
           /\ asked'[Len(asked) + 1] = c
BY DEF Queued

\* The queue without its first command, and with what follows it
LEMMA Shorter ==
    ASSUME asked \in Seq(Calls), asked # <<>>
    PROVE  /\ Tail(asked) \in Seq(Calls) /\ Len(asked) \in Nat \ {0} /\ Head(asked) = asked[1] /\ 1 \in Queued
           /\ Len(Tail(asked)) = Len(asked) - 1
           /\ \A i \in 1..Len(asked) - 1 : Tail(asked)[i] = asked[i + 1] /\ i + 1 \in Queued
BY DEF Queued

\* What is asked after an answer is heard: the rest, and perhaps one more command c.
LEMMA Onward ==
    ASSUME asked \in Seq(Calls), asked # <<>>, NEW c \in Calls,
           asked' = Tail(asked) \/ asked' = Append(Tail(asked), c)
    PROVE  /\ asked' \in Seq(Calls) /\ Len(asked) \in Nat \ {0} /\ Head(asked) = asked[1] /\ 1 \in Queued
           /\ \A i \in Queued' :
                /\ i \in Nat
                /\ \/ i + 1 \in Queued /\ asked'[i] = asked[i + 1]
                   \/ i = Len(asked) /\ asked'[i] = c /\ asked' = Append(Tail(asked), c)
<1>1. PICK s \in Seq(Calls) : s = Tail(asked)
  BY Shorter
<1>2. Len(s) = Len(asked) - 1 /\ Len(asked) \in Nat \ {0} /\ 1 \in Queued /\ Head(asked) = asked[1]
      /\ \A i \in 1..Len(asked) - 1 : s[i] = asked[i + 1] /\ i + 1 \in Queued
  BY <1>1, Shorter
<1>3. CASE asked' = s
  <2>1. \A i \in Queued' : i \in 1..Len(asked) - 1 /\ i \in Nat
    BY <1>2, <1>3 DEF Queued
  <2>2. \A i \in Queued' : i + 1 \in Queued /\ asked'[i] = asked[i + 1]
    BY <1>2, <1>3, <2>1
  <2>3. asked' \in Seq(Calls)
    BY <1>3
  <2> QED BY <1>2, <2>1, <2>2, <2>3
<1>4. CASE asked' = Append(s, c)
  <2>1. asked' \in Seq(Calls) /\ Len(asked') = Len(asked) /\ asked'[Len(asked)] = c
        /\ \A i \in 1..Len(asked) - 1 : asked'[i] = s[i]
    BY <1>2, <1>4
  <2>2. \A i \in Queued' : i \in Nat /\ (i = Len(asked) \/ i \in 1..Len(asked) - 1)
    BY <1>2, <2>1 DEF Queued
  <2> QED BY <1>1, <1>2, <1>4, <2>1, <2>2
<1> QED BY <1>1, <1>3, <1>4

LEMMA CallParts ==
    ASSUME asked \in Seq(Calls)
    PROVE  /\ Len(asked) \in Nat
           /\ \A i \in Queued : /\ i \in Nat /\ asked[i] \in Calls /\ i >= 1 /\ i <= Len(asked)
                                /\ asked[i].do \in {"attach", "leave", "look", "read", "go"}
                                /\ asked[i].my \in 0..MaxAttach /\ asked[i].n \in Int
                                /\ asked[i].done \in {"no", "ok", "failed"}
                                /\ asked[i].got \in SUBSET Int
<1>1. \A i \in Queued : asked[i] \in Calls /\ i \in Nat /\ i >= 1 /\ i <= Len(asked)
  BY DEF Queued
<1>2. \A c \in Calls : /\ c.do \in {"attach", "leave", "look", "read", "go"}
                       /\ c.my \in 0..MaxAttach /\ c.n \in Int
                       /\ c.done \in {"no", "ok", "failed"} /\ c.got \in SUBSET Int
  BY DEF Calls
<1> QED BY <1>1, <1>2

\* The order and the ownership of what is asked, whatever answer is heard
LEMMA HearingKeepsQueue ==
    ASSUME PlacesShape, QueueInv, asked # <<>>, asked[1].done # "no",
           NEW c \in Calls, asked' = Tail(asked) \/ asked' = Append(Tail(asked), c),
           c.do # "read", c.done = "no", ~Moves(c),
           Comes(c) => Comes(asked[1]) /\ c.my = asked[1].my,
           UNCHANGED <<sessions, epoch>>,
           \/ current'.session = 0 /\ Moves(asked[1])
           \/ current'.session = current.session /\ ~Moves(asked[1])
           \/ /\ current'.session = epoch /\ Arrives(asked[1]) /\ asked[1].my = epoch
              /\ asked' = Tail(asked)
    PROVE  QueueInv'
<1>1. asked \in Seq(Calls) /\ epoch \in Nat \ {0} /\ current.session \in Nat
  BY PlacesAssumption DEF PlacesShape, PlacesTypeOK
<1>2. /\ Len(asked) \in Nat \ {0} /\ 1 \in Queued
      /\ \A i \in Queued' :
            /\ i \in Nat
            /\ \/ i + 1 \in Queued /\ asked'[i] = asked[i + 1]
               \/ i = Len(asked) /\ asked'[i] = c /\ asked' = Append(Tail(asked), c)
  BY <1>1, Onward
<1>3. \A i \in Queued : i \in Nat /\ i <= Len(asked) /\ i >= 1
  BY <1>2 DEF Queued
<1>11. \A i, j \in Queued' : /\ (j < i /\ i + 1 \in Queued) => j + 1 < i + 1 /\ j + 1 \in Queued /\ asked'[j] = asked[j + 1]
                             /\ i # j => i + 1 # j + 1
                             /\ i + 1 \in Queued => i < Len(asked) /\ i + 1 # 1 /\ 1 < i + 1
                             /\ i < j => i + 1 < j + 1
  <2> SUFFICES ASSUME NEW i \in Queued', NEW j \in Queued'
      PROVE  /\ (j < i /\ i + 1 \in Queued) => j + 1 < i + 1 /\ j + 1 \in Queued /\ asked'[j] = asked[j + 1]
             /\ i # j => i + 1 # j + 1
             /\ i + 1 \in Queued => i < Len(asked) /\ i + 1 # 1 /\ 1 < i + 1
             /\ i < j => i + 1 < j + 1
    OBVIOUS
  <2>1. i \in Nat /\ j \in Nat /\ i >= 1 /\ j >= 1
    BY <1>2 DEF Queued
  <2>2. i + 1 \in Queued => i < Len(asked)
    BY <1>3, <1>2, <2>1
  <2>3. (j < i /\ i + 1 \in Queued) => j + 1 \in Queued /\ asked'[j] = asked[j + 1]
    BY <1>2, <2>1, <2>2
  <2> QED BY <2>1, <2>2, <2>3
<1>4. asked' = Tail(asked) => \A i \in Queued' : i + 1 \in Queued /\ asked'[i] = asked[i + 1]
  BY <1>1, Shorter DEF Queued
<1>5. \A i \in Queued : Comes(asked[i]) \/ asked[i].do = "read" => asked[i].my # 0
  BY DEF PlacesShape, Comes, Moves, Arrives
<1>6. InOrder'
  BY <1>2, <1>11 DEF QueueInv, InOrder
<1>7. OneComing'
  <2> SUFFICES ASSUME NEW i \in Queued', Comes(asked'[i])
      PROVE  /\ asked'[i].my # current'.session
             /\ \A j \in Queued' : i # j /\ (Comes(asked'[j]) \/ asked'[j].do = "read") => asked'[j].my # asked'[i].my
    BY DEF OneComing, Comes, Moves, Arrives
  <2>1. CASE i + 1 \in Queued /\ asked'[i] = asked[i + 1]
    <3>1. asked'[i].my # current'.session
      BY <1>2, <1>3, <1>11, <1>5, <2>1 DEF QueueInv, OneComing, Comes
    <3>2. ASSUME NEW j \in Queued', i # j, Comes(asked'[j]) \/ asked'[j].do = "read"
          PROVE  asked'[j].my # asked'[i].my
      <4>1. CASE j + 1 \in Queued /\ asked'[j] = asked[j + 1]
        BY <1>11, <2>1, <3>2, <4>1 DEF QueueInv, OneComing
      <4>2. CASE j = Len(asked) /\ asked'[j] = c
        <5>1. Comes(asked[1]) /\ asked'[j].my = asked[1].my
          BY <3>2, <4>2
        <5>2. 1 # i + 1
          BY <1>11, <2>1
        <5> QED BY <1>2, <2>1, <5>1, <5>2 DEF QueueInv, OneComing
      <4> QED BY <1>2, <4>1, <4>2
    <3> QED BY <3>1, <3>2
  <2>2. CASE i = Len(asked) /\ asked'[i] = c /\ asked' = Append(Tail(asked), c)
    <3>1. asked'[i].my # current'.session
      BY <1>2, <1>3, <1>11, <1>5, <1>4, <2>2 DEF QueueInv, OneComing, Comes
    <3>2. Comes(asked[1]) /\ asked'[i].my = asked[1].my
      BY <2>2
    <3>3. ASSUME NEW j \in Queued', i # j, Comes(asked'[j]) \/ asked'[j].do = "read"
          PROVE  asked'[j].my # asked'[i].my
      <4>1. j + 1 \in Queued /\ asked'[j] = asked[j + 1]
        BY <1>2, <2>2, <3>3
      <4>2. 1 # j + 1
        BY <1>11, <3>3, <4>1
      <4> QED BY <1>2, <3>2, <3>3, <4>1, <4>2 DEF QueueInv, OneComing
    <3> QED BY <3>1, <3>3
  <2> QED BY <1>2, <2>1, <2>2
<1>8. LatestArrives'
  <2> SUFFICES ASSUME NEW i \in Queued', Arrives(asked'[i]), asked'[i].my = epoch
      PROVE  current'.session = 0 /\ \A j \in Queued' : Moves(asked'[j]) => j < i
    BY DEF LatestArrives, Moves, Arrives
  <2>1. CASE i + 1 \in Queued /\ asked'[i] = asked[i + 1]
    <3>1. current'.session = 0
      BY <1>2, <1>3, <1>11, <2>1 DEF QueueInv, OneComing, LatestArrives, Comes
    <3>2. ASSUME NEW j \in Queued', Moves(asked'[j]) PROVE j < i
      <4>1. j + 1 \in Queued /\ asked'[j] = asked[j + 1]
        BY <1>2, <3>2
      <4>2. j + 1 < i + 1
        BY <2>1, <3>2, <4>1 DEF QueueInv, LatestArrives
      <4> QED BY <1>2, <4>2
    <3> QED BY <3>1, <3>2
  <2>2. CASE i = Len(asked) /\ asked'[i] = c /\ asked' = Append(Tail(asked), c)
    <3>1. current'.session = 0
      <4>1. Comes(asked[1]) /\ asked[1].my = epoch
        BY <2>2 DEF Comes
      <4>2. asked' # Tail(asked)
        BY <1>2, <1>3, <1>11, <1>4, <2>2
      <4>3. ~Moves(asked[1]) => current.session = 0
        BY <1>2, <4>1 DEF QueueInv, LatestArrives, Comes
      <4> QED BY <4>2, <4>3
    <3>2. ASSUME NEW j \in Queued', Moves(asked'[j]) PROVE j < i
      <4>1. j + 1 \in Queued
        BY <1>2, <3>2
      <4> QED BY <1>11, <2>2, <4>1
    <3> QED BY <3>1, <3>2
  <2> QED BY <1>2, <2>1, <2>2
<1>9. LeftForGood'
  <2> SUFFICES ASSUME NEW i \in Queued', Moves(asked'[i])
      PROVE  /\ asked'[i].n \in 1..epoch
             /\ current'.session \in {0, asked'[i].n}
             /\ asked'[i].done # "no" => asked'[i].n \notin sessions
             /\ \A j \in Queued' :
                    /\ Comes(asked'[j]) => asked'[j].my # asked'[i].n
                    /\ i < j /\ asked'[j].do = "read" /\ asked'[j].my = asked'[i].n /\ asked'[i].done # "no" =>
                            asked'[j].got = {}
    BY DEF LeftForGood, Comes, Moves, Arrives
  <2>1. i + 1 \in Queued /\ asked'[i] = asked[i + 1] /\ i \in Nat
    BY <1>2
  <2>2. asked'[i].n \in 1..epoch /\ (asked'[i].done # "no" => asked'[i].n \notin sessions)
    BY <2>1 DEF QueueInv, LeftForGood
  <2>3. current'.session \in {0, asked'[i].n}
    BY <1>2, <1>3, <1>11, <2>1 DEF QueueInv, LeftForGood, LatestArrives
  <2>4. \A j \in Queued' : Comes(asked'[j]) => asked'[j].my # asked'[i].n
    BY <1>2, <2>1 DEF QueueInv, LeftForGood
  <2>5. \A j \in Queued' :
            i < j /\ asked'[j].do = "read" /\ asked'[j].my = asked'[i].n /\ asked'[i].done # "no" =>
                asked'[j].got = {}
    <3> SUFFICES ASSUME NEW j \in Queued', i < j, asked'[j].do = "read",
                        asked'[j].my = asked'[i].n, asked'[i].done # "no"
        PROVE  asked'[j].got = {}
      OBVIOUS
    <3>1. j + 1 \in Queued /\ asked'[j] = asked[j + 1] /\ i + 1 < j + 1
      BY <1>2, <1>11
    <3> QED BY <2>1, <3>1 DEF QueueInv, LeftForGood
  <2> QED BY <2>2, <2>3, <2>4, <2>5
<1>10. ReadsOwn'
  <2> SUFFICES ASSUME NEW i \in Queued', asked'[i].do = "read", asked'[i].my # current'.session
      PROVE  asked'[i].my \notin sessions /\ asked'[i].got = {}
    BY DEF ReadsOwn
  <2>1. i + 1 \in Queued /\ asked'[i] = asked[i + 1] /\ i \in Nat
    BY <1>2
  <2>2. CASE asked'[i].my # current.session
    BY <2>1, <2>2 DEF QueueInv, ReadsOwn
  <2>3. CASE asked'[i].my = current.session
    <3>1. asked'[i].my # 0
      BY <1>5, <2>1
    <3>2. Moves(asked[1])
      BY <1>2, <2>3, <3>1 DEF QueueInv, LatestArrives
    <3>3. asked[1].n = asked'[i].my
      BY <1>2, <2>3, <3>1, <3>2 DEF QueueInv, LeftForGood
    <3>4. asked[1].n \notin sessions
      BY <1>2, <3>2 DEF QueueInv, LeftForGood
    <3>5. 1 < i + 1
      BY <1>2, <1>3, <1>11, <2>1 DEF Queued
    <3> QED BY <1>2, <2>1, <3>2, <3>3, <3>4, <3>5 DEF QueueInv, LeftForGood
  <2> QED BY <2>2, <2>3
<1> QED BY <1>6, <1>7, <1>8, <1>9, <1>10 DEF QueueInv

\* What the answers and the snapshots hold, whatever answer is heard
LEMMA HearingKeepsKnowledge ==
    ASSUME PlacesShape, KnowInv, asked # <<>>, asked[1].done # "no",
           NEW c \in Calls, asked' = Tail(asked) \/ asked' = Append(Tail(asked), c),
           c.do # "read", c.done = "no", c.do = "go" => ~Old(c.n),
           UNCHANGED <<history, allowed, room, onScreen>>,
           \/ UNCHANGED prior
           \/ /\ asked[1].do = "look" /\ asked[1].done = "ok"
              /\ prior' = [u \in DOMAIN prior \cup {room[asked[1].my]} |->
                             IF u = room[asked[1].my] THEN asked[1].got ELSE prior[u]]
    PROVE  KnowInv'
<1>1. asked \in Seq(Calls)
  BY DEF PlacesShape
<1>2. /\ Len(asked) \in Nat \ {0} /\ 1 \in Queued
      /\ \A i \in Queued' :
            /\ i \in Nat
            /\ \/ i + 1 \in Queued /\ asked'[i] = asked[i + 1]
               \/ i = Len(asked) /\ asked'[i] = c
  BY <1>1, Onward
<1>3. \A e : Old(e)' <=> Old(e)
  BY DEF Old
<1>4. \A t \in DOMAIN prior' :
        \/ t \in DOMAIN prior /\ prior'[t] = prior[t]
        \/ asked[1].do = "look" /\ asked[1].done = "ok" /\ t = room[asked[1].my] /\ prior'[t] = asked[1].got
  OBVIOUS
<1>5. PriorKnows'
  BY <1>2, <1>3, <1>4 DEF KnowInv, PriorKnows, LookKnows, Entries
<1>6. LookKnows'
  <2>1. LookKnows /\ UNCHANGED <<history, room>>
    BY DEF KnowInv
  <2> SUFFICES ASSUME NEW i \in Queued', asked'[i].do = "look", asked'[i].done = "ok", NEW e \in Entries(history[room[asked'[i].my]]), Old(e)
      PROVE  e \in asked'[i].got
    BY <1>3, <2>1 DEF LookKnows
  <2>2. i + 1 \in Queued /\ asked'[i] = asked[i + 1]
    BY <1>2
  <2> QED BY ONLY <2>1, <2>2, i \in Queued', asked'[i].do = "look", asked'[i].done = "ok",
                  e \in Entries(history[room[asked'[i].my]]), Old(e) DEF LookKnows
<1>7. ReadKnows'
  <2> SUFFICES ASSUME NEW i \in Queued', asked'[i].do = "read", NEW e \in asked'[i].got, Old(e)
      PROVE  /\ room[asked'[i].my] \in DOMAIN prior' => e \in prior'[room[asked'[i].my]]
             /\ \A j \in Queued' : /\ j < i /\ asked'[j].do = "look" /\ asked'[j].done = "ok"
                                   /\ room[asked'[j].my] = room[asked'[i].my]
                                   => e \in asked'[j].got
    BY <1>3 DEF ReadKnows
  <2>1. i + 1 \in Queued /\ asked'[i] = asked[i + 1] /\ i \in Nat /\ i >= 1 /\ 1 < i + 1
    BY <1>2 DEF Queued
  <2>2. /\ room[asked[i + 1].my] \in DOMAIN prior => e \in prior[room[asked[i + 1].my]]
        /\ \A j \in Queued : /\ j < i + 1 /\ asked[j].do = "look" /\ asked[j].done = "ok"
                             /\ room[asked[j].my] = room[asked[i + 1].my]
                             => e \in asked[j].got
    BY <2>1 DEF KnowInv, ReadKnows
  <2>3. room[asked'[i].my] \in DOMAIN prior' => e \in prior'[room[asked'[i].my]]
    BY <1>2, <1>4, <2>1, <2>2
  <2>4. ASSUME NEW j \in Queued', j < i, asked'[j].do = "look", asked'[j].done = "ok",
               room[asked'[j].my] = room[asked'[i].my]
        PROVE  e \in asked'[j].got
    <3>1. j + 1 \in Queued /\ asked'[j] = asked[j + 1] /\ j + 1 < i + 1
      BY <1>2, <2>1, <2>4
    <3> QED BY <2>1, <2>2, <2>4, <3>1
  <2> QED BY <2>3, <2>4
<1>8. GoesOn'
  BY <1>2, <1>3 DEF KnowInv, GoesOn
<1> QED BY <1>5, <1>6, <1>7, <1>8 DEF KnowInv

\* The shape of the queue, whatever answer is heard
LEMMA HearingKeepsShape ==
    ASSUME PlacesShape, asked # <<>>,
           NEW c \in Calls, asked' = Tail(asked) \/ asked' = Append(Tail(asked), c),
           c.my \in 0..epoch, c.my = 0 => c.do = "leave", c.got = {},
           UNCHANGED <<chromeVars, allowed, room, epoch>>,
           DOMAIN prior' \subseteq Rooms,
           \/ UNCHANGED current
           \/ current' = Detached
           \/ current' = [session |-> epoch, tab |-> room[epoch]]
    PROVE  PlacesShape'
<1>1. asked \in Seq(Calls) /\ epoch \in 1..MaxAttach /\ room \in [1..MaxAttach -> Rooms]
      /\ current \in [session : 0..MaxAttach, tab : Rooms \cup {NoRoom}]
  BY DEF PlacesShape, PlacesTypeOK
<1>2. /\ Len(asked) \in Nat \ {0} /\ asked' \in Seq(Calls)
      /\ \A i \in Queued' :
            /\ i \in Nat
            /\ \/ i + 1 \in Queued /\ asked'[i] = asked[i + 1]
               \/ i = Len(asked) /\ asked'[i] = c
  BY <1>1, Onward
<1>3. /\ current' \in [session : 0..MaxAttach, tab : Rooms \cup {NoRoom}]
      /\ current'.session <= epoch
      /\ current'.session = 0 => current'.tab = NoRoom
      /\ current'.session # 0 => current'.tab \in {room[current'.session], NoRoom}
  <2>1. CASE UNCHANGED current
    BY <1>1, <2>1 DEF PlacesShape
  <2>2. CASE current' = Detached
    BY <1>1, <2>2, PlacesAssumption DEF Detached
  <2>3. CASE current' = [session |-> epoch, tab |-> room[epoch]]
    BY <1>1, <2>3, PlacesAssumption
  <2> QED BY <2>1, <2>2, <2>3
<1>4. \A i \in Queued' :
        /\ asked'[i].my \in 0..epoch
        /\ asked'[i].my = 0 => asked'[i].do = "leave"
        /\ asked'[i].done # "ok" => asked'[i].got = {}
        /\ asked'[i].do = "read" => \A e, f \in asked'[i].got : e = f
  BY <1>2 DEF PlacesShape
<1> QED BY <1>1, <1>2, <1>3, <1>4 DEF PlacesShape, PlacesTypeOK, chromeVars

\* Nothing follows the answer heard, or only a step of the history.
LEMMA HearingTheRest ==
    ASSUME PlacesInv, asked # <<>>, asked[1].done # "no", ~Moves(asked[1]),
           NEW c \in Calls, asked' = Tail(asked) \/ asked' = Append(Tail(asked), c),
           c.do = "go", c.my \in 1..epoch, c.done = "no", c.got = {}, ~Old(c.n),
           UNCHANGED <<chromeVars, allowed, viewerVars>>
    PROVE  PlacesInv'
<1>1. /\ UNCHANGED <<history, sessions, opened, onScreen, led>>
      /\ UNCHANGED <<current, room, epoch, prior>> /\ UNCHANGED <<allowed, room, epoch>>
      /\ UNCHANGED chromeVars
  BY DEF chromeVars, viewerVars
<1>2. ~Comes(c) /\ ~Moves(c)
  BY DEF Comes, Moves, Arrives
<1>3. PlacesShape /\ QueueInv /\ KnowInv /\ Streamed /\ DOMAIN prior \subseteq Rooms /\ epoch \in Nat
  BY PlacesAssumption DEF PlacesInv, PlacesShape, PlacesTypeOK
<1>4. QueueInv'
  BY <1>1, <1>2, <1>3, HearingKeepsQueue
<1>5. KnowInv'
  BY <1>1, <1>2, <1>3, HearingKeepsKnowledge
<1>6. PlacesShape'
  BY <1>1, <1>3, HearingKeepsShape
<1>7. Streamed'
  BY <1>1, <1>3 DEF Streamed, OpenRooms
<1> QED BY <1>4, <1>5, <1>6, <1>7 DEF PlacesInv

LEMMA HearsKeeps ==
    ASSUME PlacesInv, Hears
    PROVE  PlacesInv'
<1> DEFINE H == asked[1]
<1>1. asked \in Seq(Calls) /\ asked # <<>> /\ Head(asked) = H /\ 1 \in Queued /\ H \in Calls
  <2>1. asked \in Seq(Calls) /\ asked # <<>>
    BY DEF PlacesInv, PlacesShape, Hears
  <2>2. Head(asked) = asked[1] /\ 1 \in Queued
    BY <2>1, Shorter
  <2> QED BY <2>1, <2>2, CallParts
<1>2. /\ H.do \in {"attach", "leave", "look", "read", "go"} /\ H.my \in 0..epoch /\ H.n \in Int
      /\ H.my = 0 => H.do = "leave"
      /\ H.done \in {"no", "ok", "failed"} /\ H.done # "no"
      /\ epoch \in 1..MaxAttach /\ current.session \in 0..epoch /\ DOMAIN prior \subseteq Rooms
      /\ room \in [1..MaxAttach -> Rooms]
  BY <1>1, CallParts DEF PlacesInv, PlacesShape, PlacesTypeOK, Hears
<1>3. /\ UNCHANGED <<history, sessions, opened, onScreen, led>>
      /\ UNCHANGED <<allowed, room, epoch>>
  BY DEF Hears, chromeVars
<1>4. UNCHANGED chromeVars
  BY <1>3 DEF chromeVars
<1>5. Streamed'
  BY <1>3 DEF PlacesInv, Streamed, OpenRooms
<1>6. \A do \in {"attach", "leave", "look", "read", "go"}, my \in 0..epoch, n \in Int :
        /\ Asks(do, my, n) \in Calls
        /\ Asks(do, my, n).do = do /\ Asks(do, my, n).my = my /\ Asks(do, my, n).n = n
        /\ Asks(do, my, n).done = "no" /\ Asks(do, my, n).got = {}
  BY <1>2, OneAsked, PlacesAssumption
<1>7. \A c \in Calls : Tail(asked) \o <<c>> = Append(Tail(asked), c)
  BY <1>1, Shorter
<1>8. Tail(asked) \o <<>> = Tail(asked)
  BY <1>1, Shorter, ConcatEmptySeq
<1>14. ASSUME asked' = Tail(asked), ~Moves(H), UNCHANGED <<current, prior>>
       PROVE  PlacesInv'
  <2> DEFINE c == Asks("go", 1, OldPlaces + 1)
  <2>1. c \in Calls /\ c.do = "go" /\ c.my = 1 /\ c.n = OldPlaces + 1 /\ c.done = "no" /\ c.got = {}
    BY <1>2, <1>6, PlacesAssumption
  <2>2. ~Old(OldPlaces + 1)
    BY PlacesAssumption DEF Old
  <2>3. 1 \in 1..epoch
    BY <1>2
  <2> HIDE DEF c
  <2> QED BY <1>1, <1>2, <1>3, <1>4, <1>14, <2>1, <2>2, <2>3, HearingTheRest DEF viewerVars
<1>9. CASE H.do = "leave" /\ H.my # 0
  <2>1. current' = Detached /\ UNCHANGED prior /\ asked' = Append(Tail(asked), Asks("attach", H.my, 0))
    BY <1>1, <1>2, <1>6, <1>7, <1>9 DEF Hears
  <2>2. Detached.session = 0
    BY DEF Detached
  <2> DEFINE c == Asks("attach", H.my, 0)
  <2>3. c \in Calls /\ c.do = "attach" /\ c.my = H.my /\ c.done = "no" /\ c.got = {}
    BY <1>2, <1>6
  <2>4. Comes(H) /\ Moves(H) /\ ~Moves(c)
    BY <1>9, <2>3 DEF Comes, Moves
  <2>5. asked' = Append(Tail(asked), c)
    BY <2>1
  <2> HIDE DEF c
  <2>6. QueueInv'
    BY <1>1, <1>2, <1>3, <2>1, <2>2, <2>3, <2>4, <2>5, HearingKeepsQueue DEF PlacesInv
  <2>7. KnowInv'
    BY <1>1, <1>2, <1>3, <2>1, <2>3, <2>5, HearingKeepsKnowledge DEF PlacesInv
  <2>8. PlacesShape'
    BY <1>1, <1>2, <1>3, <1>4, <1>9, <2>1, <2>3, <2>5, HearingKeepsShape DEF PlacesInv
  <2> QED BY <1>5, <2>6, <2>7, <2>8 DEF PlacesInv
<1>10. CASE H.do = "attach" /\ H.done = "ok" /\ room[H.my] \notin DOMAIN prior
  <2> DEFINE c == Asks("look", H.my, 0)
  <2>1. c \in Calls /\ c.do = "look" /\ c.my = H.my /\ c.done = "no" /\ c.got = {}
    BY <1>2, <1>6
  <2>2. UNCHANGED <<current, prior>> /\ asked' = Append(Tail(asked), c)
    BY <1>1, <1>7, <1>10, <2>1 DEF Hears
  <2>3. Comes(H) /\ ~Moves(H) /\ ~Moves(c) /\ H.my # 0
    BY <1>2, <1>10, <2>1 DEF Comes, Moves, Arrives
  <2> HIDE DEF c
  <2>4. QueueInv'
    BY <1>1, <1>2, <1>3, <2>1, <2>2, <2>3, HearingKeepsQueue DEF PlacesInv
  <2>5. KnowInv'
    BY <1>1, <1>2, <1>3, <2>1, <2>2, HearingKeepsKnowledge DEF PlacesInv
  <2>6. PlacesShape'
    BY <1>1, <1>2, <1>3, <1>4, <2>1, <2>2, <2>3, HearingKeepsShape DEF PlacesInv
  <2> QED BY <1>5, <2>4, <2>5, <2>6 DEF PlacesInv
<1>11. CASE H.do = "look" \/ (H.do = "attach" /\ H.done = "ok" /\ room[H.my] \in DOMAIN prior)
  <2> DEFINE c == Asks("leave", 0, H.my)
  <2>1. c \in Calls /\ c.do = "leave" /\ c.my = 0 /\ c.done = "no" /\ c.got = {}
    BY <1>2, <1>6
  <2>2. Settles(H.my)
    BY <1>1, <1>11 DEF Hears
  <2>3. Arrives(H) /\ Comes(H) /\ ~Moves(H) /\ ~Comes(c) /\ ~Moves(c) /\ H.my # 0
    BY <1>2, <1>11, <2>1 DEF Comes, Moves, Arrives
  <2>4. \/ UNCHANGED prior
        \/ /\ H.do = "look" /\ H.done = "ok"
           /\ prior' = [u \in DOMAIN prior \cup {room[H.my]} |-> IF u = room[H.my] THEN H.got ELSE prior[u]]
    <3>1. CASE H.do = "look"
      BY <1>1, <1>2, <3>1 DEF Hears
    <3>2. CASE H.do = "attach" /\ H.done = "ok" /\ room[H.my] \in DOMAIN prior
      BY <1>1, <3>2 DEF Hears
    <3> QED BY <1>11, <3>1, <3>2
  <2>5. DOMAIN prior' \subseteq Rooms
    <3>1. H.my \in 1..MaxAttach
      BY <1>2, <2>3, PlacesAssumption
    <3>2. DOMAIN prior' \subseteq DOMAIN prior \cup {room[H.my]}
      BY <2>4
    <3>3. room[H.my] \in Rooms
      BY <1>2, <3>1
    <3> QED BY <1>2, <3>2, <3>3
  <2>6. \/ H.my = epoch /\ current' = [session |-> epoch, tab |-> room[epoch]] /\ asked' = Tail(asked)
        \/ UNCHANGED current /\ asked' = Append(Tail(asked), c)
    BY <2>2 DEF Settles
  <2>7. [session |-> epoch, tab |-> room[epoch]].session = epoch
    OBVIOUS
  <2> HIDE DEF c
  <2>8. QueueInv'
    BY <1>1, <1>2, <1>3, <2>1, <2>3, <2>6, <2>7, HearingKeepsQueue DEF PlacesInv
  <2>9. KnowInv'
    BY <1>1, <1>2, <1>3, <2>1, <2>4, <2>6, HearingKeepsKnowledge DEF PlacesInv
  <2>10. PlacesShape'
    BY <1>1, <1>2, <1>3, <1>4, <2>1, <2>5, <2>6, HearingKeepsShape DEF PlacesInv
  <2> QED BY <1>5, <2>8, <2>9, <2>10 DEF PlacesInv
<1>12. CASE H.do = "read"
  <2> DEFINE e == CHOOSE x \in H.got : TRUE
  <2> DEFINE c == Asks("go", H.my, e)
  <2> DEFINE goes == \E x \in H.got : ~Refused(x)
  <2>1. UNCHANGED <<current, prior>> /\ asked' = Tail(asked) \o (IF goes THEN <<c>> ELSE <<>>)
    BY <1>1, <1>12 DEF Hears
  <2>2. H.my # 0 /\ ~Moves(H)
    BY <1>2, <1>12 DEF Moves
  <2>3. CASE goes
    <3>1. PICK x \in H.got : ~Refused(x)
      BY <2>3
    <3>2. e = x /\ e \in H.got /\ e \in Int
      BY <1>1, <1>12, CallParts DEF PlacesInv, PlacesShape
    <3>3. c \in Calls /\ c.do = "go" /\ c.my = H.my /\ c.n = x /\ c.done = "no" /\ c.got = {}
      <4>1. \A n \in Int :
                LET a == Asks("go", H.my, n)
                IN  a \in Calls /\ a.do = "go" /\ a.my = H.my /\ a.n = n /\ a.done = "no" /\ a.got = {}
        BY <1>2, <1>6
      <4> HIDE DEF e
      <4> QED BY <3>2, <4>1
    <3>4. H.my = current.session
      BY <1>1, <1>12, <3>1 DEF PlacesInv, QueueInv, ReadsOwn
    <3>5. current.tab \in DOMAIN prior /\ (x \notin prior[current.tab] \/ x \in allowed)
      BY <3>1 DEF Refused
    <3>6. current.tab = room[H.my]
      BY <1>2, <2>2, <3>4, <3>5, PlacesAssumption DEF PlacesInv, PlacesShape
    <3>7. ~Old(x)
      <4>1. Old(x) => x \notin allowed
        BY DEF Old
      <4>2. Old(x) => x \in prior[room[H.my]]
        BY <1>1, <1>12, <3>1, <3>5, <3>6 DEF PlacesInv, KnowInv, ReadKnows
      <4> QED BY <3>5, <3>6, <4>1, <4>2
    <3>8. asked' = Append(Tail(asked), c)
      BY <1>7, <2>1, <2>3, <3>3
    <3>9. c.my \in 1..epoch /\ asked[1].done # "no" /\ ~Moves(asked[1]) /\ UNCHANGED <<chromeVars, allowed, viewerVars>>
      BY <1>1, <1>2, <1>3, <1>4, <2>1, <2>2, <3>3 DEF viewerVars
    <3> HIDE DEF c, e
    <3>10. PlacesInv /\ asked # <<>> /\ asked' = Append(Tail(asked), c)
      BY <1>1, <3>8
    <3> QED BY ONLY <3>3, <3>7, <3>9, <3>10, HearingTheRest
  <2>4. CASE ~goes
    BY <1>8, <1>14, <2>1, <2>2, <2>4
  <2> QED BY <2>3, <2>4
<1>13. CASE H.do \notin {"look", "read"} /\ ~(H.do = "leave" /\ H.my # 0) /\ ~(H.do = "attach" /\ H.done = "ok")
  <2>1. UNCHANGED <<current, prior>> /\ asked' = Tail(asked) \o <<>>
    BY <1>1, <1>13 DEF Hears
  <2>2. ~Moves(H)
    BY <1>13 DEF Moves
  <2> QED BY <1>8, <1>14, <2>1, <2>2
<1> QED BY <1>2, <1>9, <1>10, <1>11, <1>12, <1>13

\* One more command c at the end: whatever it is, except for what it is said to keep
LEMMA AskingKeeps ==
    ASSUME PlacesInv, NEW c \in Calls, asked' = Append(asked, c),
           c.done = "no", c.got = {}, c.do \in {"attach", "leave", "read"},
           UNCHANGED <<chromeVars, allowed, current, prior>>,
           epoch' \in {epoch, epoch + 1}, epoch' \in 1..MaxAttach,
           room' \in [1..MaxAttach -> Rooms], \A n \in 1..epoch : room'[n] = room[n],
           c.my \in 1..epoch',
           Comes(c) => c.my = epoch + 1 /\ epoch' = epoch + 1,
           c.do = "read" => c.my = current.session,
           c.do = "attach" => current.session = 0,
           c.do = "leave" => current.session # 0 /\ c.n = current.session
    PROVE  PlacesInv'
<1>1. asked \in Seq(Calls) /\ epoch \in 1..MaxAttach /\ epoch \in Nat /\ current.session \in 0..epoch
      /\ Len(asked) \in Nat
  BY PlacesAssumption DEF PlacesInv, PlacesShape, PlacesTypeOK
<1> DEFINE l == Len(asked) + 1
<1>2. /\ asked' \in Seq(Calls) /\ Queued' = Queued \cup {l} /\ asked'[l] = c
      /\ \A i \in Queued : asked'[i] = asked[i] /\ i < l
  BY <1>1, Longer
<1>3. \A i \in Queued : /\ i \in Nat /\ asked[i].my \in 0..epoch /\ (asked[i].my = 0 => asked[i].do = "leave")
                        /\ Comes(asked[i]) \/ asked[i].do \in {"read", "look"} => asked[i].my \in 1..epoch
  BY <1>1, CallParts DEF PlacesInv, PlacesShape, Comes, Moves, Arrives
<1>4. l \in Nat /\ l \notin Queued /\ \A i \in Queued : ~(l < i)
  BY <1>1, <1>2 DEF Queued
<1>5. UNCHANGED <<history, sessions, opened, onScreen, led>>
  BY DEF chromeVars
<1> HIDE DEF l
<1>6. PlacesShape'
  <2>1. PlacesTypeOK' /\ UNCHANGED <<history, opened, current>> /\ epoch' >= epoch /\ epoch' \in Nat
    BY <1>1, <1>5 DEF PlacesInv, PlacesShape, PlacesTypeOK
  <2>2. \A i \in Queued' :
            /\ asked'[i].my \in 0..epoch'
            /\ asked'[i].my = 0 => asked'[i].do = "leave"
            /\ asked'[i].done # "ok" => asked'[i].got = {}
            /\ asked'[i].do = "read" => \A e, f \in asked'[i].got : e = f
    <3>1. \A i \in Queued : /\ asked[i].my \in 0..epoch /\ (asked[i].my = 0 => asked[i].do = "leave")
                            /\ (asked[i].done # "ok" => asked[i].got = {})
                            /\ (asked[i].do = "read" => \A e, f \in asked[i].got : e = f)
      BY DEF PlacesInv, PlacesShape
    <3>2. 0..epoch \subseteq 0..epoch' /\ 1..epoch' \subseteq 0..epoch' /\ 0 \notin 1..epoch'
      BY <1>1, <2>1
    <3>4. ASSUME NEW i \in Queued'
          PROVE  /\ asked'[i].my \in 0..epoch'
                 /\ asked'[i].my = 0 => asked'[i].do = "leave"
                 /\ asked'[i].done # "ok" => asked'[i].got = {}
                 /\ asked'[i].do = "read" => \A e, f \in asked'[i].got : e = f
      <4>1. CASE i \in Queued
        <5>1. asked'[i] = asked[i]
          BY <1>2, <4>1
        <5> QED BY <3>1, <3>2, <4>1, <5>1
      <4>2. CASE i = l
        <5>1. asked'[i] = c
          BY <1>2, <4>2
        <5> QED BY <3>2, <5>1
      <4> QED BY <1>2, <4>1, <4>2
    <3> QED BY <3>4
  <2>3. /\ current.session <= epoch'
        /\ current.session = 0 => current.tab = NoRoom
        /\ current.session # 0 => current.tab \in {room'[current.session], NoRoom}
    BY <1>1, <2>1 DEF PlacesInv, PlacesShape
  <2>4. history \in [Rooms -> Visits] /\ opened >= OldPlaces
    BY DEF PlacesInv, PlacesShape
  <2> QED BY <1>2, <2>1, <2>2, <2>3, <2>4 DEF PlacesShape
<1>7. InOrder'
  <2>1. \A i, j \in Queued : j < i /\ asked[i].done # "no" => asked[j].done # "no"
    BY DEF PlacesInv, QueueInv, InOrder
  <2>2. c.done = "no"
    OBVIOUS
  <2> QED BY ONLY <1>2, <1>4, <2>1, <2>2 DEF InOrder
<1>8. OneComing'
  <2> SUFFICES ASSUME NEW i \in Queued', Comes(asked'[i])
      PROVE  /\ asked'[i].my # current.session
             /\ \A j \in Queued' : i # j /\ (Comes(asked'[j]) \/ asked'[j].do = "read") => asked'[j].my # asked'[i].my
    BY DEF OneComing, Comes, Moves, Arrives
  <2>1. CASE i \in Queued
    <3>1. asked'[i] = asked[i] /\ Comes(asked[i]) /\ asked[i].my \in 1..epoch
      BY <1>2, <1>3, <2>1
    <3>2. asked[i].my # current.session
          /\ \A j \in Queued : i # j /\ (Comes(asked[j]) \/ asked[j].do = "read") => asked[j].my # asked[i].my
      BY <2>1, <3>1 DEF PlacesInv, QueueInv, OneComing
    <3>3. Comes(c) \/ c.do = "read" => c.my # asked[i].my
      BY <1>1, <3>1, <3>2
    <3>4. ASSUME NEW j \in Queued', i # j, Comes(asked'[j]) \/ asked'[j].do = "read"
          PROVE  asked'[j].my # asked[i].my
      <4>1. CASE j \in Queued
        BY <1>2, <3>2, <3>4, <4>1
      <4>2. CASE j = l
        BY <1>2, <3>3, <3>4, <4>2
      <4> QED BY <1>2, <4>1, <4>2
    <3> QED BY <3>1, <3>2, <3>4
  <2>2. CASE i = l
    <3>1. c.my = epoch + 1 /\ asked'[i] = c
      BY <1>2, <2>2
    <3>2. ASSUME NEW j \in Queued', i # j, Comes(asked'[j]) \/ asked'[j].do = "read"
          PROVE  asked'[j].my # c.my
      <4>1. j \in Queued /\ asked'[j] = asked[j]
        BY <1>2, <2>2, <3>2
      <4>2. asked[j].my \in 1..epoch
        BY <1>3, <3>2, <4>1
      <4> QED BY <1>1, <3>1, <4>1, <4>2
    <3>3. c.my # current.session
      BY <1>1, <3>1
    <3> QED BY <3>1, <3>2, <3>3
  <2> QED BY <1>2, <2>1, <2>2
<1>9. LatestArrives'
  <2> SUFFICES ASSUME NEW i \in Queued', Arrives(asked'[i]), asked'[i].my = epoch'
      PROVE  current.session = 0 /\ \A j \in Queued' : Moves(asked'[j]) => j < i
    BY DEF LatestArrives, Moves, Arrives
  <2>1. CASE i \in Queued
    <3>1. epoch' = epoch /\ asked'[i] = asked[i]
      <4>1. asked'[i] = asked[i]
        BY <1>2, <2>1
      <4>2. asked[i].my \in 0..epoch
        BY <1>3, <2>1
      <4> QED BY <1>1, <4>1, <4>2
    <3>2. ~Moves(c)
      BY <1>1, <3>1 DEF Comes
    <3> QED BY <1>2, <2>1, <3>1, <3>2 DEF PlacesInv, QueueInv, LatestArrives
  <2>2. CASE i = l
    BY <1>2, <2>2 DEF Moves, Arrives
  <2> QED BY <1>2, <2>1, <2>2
<1>10. LeftForGood'
  <2> SUFFICES ASSUME NEW i \in Queued', Moves(asked'[i])
      PROVE  /\ asked'[i].n \in 1..epoch'
             /\ current.session \in {0, asked'[i].n}
             /\ asked'[i].done # "no" => asked'[i].n \notin sessions
             /\ \A j \in Queued' :
                    /\ Comes(asked'[j]) => asked'[j].my # asked'[i].n
                    /\ i < j /\ asked'[j].do = "read" /\ asked'[j].my = asked'[i].n /\ asked'[i].done # "no" =>
                            asked'[j].got = {}
    BY <1>5 DEF LeftForGood, Comes, Moves, Arrives
  <2>1. CASE i \in Queued
    <3>1. asked'[i] = asked[i]
      BY <1>2, <2>1
    <3>2. asked[i].n \in 1..epoch /\ current.session \in {0, asked[i].n}
          /\ (asked[i].done # "no" => asked[i].n \notin sessions)
      BY <2>1, <3>1 DEF PlacesInv, QueueInv, LeftForGood
    <3>3. ASSUME NEW j \in Queued'
          PROVE  /\ Comes(asked'[j]) => asked'[j].my # asked[i].n
                 /\ i < j /\ asked'[j].do = "read" /\ asked'[j].my = asked[i].n /\ asked[i].done # "no" =>
                        asked'[j].got = {}
      <4>1. CASE j \in Queued
        <5>1. asked'[j] = asked[j]
          BY <1>2, <4>1
        <5> QED BY <2>1, <3>1, <4>1, <5>1 DEF PlacesInv, QueueInv, LeftForGood
      <4>2. CASE j = l
        <5>1. asked'[j] = c
          BY <1>2, <4>2
        <5>2. Comes(c) => c.my # asked[i].n
          BY <1>1, <3>2
        <5> QED BY <5>1, <5>2
      <4> QED BY <1>2, <4>1, <4>2
    <3>4. asked[i].n \in 1..epoch'
      BY <1>1, <3>2
    <3> QED BY <3>1, <3>2, <3>3, <3>4
  <2>2. CASE i = l
    <3>1. asked'[i] = c /\ c.do = "leave" /\ c.n = current.session /\ current.session \in 1..epoch
          /\ c.my = epoch + 1 /\ epoch' = epoch + 1
      <4>1. asked'[i] = c /\ Moves(c)
        BY <1>2, <2>2
      <4>2. c.do = "leave" /\ Comes(c)
        BY <4>1 DEF Moves, Comes
      <4> QED BY <1>1, <4>1, <4>2
    <3>2. ASSUME NEW j \in Queued'
          PROVE  /\ Comes(asked'[j]) => asked'[j].my # c.n
                 /\ ~(i < j)
      <4>1. CASE j \in Queued
        <5>1. asked'[j] = asked[j] /\ ~(i < j)
          BY <1>2, <1>4, <2>2, <4>1
        <5> QED BY <3>1, <4>1, <5>1 DEF PlacesInv, QueueInv, OneComing
      <4>2. CASE j = l
        <5>1. asked'[j] = c
          BY <1>2, <4>2
        <5>3. ~(i < j)
          BY <1>4, <2>2, <4>2
        <5>2. c.my # c.n
          BY <1>1, <3>1
        <5> QED BY <5>1, <5>2, <5>3
      <4> QED BY <1>2, <4>1, <4>2
    <3>3. c.n \in 1..epoch'
      BY <1>1, <3>1
    <3> QED BY <3>1, <3>2, <3>3
  <2> QED BY <1>2, <2>1, <2>2
<1>11. ReadsOwn'
  BY <1>2, <1>5 DEF PlacesInv, QueueInv, ReadsOwn
<1>12. Streamed'
  BY <1>1, <1>5 DEF PlacesInv, Streamed, OpenRooms
<1>13. \A e : Old(e)' <=> Old(e)
  BY <1>5 DEF Old
<1>14. PriorKnows' /\ GoesOn'
  <2>1. PriorKnows'
    BY <1>5, <1>13 DEF PlacesInv, KnowInv, PriorKnows, Entries
  <2>2. GoesOn'
    BY <1>2, <1>13 DEF PlacesInv, KnowInv, GoesOn
  <2> QED BY <2>1, <2>2
<1>15. LookKnows'
  <2> SUFFICES ASSUME NEW i \in Queued', asked'[i].do = "look", asked'[i].done = "ok"
      PROVE  \A e \in Entries(history[room'[asked'[i].my]]) : Old(e) => e \in asked'[i].got
    <3>1. history' = history
      BY ONLY <1>5
    <3> QED BY <1>13, <3>1 DEF LookKnows
  <2>1. i \in Queued /\ asked'[i] = asked[i] /\ room'[asked[i].my] = room[asked[i].my]
    BY <1>2, <1>3
  <2> QED BY <2>1 DEF PlacesInv, KnowInv, LookKnows
<1>16. ReadKnows'
  <2> SUFFICES ASSUME NEW i \in Queued', asked'[i].do = "read", NEW e \in asked'[i].got, Old(e)
      PROVE  /\ room'[asked'[i].my] \in DOMAIN prior => e \in prior[room'[asked'[i].my]]
             /\ \A j \in Queued' : /\ j < i /\ asked'[j].do = "look" /\ asked'[j].done = "ok"
                                   /\ room'[asked'[j].my] = room'[asked'[i].my]
                                   => e \in asked'[j].got
    BY <1>13 DEF ReadKnows
  <2>1. i \in Queued /\ asked'[i] = asked[i] /\ room'[asked[i].my] = room[asked[i].my]
    BY <1>2, <1>3
  <2>2. \A j \in Queued' : j < i /\ asked'[j].do = "look" =>
            j \in Queued /\ asked'[j] = asked[j] /\ room'[asked[j].my] = room[asked[j].my]
    BY <1>2, <1>3
  <2>3. /\ room[asked[i].my] \in DOMAIN prior => e \in prior[room[asked[i].my]]
        /\ \A j \in Queued : /\ j < i /\ asked[j].do = "look" /\ asked[j].done = "ok"
                             /\ room[asked[j].my] = room[asked[i].my]
                             => e \in asked[j].got
    BY <2>1 DEF PlacesInv, KnowInv, ReadKnows
  <2>4. ASSUME NEW j \in Queued', j < i, asked'[j].do = "look", asked'[j].done = "ok",
               room'[asked'[j].my] = room'[asked'[i].my]
        PROVE  e \in asked'[j].got
    <3>1. j \in Queued /\ asked'[j] = asked[j] /\ room'[asked[j].my] = room[asked[j].my]
      BY <2>2, <2>4
    <3> QED BY <2>1, <2>3, <2>4, <3>1
  <2>5. room'[asked'[i].my] \in DOMAIN prior => e \in prior[room'[asked'[i].my]]
    BY <2>1, <2>3
  <2> QED BY <2>4, <2>5
<1> QED BY <1>6, <1>7, <1>8, <1>9, <1>10, <1>11, <1>12, <1>14, <1>15, <1>16
        DEF PlacesInv, QueueInv, KnowInv

LEMMA AttachKeeps ==
    ASSUME PlacesInv, NEW t \in Rooms, Attach(t)
    PROVE  PlacesInv'
<1>1. /\ epoch \in 1..MaxAttach /\ epoch \in Nat /\ epoch < MaxAttach /\ current.session \in 0..epoch
      /\ epoch + 1 \in 1..MaxAttach /\ epoch' = epoch + 1 /\ MaxAttach \in Nat
      /\ room \in [1..MaxAttach -> Rooms] /\ room' = [room EXCEPT ![epoch + 1] = t]
  BY PlacesAssumption DEF PlacesInv, PlacesShape, PlacesTypeOK, Attach
<1>2. room' \in [1..MaxAttach -> Rooms] /\ \A n \in 1..epoch : room'[n] = room[n]
  BY <1>1
<1>3. \A do \in {"attach", "leave"}, n \in Int :
        LET a == Asks(do, epoch + 1, n)
        IN  a \in Calls /\ a.do = do /\ a.my = epoch + 1 /\ a.n = n /\ a.done = "no" /\ a.got = {}
  BY <1>1, OneAsked
<1>4. UNCHANGED <<chromeVars, allowed, current, prior>>
  BY DEF Attach
<1>5. CASE current.session = 0
  <2>1. PICK c \in Calls : /\ c = Asks("attach", epoch + 1, 0) /\ c.do = "attach" /\ c.my = epoch + 1
                           /\ c.done = "no" /\ c.got = {}
    BY <1>3
  <2>2. asked' = Append(asked, c)
    BY <1>5, <2>1 DEF Attach
  <2> QED BY <1>1, <1>2, <1>4, <1>5, <2>1, <2>2, AskingKeeps
<1>6. CASE current.session # 0
  <2>1. PICK c \in Calls : /\ c = Asks("leave", epoch + 1, current.session) /\ c.do = "leave" /\ c.my = epoch + 1
                           /\ c.n = current.session /\ c.done = "no" /\ c.got = {}
    BY <1>1, <1>3
  <2>2. asked' = Append(asked, c)
    BY <1>6, <2>1 DEF Attach
  <2> QED BY <1>1, <1>2, <1>4, <1>6, <2>1, <2>2, AskingKeeps
<1> QED BY <1>5, <1>6

LEMMA HistoryGoKeeps ==
    ASSUME PlacesInv, NEW delta \in {1, -1}, HistoryGo(delta)
    PROVE  PlacesInv'
<1>1. /\ epoch \in 1..MaxAttach /\ epoch \in Nat /\ current.session \in 1..epoch /\ MaxAttach \in Nat
      /\ room \in [1..MaxAttach -> Rooms]
  BY PlacesAssumption DEF PlacesInv, PlacesShape, PlacesTypeOK, HistoryGo
<1>2. UNCHANGED <<chromeVars, allowed, current, prior, room, epoch>>
  BY DEF HistoryGo, viewerVars
<1>3. PICK c \in Calls : /\ c = Asks("read", current.session, delta) /\ c.do = "read" /\ c.my = current.session
                         /\ c.done = "no" /\ c.got = {}
  BY <1>1, OneAsked
<1>4. asked' = Append(asked, c) /\ ~Comes(c)
  BY <1>3 DEF HistoryGo, Comes, Moves, Arrives
<1> QED BY <1>1, <1>2, <1>3, <1>4, AskingKeeps

\* What may change in Chrome: some tab is on another entry, a page is opened, a tab is closed.
ChromeMoves ==
    /\ history' \in [Rooms -> Visits]
    /\ opened' \in 0..MaxPlaces /\ opened' >= opened
    /\ \A t \in Rooms : \A e \in Entries(history'[t]) : e \in Entries(history[t]) \/ ~(e <= OldPlaces)
    /\ onScreen \subseteq onScreen' /\ onScreen' \subseteq 1..MaxPlaces
    /\ UNCHANGED <<allowed, viewerVars>>

LEMMA BecomesMoves ==
    ASSUME PlacesShape, Streamed, NEW t \in OpenRooms, NEW h \in Visits, h.at # 0, Becomes(t, h),
           \A e \in Entries(h) : e \in Entries(history[t]) \/ ~(e <= OldPlaces),
           opened' \in 0..MaxPlaces, opened' >= opened, UNCHANGED <<allowed, sessions, viewerVars>>
    PROVE  ChromeMoves /\ Streamed'
<1>1. /\ t \in Rooms /\ history[t].at # 0 /\ history \in [Rooms -> Visits]
      /\ room \in [1..MaxAttach -> Rooms] /\ sessions \subseteq 1..MaxAttach
      /\ onScreen \subseteq 1..MaxPlaces
  BY DEF PlacesShape, PlacesTypeOK, OpenRooms
<1>2. history' \in [Rooms -> Visits] /\ history'[t] = h /\ \A u \in Rooms \ {t} : history'[u] = history[u]
  BY <1>1 DEF Becomes
<1>3. UNCHANGED <<room, epoch, current, prior>>
  BY DEF viewerVars
<1>4. On(h) \in 1..MaxPlaces
  <2>1. h.entries \in Seq(1..MaxPlaces) /\ h.at \in 1..Len(h.entries)
    BY DEF Visits
  <2> QED BY <2>1, ElementOfSeq DEF On
<1>5. onScreen \subseteq onScreen' /\ onScreen' \subseteq onScreen \cup {On(h)}
      /\ \A n \in sessions : room[n] = t => On(h) \in onScreen'
  BY DEF Becomes
<1>6. \A u \in Rooms : \A e \in Entries(history'[u]) : e \in Entries(history[u]) \/ ~(e <= OldPlaces)
  BY <1>2
<1>7. ChromeMoves
  BY <1>1, <1>2, <1>4, <1>5, <1>6 DEF ChromeMoves
<1>8. Streamed'
  <2> SUFFICES ASSUME NEW n \in sessions
      PROVE  n \in 1..epoch /\ room[n] \in Rooms /\ history'[room[n]].at # 0 /\ On(history'[room[n]]) \in onScreen'
    BY <1>3 DEF Streamed, OpenRooms, On
  <2>1. n \in 1..epoch /\ room[n] \in Rooms /\ history[room[n]].at # 0 /\ On(history[room[n]]) \in onScreen
    BY DEF Streamed, OpenRooms
  <2>2. CASE room[n] = t
    BY <1>2, <1>5, <2>1, <2>2
  <2>3. CASE room[n] # t
    BY <1>2, <1>5, <2>1, <2>3
  <2> QED BY <2>2, <2>3
<1> QED BY <1>7, <1>8

\* What moves in Chrome without an answer
LEMMA MovesKeep ==
    ASSUME PlacesInv, ChromeMoves, Streamed', sessions' \subseteq sessions, UNCHANGED <<asked, led>>
    PROVE  PlacesInv'
<1>1. UNCHANGED <<allowed, room, epoch, current, prior, asked, led, Queued>>
  BY DEF ChromeMoves, viewerVars, Queued
<1>2. \A e : Old(e)' => Old(e) /\ e <= OldPlaces
  BY <1>1 DEF Old, ChromeMoves
<1>3. \A t \in Rooms : \A e \in Entries(history'[t]) : Old(e)' => e \in Entries(history[t]) /\ Old(e)
  BY <1>2 DEF ChromeMoves
<1>4. DOMAIN prior \subseteq Rooms /\ \A i \in Queued : asked[i].do = "look" => room[asked[i].my] \in Rooms
  <2>1. ASSUME NEW i \in Queued, asked[i].do = "look" PROVE asked[i].my \in 1..MaxAttach
    BY <2>1, CallParts, PlacesAssumption DEF PlacesInv, PlacesShape
  <2> QED BY <2>1 DEF PlacesInv, PlacesShape, PlacesTypeOK
<1>5. PlacesShape'
  <2>1. PlacesTypeOK'
    BY <1>1 DEF PlacesInv, PlacesShape, PlacesTypeOK, ChromeMoves
  <2>2. opened' >= OldPlaces
    BY PlacesAssumption DEF PlacesInv, PlacesShape, PlacesTypeOK, ChromeMoves
  <2>3. history' \in [Rooms -> Visits] /\ asked' \in Seq(Calls)
    BY <1>1 DEF PlacesInv, PlacesShape, ChromeMoves
  <2> QED BY <1>1, <2>1, <2>2, <2>3 DEF PlacesInv, PlacesShape
<1>6. InOrder' /\ OneComing' /\ LatestArrives'
  BY <1>1 DEF PlacesInv, QueueInv, InOrder, OneComing, LatestArrives, Comes, Moves, Arrives
<1>7. LeftForGood' /\ ReadsOwn'
  BY <1>1 DEF PlacesInv, QueueInv, LeftForGood, ReadsOwn, Comes, Moves, Arrives
<1>8. PriorKnows'
  BY <1>1, <1>3, <1>4 DEF PlacesInv, KnowInv, PriorKnows
<1>9. LookKnows'
  BY <1>1, <1>3, <1>4 DEF PlacesInv, KnowInv, LookKnows
<1>10. ReadKnows' /\ GoesOn'
  BY <1>1, <1>2 DEF PlacesInv, KnowInv, ReadKnows, GoesOn
<1> QED BY <1>5, <1>6, <1>7, <1>8, <1>9, <1>10 DEF PlacesInv, QueueInv, KnowInv

LEMMA OpensPageKeeps ==
    ASSUME PlacesInv, NEW t \in Rooms, OpensPage(t)
    PROVE  PlacesInv'
<1>1. PICK h \in Visits : h = history[t]
  BY DEF PlacesInv, PlacesShape
<1>2. h.entries \in Seq(1..MaxPlaces) /\ h.at \in Nat /\ h.at <= Len(h.entries) /\ h.at # 0 /\ t \in OpenRooms
      /\ opened \in Nat /\ opened >= OldPlaces /\ opened + 1 \in 1..MaxPlaces /\ MaxPlaces \in Nat /\ OldPlaces \in Nat
  <2>1. h.entries \in Seq(1..MaxPlaces) /\ h.at \in Nat /\ h.at <= Len(h.entries)
    BY DEF Visits
  <2>2. h.at # 0 /\ t \in OpenRooms /\ opened < MaxPlaces
    BY <1>1 DEF OpensPage, OpenRooms
  <2>3. MaxPlaces \in Nat /\ OldPlaces \in Nat
    BY PlacesAssumption
  <2>4. opened \in 0..MaxPlaces /\ opened >= OldPlaces
    BY DEF PlacesInv, PlacesShape, PlacesTypeOK
  <2> QED BY <2>1, <2>2, <2>3, <2>4
<1>3. SubSeq(h.entries, 1, h.at) \in Seq(1..MaxPlaces) /\ Len(SubSeq(h.entries, 1, h.at)) = h.at
      /\ \A i \in 1..h.at : SubSeq(h.entries, 1, h.at)[i] = h.entries[i]
  BY <1>2, SubSeqProperties
<1>4. PICK s \in Seq(1..MaxPlaces) : s = SubSeq(h.entries, 1, h.at) /\ Len(s) = h.at /\ \A i \in 1..h.at : s[i] = h.entries[i]
  BY <1>3
<1>11. Append(s, opened + 1) \in Seq(1..MaxPlaces) /\ Len(Append(s, opened + 1)) = h.at + 1
       /\ \A i \in 1..h.at + 1 : Append(s, opened + 1)[i] = IF i = h.at + 1 THEN opened + 1 ELSE s[i]
  BY <1>2, <1>4
<1>5. PICK g \in Visits : g = [entries |-> Append(s, opened + 1), at |-> h.at + 1]
  <2> DEFINE g == [entries |-> Append(s, opened + 1), at |-> h.at + 1]
  <2>1. g.entries = Append(s, opened + 1) /\ g.at = h.at + 1
    OBVIOUS
  <2>2. g \in [entries : Seq(1..MaxPlaces), at : Nat]
    BY <1>2, <1>11
  <2>3. g.at <= Len(g.entries)
    BY <1>2, <1>11, <2>1
  <2> QED BY <2>2, <2>3 DEF Visits
<1>6. \A e \in Entries(g) : e \in Entries(history[t]) \/ ~(e <= OldPlaces)
  <2> SUFFICES ASSUME NEW i \in 1..h.at + 1, g.entries[i] <= OldPlaces
      PROVE  g.entries[i] \in Entries(history[t])
    BY <1>5, <1>11 DEF Entries
  <2>1. i # h.at + 1
    BY <1>2, <1>5, <1>11
  <2>2. i \in 1..h.at /\ i \in 1..Len(h.entries) /\ g.entries[i] = h.entries[i]
    BY <1>2, <1>4, <1>5, <1>11, <2>1
  <2> QED BY <1>1, <2>2 DEF Entries
<1>7. Becomes(t, g) /\ g.at # 0
  BY <1>1, <1>2, <1>4, <1>5 DEF OpensPage
<1>8. opened' = opened + 1 /\ UNCHANGED <<sessions, allowed, asked, led, viewerVars>>
  BY DEF OpensPage
<1>9. opened' \in 0..MaxPlaces /\ opened' >= opened
  BY <1>2, <1>8
<1>10. ChromeMoves /\ Streamed'
  BY <1>2, <1>6, <1>7, <1>8, <1>9, BecomesMoves DEF PlacesInv
<1> QED BY <1>8, <1>10, MovesKeep

LEMMA AgentGoesKeeps ==
    ASSUME PlacesInv, NEW t \in Rooms, AgentGoes(t)
    PROVE  PlacesInv'
<1>1. PICK h \in Visits : h = history[t]
  BY DEF PlacesInv, PlacesShape
<1>2. PICK k \in 1..Len(h.entries) \ {h.at} : Becomes(t, [h EXCEPT !.at = k])
  BY <1>1 DEF AgentGoes
<1>3. PICK g \in Visits : g = [h EXCEPT !.at = k] /\ g.at # 0 /\ Entries(g) = Entries(h)
  BY <1>2 DEF Visits, Entries
<1>4. t \in OpenRooms /\ UNCHANGED <<opened, sessions, allowed, asked, led, viewerVars>>
  BY DEF AgentGoes
<1>5. opened' \in 0..MaxPlaces /\ opened' >= opened
  BY <1>4 DEF PlacesInv, PlacesShape, PlacesTypeOK
<1>6. ChromeMoves /\ Streamed'
  BY <1>1, <1>2, <1>3, <1>4, <1>5, BecomesMoves DEF PlacesInv
<1> QED BY <1>4, <1>6, MovesKeep

LEMMA RoomShutsKeeps ==
    ASSUME PlacesInv, NEW t \in Rooms, RoomShuts(t)
    PROVE  PlacesInv'
<1>1. history \in [Rooms -> Visits] /\ opened \in 0..MaxPlaces /\ onScreen \subseteq 1..MaxPlaces
  BY DEF PlacesInv, PlacesShape, PlacesTypeOK
<1>2. Shut \in Visits /\ Entries(Shut) = {}
  BY DEF Shut, Visits, Entries
<1>3. history' \in [Rooms -> Visits] /\ history'[t] = Shut /\ \A u \in Rooms \ {t} : history'[u] = history[u]
  BY <1>1, <1>2 DEF RoomShuts
<1>4. UNCHANGED <<opened, allowed, asked, onScreen, led, viewerVars>> /\ sessions' = {n \in sessions : room[n] # t}
  BY DEF RoomShuts
<1>5. \A u \in Rooms : \A e \in Entries(history'[u]) : e \in Entries(history[u]) \/ ~(e <= OldPlaces)
  BY <1>2, <1>3
<1>6. ChromeMoves
  BY <1>1, <1>3, <1>4, <1>5 DEF ChromeMoves
<1>7. Streamed'
  BY <1>3, <1>4 DEF PlacesInv, Streamed, OpenRooms, On, viewerVars
<1> QED BY <1>4, <1>6, <1>7, MovesKeep

LEMMA LosesTabKeeps ==
    ASSUME PlacesInv, LosesTab
    PROVE  PlacesInv'
<1>1. UNCHANGED <<history, sessions, opened, onScreen, led, allowed, asked, room, epoch, prior>>
      /\ current' = [current EXCEPT !.tab = NoRoom]
  BY DEF LosesTab, chromeVars
<1>2. current \in [session : 0..MaxAttach, tab : Rooms \cup {NoRoom}]
  BY DEF PlacesInv, PlacesShape, PlacesTypeOK
<1>3. current'.session = current.session /\ current'.tab = NoRoom
      /\ current' \in [session : 0..MaxAttach, tab : Rooms \cup {NoRoom}]
  BY <1>1, <1>2
<1>4. PlacesShape'
  BY <1>1, <1>3 DEF PlacesInv, PlacesShape, PlacesTypeOK, Queued
<1>5. QueueInv'
  BY <1>1, <1>3 DEF PlacesInv, QueueInv, InOrder, OneComing, LatestArrives, LeftForGood, ReadsOwn, Queued,
                    Comes, Moves, Arrives
<1>6. Streamed' /\ KnowInv'
  BY <1>1 DEF PlacesInv, Streamed, OpenRooms, On, KnowInv, PriorKnows, LookKnows, ReadKnows, GoesOn, Old,
              Entries, Queued
<1> QED BY <1>4, <1>5, <1>6 DEF PlacesInv

\* The answer to command i
LEMMA Answered ==
    ASSUME asked \in Seq(Calls), NEW i \in Queued, NEW ok \in BOOLEAN, NEW got \in SUBSET Int, Answers(i, ok, got)
    PROVE  /\ asked' \in Seq(Calls) /\ Queued' = Queued
           /\ asked'[i].do = asked[i].do /\ asked'[i].my = asked[i].my /\ asked'[i].n = asked[i].n
           /\ asked'[i].done = (IF ok THEN "ok" ELSE "failed") /\ asked'[i].got = got
           /\ \A j \in Queued : j # i => asked'[j] = asked[j]
<1>1. PICK c \in Calls : c = asked[i]
  BY CallParts
<1> DEFINE d == [c EXCEPT !.done = IF ok THEN "ok" ELSE "failed", !.got = got]
<1>2. d \in Calls
  BY DEF Calls
<1>3. /\ d.do = c.do /\ d.my = c.my /\ d.n = c.n
      /\ d.done = (IF ok THEN "ok" ELSE "failed") /\ d.got = got
  BY DEF Calls
<1>4. asked' = [asked EXCEPT ![i] = d]
  BY <1>1 DEF Answers
<1> HIDE DEF d
<1> QED BY <1>1, <1>2, <1>3, <1>4 DEF Queued

LEMMA AnsweringKeepsQueue ==
    ASSUME PlacesShape, QueueInv, NEW i \in Queued, NEW ok \in BOOLEAN, NEW got \in SUBSET Int, Answers(i, ok, got),
           asked[i].done = "no", \A j \in Queued : j < i => asked[j].done # "no",
           \A n \in sessions' : n \in sessions \/ (asked[i].do = "attach" /\ n = asked[i].my),
           Moves(asked[i]) => asked[i].n \notin sessions',
           asked[i].do = "read" /\ got # {} => asked[i].my \in sessions,
           UNCHANGED <<epoch, current>>
    PROVE  QueueInv'
<1>1. asked \in Seq(Calls)
  BY DEF PlacesShape
<1>2. /\ Queued' = Queued
      /\ \A j \in Queued : asked'[j].do = asked[j].do /\ asked'[j].my = asked[j].my /\ asked'[j].n = asked[j].n
      /\ asked'[i].done # "no" /\ asked'[i].got = got
      /\ \A j \in Queued : j # i => asked'[j].done = asked[j].done /\ asked'[j].got = asked[j].got
  BY <1>1, Answered
<1>3. \A j \in Queued : /\ Moves(asked'[j]) <=> Moves(asked[j])
                        /\ Comes(asked'[j]) <=> Comes(asked[j])
                        /\ Arrives(asked'[j]) <=> Arrives(asked[j])
  BY <1>2 DEF Comes, Moves, Arrives
<1>4. \A j \in Queued : j \in Nat
  BY <1>1, CallParts
<1>5. \A j \in Queued : i < j => asked[j].done = "no" /\ asked[j].got = {}
  BY DEF PlacesShape, QueueInv, InOrder
<1>6. InOrder'
  BY <1>2, <1>4, <1>5 DEF QueueInv, InOrder
<1>7. OneComing'
  BY <1>2, <1>3 DEF QueueInv, OneComing
<1>8. LatestArrives'
  BY <1>2, <1>3 DEF QueueInv, LatestArrives
<1>9. asked[i].do = "attach" => Comes(asked[i])
  BY DEF Comes, Arrives
<1>10. LeftForGood'
  <2> SUFFICES ASSUME NEW k \in Queued, Moves(asked[k])
      PROVE  /\ asked'[k].n \in 1..epoch
             /\ current.session \in {0, asked'[k].n}
             /\ asked'[k].done # "no" => asked'[k].n \notin sessions'
             /\ \A j \in Queued :
                    /\ Comes(asked'[j]) => asked'[j].my # asked'[k].n
                    /\ k < j /\ asked'[j].do = "read" /\ asked'[j].my = asked'[k].n /\ asked'[k].done # "no" =>
                            asked'[j].got = {}
    BY <1>2, <1>3 DEF LeftForGood, Moves, Comes, Arrives
  <2>1. /\ asked[k].n \in 1..epoch
        /\ current.session \in {0, asked[k].n}
        /\ asked[k].done # "no" => asked[k].n \notin sessions
        /\ \A j \in Queued :
                /\ Comes(asked[j]) => asked[j].my # asked[k].n
                /\ k < j /\ asked[j].do = "read" /\ asked[j].my = asked[k].n /\ asked[k].done # "no" =>
                        asked[j].got = {}
    BY DEF QueueInv, LeftForGood
  <2>2. asked'[k].done # "no" => asked[k].n \notin sessions'
    BY <1>2, <1>9, <2>1
  <2>3. ASSUME NEW j \in Queued, k < j, asked[j].do = "read", asked[j].my = asked[k].n, asked'[k].done # "no"
        PROVE  asked'[j].got = {}
    <3>1. CASE k = i
      BY <1>2, <1>4, <1>5, <2>3, <3>1
    <3>2. CASE k # i /\ j = i
      BY <1>2, <2>1, <2>3, <3>2
    <3>3. CASE k # i /\ j # i
      BY <1>2, <2>1, <2>3, <3>3
    <3> QED BY <3>1, <3>2, <3>3
  <2> QED BY <1>2, <1>3, <2>1, <2>2, <2>3
<1>11. ReadsOwn'
  <2> SUFFICES ASSUME NEW j \in Queued, asked[j].do = "read", asked[j].my # current.session
      PROVE  asked[j].my \notin sessions' /\ asked'[j].got = {}
    BY <1>2 DEF ReadsOwn
  <2>1. asked[j].my \notin sessions /\ asked[j].got = {}
    BY DEF QueueInv, ReadsOwn
  <2>2. asked[i].do = "attach" => asked[j].my # asked[i].my
    BY <1>9 DEF QueueInv, OneComing
  <2> QED BY <1>2, <2>1, <2>2
<1> QED BY <1>6, <1>7, <1>8, <1>10, <1>11 DEF QueueInv

LEMMA AnsweringKeepsKnowledge ==
    ASSUME PlacesInv, NEW i \in Queued, NEW ok \in BOOLEAN, NEW got \in SUBSET Int, Answers(i, ok, got),
           asked[i].done = "no", ChromeMoves,
           asked[i].do = "look" /\ ok =>
                \A e \in Entries(history'[room[asked[i].my]]) : Old(e)' => e \in got,
           asked[i].do = "read" => got \subseteq Entries(history[room[asked[i].my]])
    PROVE  KnowInv'
<1>1. asked \in Seq(Calls)
  BY DEF PlacesInv, PlacesShape
<1>2. /\ Queued' = Queued
      /\ \A j \in Queued : asked'[j].do = asked[j].do /\ asked'[j].my = asked[j].my /\ asked'[j].n = asked[j].n
      /\ asked'[i].done = (IF ok THEN "ok" ELSE "failed") /\ asked'[i].got = got
      /\ \A j \in Queued : j # i => asked'[j].done = asked[j].done /\ asked'[j].got = asked[j].got
  BY <1>1, Answered
<1>3. UNCHANGED <<allowed, room, epoch, current, prior>>
  BY DEF ChromeMoves, viewerVars
<1>4. \A e : Old(e)' => Old(e) /\ e <= OldPlaces
  BY <1>3 DEF Old, ChromeMoves
<1>5. \A t \in Rooms : \A e \in Entries(history'[t]) : Old(e)' => e \in Entries(history[t]) /\ Old(e)
  BY <1>4 DEF ChromeMoves
<1>6. DOMAIN prior \subseteq Rooms
      /\ \A j \in Queued : asked[j].do \in {"look", "read"} => room[asked[j].my] \in Rooms
  <2>1. ASSUME NEW j \in Queued, asked[j].do \in {"look", "read"} PROVE asked[j].my \in 1..MaxAttach
    BY <2>1, CallParts, PlacesAssumption DEF PlacesInv, PlacesShape
  <2> QED BY <2>1 DEF PlacesInv, PlacesShape, PlacesTypeOK
<1>7. \A j \in Queued : i < j => asked[j].got = {}
  BY DEF PlacesInv, PlacesShape, QueueInv, InOrder
<1>8. PriorKnows'
  BY <1>3, <1>5, <1>6 DEF PlacesInv, KnowInv, PriorKnows
<1>9. LookKnows'
  <2> SUFFICES ASSUME NEW j \in Queued, asked[j].do = "look", asked'[j].done = "ok",
                      NEW e \in Entries(history'[room[asked[j].my]]), Old(e)'
      PROVE  e \in asked'[j].got
    BY <1>2, <1>3 DEF LookKnows
  <2>1. CASE j = i
    BY <1>2, <2>1
  <2>2. CASE j # i
    BY <1>2, <1>5, <1>6, <2>2 DEF PlacesInv, KnowInv, LookKnows
  <2> QED BY <2>1, <2>2
<1>10. ReadKnows'
  <2> SUFFICES ASSUME NEW j \in Queued, asked[j].do = "read", NEW e \in asked'[j].got, Old(e)'
      PROVE  /\ room[asked[j].my] \in DOMAIN prior => e \in prior[room[asked[j].my]]
             /\ \A k \in Queued : /\ k < j /\ asked[k].do = "look" /\ asked'[k].done = "ok"
                                  /\ room[asked[k].my] = room[asked[j].my]
                                  => e \in asked'[k].got
    BY <1>2, <1>3 DEF ReadKnows
  <2>1. Old(e)
    BY <1>4
  <2>2. CASE j = i
    <3>1. e \in Entries(history[room[asked[i].my]])
      BY <1>2, <2>2
    <3>2. room[asked[j].my] \in DOMAIN prior => e \in prior[room[asked[j].my]]
      BY <2>1, <2>2, <3>1 DEF PlacesInv, KnowInv, PriorKnows
    <3>3. ASSUME NEW k \in Queued, k < j, asked[k].do = "look", asked'[k].done = "ok",
                 room[asked[k].my] = room[asked[j].my]
          PROVE  e \in asked'[k].got
      <4>1. k # i
        BY <2>2, <3>3
      <4> QED BY <1>2, <2>1, <2>2, <3>1, <3>3, <4>1 DEF PlacesInv, KnowInv, LookKnows
    <3> QED BY <3>2, <3>3
  <2>3. CASE j # i
    <3>1. e \in asked[j].got
      BY <1>2, <2>3
    <3>2. ~(i < j)
      BY <1>7, <3>1
    <3>3. /\ room[asked[j].my] \in DOMAIN prior => e \in prior[room[asked[j].my]]
          /\ \A k \in Queued : /\ k < j /\ asked[k].do = "look" /\ asked[k].done = "ok"
                               /\ room[asked[k].my] = room[asked[j].my]
                               => e \in asked[k].got
      BY <2>1, <3>1 DEF PlacesInv, KnowInv, ReadKnows
    <3> QED BY <1>2, <3>2, <3>3
  <2> QED BY <2>2, <2>3
<1>11. GoesOn'
  BY <1>2, <1>4 DEF PlacesInv, KnowInv, GoesOn
<1> QED BY <1>8, <1>9, <1>10, <1>11 DEF KnowInv

\* Chrome does command i, or fails at it.
LEMMA AnsweringKeeps ==
    ASSUME PlacesInv, NEW i \in Queued, NEW ok \in BOOLEAN, NEW got \in SUBSET Int, Answers(i, ok, got),
           asked[i].done = "no", \A j \in Queued : j < i => asked[j].done # "no",
           ChromeMoves, Streamed',
           \A n \in sessions' : n \in sessions \/ (asked[i].do = "attach" /\ n = asked[i].my),
           Moves(asked[i]) => asked[i].n \notin sessions',
           asked[i].do = "read" /\ got # {} => asked[i].my \in sessions,
           ~ok => got = {},
           asked[i].do = "look" /\ ok =>
                \A e \in Entries(history'[room[asked[i].my]]) : Old(e)' => e \in got,
           asked[i].do = "read" =>
                got \subseteq Entries(history[room[asked[i].my]]) /\ \A e, f \in got : e = f,
           led' \subseteq 1..MaxPlaces
    PROVE  PlacesInv'
<1>1. UNCHANGED <<allowed, room, epoch, current, prior>> /\ asked \in Seq(Calls)
  BY DEF ChromeMoves, viewerVars, PlacesInv, PlacesShape
<1>2. QueueInv' /\ KnowInv'
  BY <1>1, AnsweringKeepsQueue, AnsweringKeepsKnowledge DEF PlacesInv
<1>3. PlacesTypeOK'
  <2>1. sessions' \subseteq 1..MaxAttach
    <3>1. asked[i].do = "attach" => asked[i].my \in 1..MaxAttach
      BY <1>1, CallParts, PlacesAssumption DEF PlacesInv, PlacesShape
    <3> QED BY <3>1 DEF PlacesInv, PlacesShape, PlacesTypeOK
  <2> QED BY <1>1, <2>1 DEF PlacesInv, PlacesShape, PlacesTypeOK, ChromeMoves
<1>4. opened' >= OldPlaces
  BY PlacesAssumption DEF PlacesInv, PlacesShape, PlacesTypeOK, ChromeMoves
<1>5. /\ Queued' = Queued /\ asked' \in Seq(Calls)
      /\ \A j \in Queued :
            /\ asked'[j].my \in 0..epoch
            /\ asked'[j].my = 0 => asked'[j].do = "leave"
            /\ asked'[j].done # "ok" => asked'[j].got = {}
            /\ asked'[j].do = "read" => \A e, f \in asked'[j].got : e = f
  <2>1. /\ Queued' = Queued /\ asked' \in Seq(Calls)
        /\ asked'[i].do = asked[i].do /\ asked'[i].my = asked[i].my
        /\ asked'[i].done = (IF ok THEN "ok" ELSE "failed") /\ asked'[i].got = got
        /\ \A j \in Queued : j # i => asked'[j] = asked[j]
    BY <1>1, Answered
  <2>2. ASSUME NEW j \in Queued
        PROVE  /\ asked'[j].my \in 0..epoch
               /\ asked'[j].my = 0 => asked'[j].do = "leave"
               /\ asked'[j].done # "ok" => asked'[j].got = {}
               /\ asked'[j].do = "read" => \A e, f \in asked'[j].got : e = f
    <3>1. CASE j = i
      BY <2>1, <3>1 DEF PlacesInv, PlacesShape
    <3>2. CASE j # i
      BY <2>1, <3>2 DEF PlacesInv, PlacesShape
    <3> QED BY <3>1, <3>2
  <2> QED BY <2>1, <2>2
<1>6. PlacesShape'
  BY <1>1, <1>3, <1>4, <1>5 DEF PlacesInv, PlacesShape, ChromeMoves
<1> QED BY <1>2, <1>6 DEF PlacesInv

LEMMA ExecutesKeeps ==
    ASSUME PlacesInv, Executes
    PROVE  PlacesInv'
<1>1. PICK i \in Queued :
        LET c == asked[i]
            h == history[room[c.my]]
        IN  /\ c.done = "no" /\ \A j \in 1..i - 1 : asked[j].done # "no"
            /\ \/ /\ c.do = "leave" /\ sessions' = sessions \ {c.n} /\ Answers(i, TRUE, {})
                  /\ UNCHANGED <<history, onScreen, led>>
               \/ /\ c.do = "attach" /\ room[c.my] \in OpenRooms /\ sessions' = sessions \cup {c.my}
                  /\ onScreen' = onScreen \cup {On(h)} /\ Answers(i, TRUE, {}) /\ UNCHANGED <<history, led>>
               \/ /\ c.do = "look" /\ c.my \in sessions /\ Answers(i, TRUE, Entries(h) \ {On(h)})
                  /\ UNCHANGED <<history, sessions, onScreen, led>>
               \/ /\ c.do = "read" /\ c.my \in sessions
                  /\ Answers(i, TRUE, {h.entries[k] : k \in {h.at + c.n} \cap 1..Len(h.entries)})
                  /\ UNCHANGED <<history, sessions, onScreen, led>>
               \/ /\ c.do = "go" /\ c.my \in sessions /\ Answers(i, TRUE, {}) /\ led' = led \cup {c.n}
                  /\ \E k \in 1..Len(h.entries) : h.entries[k] = c.n /\ Becomes(room[c.my], [h EXCEPT !.at = k])
                  /\ UNCHANGED sessions
               \/ /\ c.do # "leave" /\ Answers(i, FALSE, {})
                  /\ UNCHANGED <<history, sessions, onScreen, led>>
            /\ UNCHANGED <<opened, allowed, viewerVars>>
  BY DEF Executes, Queued
<1> DEFINE c == asked[i]
<1> DEFINE h == history[room[c.my]]
<1>2. /\ asked \in Seq(Calls) /\ history \in [Rooms -> Visits] /\ opened \in 0..MaxPlaces /\ epoch \in 1..MaxAttach
      /\ room \in [1..MaxAttach -> Rooms] /\ onScreen \cup led \subseteq 1..MaxPlaces /\ sessions \subseteq 1..MaxAttach
  BY DEF PlacesInv, PlacesShape, PlacesTypeOK
<1>3. c.done = "no" /\ UNCHANGED <<opened, allowed, viewerVars>> /\ UNCHANGED <<room, epoch, current, prior>>
  BY <1>1 DEF viewerVars
<1>4. \A j \in Queued : j < i => asked[j].done # "no"
  <2>1. \A j \in Queued : j < i => j \in 1..i - 1
    BY <1>2, CallParts
  <2> QED BY <1>1, <2>1
<1>5. c.do # "leave" => c.my \in 1..epoch /\ c.my \in 1..MaxAttach /\ room[c.my] \in Rooms /\ h \in Visits
                        /\ h.entries \in Seq(1..MaxPlaces)
  <2>1. ASSUME c.do # "leave" PROVE c.my \in 1..epoch /\ c.my \in 1..MaxAttach
    BY <1>2, <2>1, CallParts, PlacesAssumption DEF PlacesInv, PlacesShape
  <2>2. \A v \in Visits : v.entries \in Seq(1..MaxPlaces)
    BY DEF Visits
  <2> QED BY <1>2, <2>1, <2>2
<1>14. c.do # "leave" => \A k \in 1..Len(h.entries) : h.entries[k] \in Int
  <2> SUFFICES ASSUME c.do # "leave", NEW k \in 1..Len(h.entries) PROVE h.entries[k] \in Int
    OBVIOUS
  <2>1. PICK s \in Seq(1..MaxPlaces) : s = h.entries
    BY <1>5
  <2>2. s[k] \in 1..MaxPlaces
    BY <2>1, ElementOfSeq
  <2> QED BY <2>1, <2>2
<1>6. UNCHANGED history /\ onScreen \subseteq onScreen' /\ onScreen' \subseteq 1..MaxPlaces => ChromeMoves
  BY <1>2, <1>3 DEF ChromeMoves
<1>7. UNCHANGED <<history, onScreen>> /\ sessions' \subseteq sessions => Streamed'
  BY <1>3 DEF PlacesInv, Streamed, OpenRooms
<1>8. CASE c.do = "leave" /\ sessions' = sessions \ {c.n} /\ Answers(i, TRUE, {}) /\ UNCHANGED <<history, onScreen, led>>
  <2>1. ChromeMoves /\ Streamed'
    BY <1>2, <1>6, <1>7, <1>8
  <2> QED BY <1>2, <1>3, <1>4, <1>8, <2>1, AnsweringKeeps
<1>9. CASE /\ c.do = "attach" /\ room[c.my] \in OpenRooms /\ sessions' = sessions \cup {c.my}
           /\ onScreen' = onScreen \cup {On(h)} /\ Answers(i, TRUE, {}) /\ UNCHANGED <<history, led>>
  <2>1. On(h) \in 1..MaxPlaces
    <3>1. h.at \in 1..Len(h.entries)
      BY <1>2, <1>5, <1>9 DEF Visits, OpenRooms
    <3> QED BY <1>5, <1>9, <3>1, ElementOfSeq DEF On
  <2>2. ChromeMoves
    BY <1>2, <1>6, <1>9, <2>1
  <2>3. Streamed'
    BY <1>3, <1>5, <1>9 DEF PlacesInv, Streamed, OpenRooms
  <2>4. ~Moves(c)
    BY <1>9 DEF Moves
  <2> QED BY <1>2, <1>3, <1>4, <1>9, <2>2, <2>3, <2>4, AnsweringKeeps
<1>10. CASE /\ c.do = "look" /\ c.my \in sessions /\ Answers(i, TRUE, Entries(h) \ {On(h)})
            /\ UNCHANGED <<history, sessions, onScreen, led>>
  <2>1. ChromeMoves /\ Streamed'
    BY <1>2, <1>6, <1>7, <1>10
  <2>2. Entries(h) \ {On(h)} \in SUBSET Int
    BY <1>10, <1>14 DEF Entries
  <2>3. \A e \in Entries(history'[room[c.my]]) : Old(e)' => e \in Entries(h) \ {On(h)}
    <3>1. On(h) \in onScreen'
      BY <1>10 DEF PlacesInv, Streamed
    <3> QED BY <1>10, <3>1 DEF Old
  <2>4. ~Moves(c)
    BY <1>10 DEF Moves
  <2> QED BY <1>2, <1>3, <1>4, <1>10, <2>1, <2>2, <2>3, <2>4, AnsweringKeeps
<1>11. CASE /\ c.do = "read" /\ c.my \in sessions
            /\ Answers(i, TRUE, {h.entries[k] : k \in {h.at + c.n} \cap 1..Len(h.entries)})
            /\ UNCHANGED <<history, sessions, onScreen, led>>
  <2>1. ChromeMoves /\ Streamed'
    BY <1>2, <1>6, <1>7, <1>11
  <2>2. PICK got \in SUBSET Int : got = {h.entries[k] : k \in {h.at + c.n} \cap 1..Len(h.entries)}
    BY <1>11, <1>14
  <2>3. got \subseteq Entries(h) /\ \A e, f \in got : e = f
    BY <2>2 DEF Entries
  <2>4. ~Moves(c) /\ Answers(i, TRUE, got)
    BY <1>11, <2>2 DEF Moves
  <2> QED BY <1>2, <1>3, <1>4, <1>11, <2>1, <2>3, <2>4, AnsweringKeeps
<1>12. CASE /\ c.do = "go" /\ c.my \in sessions /\ Answers(i, TRUE, {}) /\ led' = led \cup {c.n}
            /\ \E k \in 1..Len(h.entries) : h.entries[k] = c.n /\ Becomes(room[c.my], [h EXCEPT !.at = k])
            /\ UNCHANGED sessions
  <2>1. PICK k \in 1..Len(h.entries) : h.entries[k] = c.n /\ Becomes(room[c.my], [h EXCEPT !.at = k])
    BY <1>12
  <2>2. c.n \in 1..MaxPlaces
    BY <1>5, <1>12, <2>1, ElementOfSeq
  <2>3. PICK v \in Visits : v = h
    BY <1>5, <1>12
  <2>4. PICK g \in Visits : g = [v EXCEPT !.at = k] /\ g.at # 0 /\ Entries(g) = Entries(v)
    BY <2>1, <2>3 DEF Visits, Entries
  <2>5. room[c.my] \in OpenRooms /\ Becomes(room[c.my], g)
    BY <1>12, <2>1, <2>3, <2>4 DEF PlacesInv, Streamed
  <2>6. opened' \in 0..MaxPlaces /\ opened' >= opened
    BY <1>2, <1>3
  <2>7. ChromeMoves /\ Streamed'
    BY <1>3, <1>12, <2>3, <2>4, <2>5, <2>6, BecomesMoves DEF PlacesInv
  <2>8. ~Moves(c) /\ led' \subseteq 1..MaxPlaces
    BY <1>2, <1>12, <2>2 DEF Moves
  <2> QED BY <1>2, <1>3, <1>4, <1>12, <2>7, <2>8, AnsweringKeeps
<1>13. CASE /\ c.do # "leave" /\ Answers(i, FALSE, {}) /\ UNCHANGED <<history, sessions, onScreen, led>>
  <2>1. ChromeMoves /\ Streamed'
    BY <1>2, <1>6, <1>7, <1>13
  <2>2. ~Moves(c)
    BY <1>13 DEF Moves
  <2> QED BY <1>2, <1>3, <1>4, <1>13, <2>1, <2>2, AnsweringKeeps
<1> QED BY <1>1, <1>8, <1>9, <1>10, <1>11, <1>12, <1>13

LEMMA PlacesStart == PlacesInit => PlacesInv
<1> SUFFICES ASSUME PlacesInit PROVE PlacesInv
  OBVIOUS
<1>1. PICK k \in 1..OldPlaces - 1 :
        history = [t \in Rooms |-> IF t = Home THEN [entries |-> [i \in 1..OldPlaces - 1 |-> i], at |-> k]
                                   ELSE [entries |-> <<OldPlaces>>, at |-> 1]]
  BY DEF PlacesInit
<1>2. /\ opened = OldPlaces /\ sessions = {} /\ epoch = 1 /\ current = [session |-> 0, tab |-> NoRoom]
      /\ asked = <<Asks("attach", 1, 0)>> /\ room = [n \in 1..MaxAttach |-> Home]
      /\ prior = [t \in {} |-> {}] /\ onScreen = {} /\ led = {} /\ allowed \in {{}, {1}}
  BY DEF PlacesInit, Detached
<1>3. OldPlaces \in Nat /\ OldPlaces >= 2 /\ MaxPlaces \in Nat /\ OldPlaces <= MaxPlaces /\ MaxAttach \in Nat
      /\ MaxAttach >= 1 /\ Home \in Rooms
  BY PlacesAssumption
<1>4. PICK c \in Calls : c = Asks("attach", 1, 0) /\ c.do = "attach" /\ c.my = 1 /\ c.done = "no" /\ c.got = {}
  <2>1. 1 \in 0..MaxAttach /\ 0 \in Int
    BY <1>3
  <2> QED BY <2>1, OneAsked
<1>5. asked \in Seq(Calls) /\ Queued = {1} /\ asked[1] = c
  BY <1>2, <1>4 DEF Queued
<1>6. history \in [Rooms -> Visits]
  <2>1. [i \in 1..OldPlaces - 1 |-> i] \in Seq(1..MaxPlaces) /\ Len([i \in 1..OldPlaces - 1 |-> i]) = OldPlaces - 1
    BY <1>3
  <2>2. [entries |-> [i \in 1..OldPlaces - 1 |-> i], at |-> k] \in Visits
    BY <1>3, <2>1 DEF Visits
  <2>3. <<OldPlaces>> \in Seq(1..MaxPlaces) /\ Len(<<OldPlaces>>) = 1
    BY <1>3
  <2>4. [entries |-> <<OldPlaces>>, at |-> 1] \in Visits
    BY <2>3 DEF Visits
  <2>5. PICK home \in Visits, other \in Visits : history = [t \in Rooms |-> IF t = Home THEN home ELSE other]
    BY ONLY <1>1, <2>2, <2>4
  <2> QED BY ONLY <2>5
<1>7. PlacesTypeOK
  BY <1>2, <1>3, <1>6 DEF PlacesTypeOK
<1>8. PlacesShape
  BY <1>2, <1>3, <1>4, <1>5, <1>6, <1>7 DEF PlacesShape
<1>9. Streamed /\ KnowInv
  BY <1>2, <1>4, <1>5 DEF Streamed, KnowInv, PriorKnows, LookKnows, ReadKnows, GoesOn
<1>10. QueueInv
  BY <1>2, <1>4, <1>5 DEF QueueInv, InOrder, OneComing, LatestArrives, LeftForGood, ReadsOwn, Moves
<1> QED BY <1>8, <1>9, <1>10 DEF PlacesInv

LEMMA PlacesStep == PlacesInv /\ [PlacesNext]_placeVars => PlacesInv'
<1> SUFFICES ASSUME PlacesInv, [PlacesNext]_placeVars PROVE PlacesInv'
  OBVIOUS
<1>1. CASE UNCHANGED placeVars
  <2>1. UNCHANGED <<history, sessions, opened, allowed, asked, room, current, epoch, prior, onScreen, led>>
    BY <1>1 DEF placeVars
  <2>2. PlacesShape'
    BY <2>1 DEF PlacesInv, PlacesShape, PlacesTypeOK, Queued
  <2>3. InOrder' /\ OneComing' /\ LatestArrives' /\ LeftForGood' /\ ReadsOwn'
    BY <2>1 DEF PlacesInv, QueueInv, InOrder, OneComing, LatestArrives, LeftForGood, ReadsOwn, Queued, Comes, Moves,
                Arrives
  <2>4. Streamed' /\ ReadKnows' /\ GoesOn'
    BY <2>1 DEF PlacesInv, Streamed, OpenRooms, On, KnowInv, ReadKnows, GoesOn, Old, Queued
  <2>5. PriorKnows'
    BY <2>1 DEF PlacesInv, KnowInv, PriorKnows, Old, Entries
  <2>6. LookKnows'
    BY <2>1 DEF PlacesInv, KnowInv, LookKnows, Old, Entries, Queued
  <2> QED BY <2>2, <2>3, <2>4, <2>5, <2>6 DEF PlacesInv, QueueInv, KnowInv
<1>2. CASE PlacesNext
  BY <1>2, ExecutesKeeps, HearsKeeps, LosesTabKeeps, OpensPageKeeps, AgentGoesKeeps, RoomShutsKeeps, AttachKeeps,
     HistoryGoKeeps DEF PlacesNext
<1> QED BY <1>1, <1>2

\* What a guest's back and forward led to it was led to by a step decided upon.
LEMMA LedAsDecided ==
    ASSUME PlacesInv, [PlacesNext]_placeVars, NEW e \in led' \ led
    PROVE  e > OldPlaces \/ e \in allowed \/ e \in onScreen
<1>1. Executes
  BY DEF PlacesNext, placeVars, Hears, LosesTab, OpensPage, AgentGoes, RoomShuts, Attach, HistoryGo, chromeVars
<1>2. PICK i \in Queued : asked[i].do = "go" /\ led' = led \cup {asked[i].n}
  BY <1>1 DEF Executes, Queued
<1>3. ~Old(asked[i].n) /\ e = asked[i].n /\ e \in Int
  BY <1>2, CallParts DEF PlacesInv, PlacesShape, KnowInv, GoesOn
<1> QED BY <1>3, PlacesAssumption DEF Old

\* Every state of the pages and the histories is well formed.
THEOREM PlacesTypes == PlacesSpec => []PlacesTypeOK
<1>1. PlacesInv => PlacesTypeOK
  BY DEF PlacesInv, PlacesShape
<1> QED BY <1>1, PlacesStart, PlacesStep, PTL DEF PlacesSpec

\* A guest's back and forward lead to no page that was open before it came, unless its link allows the
\* page's host or a session of its was on it, for any tabs, histories and number of commands under way.
THEOREM OnlyItsOwnPast == PlacesSpec => NotBeforeItCame
<1>1. PlacesInv /\ [PlacesNext]_placeVars =>
        [\A e \in led' \ led : e > OldPlaces \/ e \in allowed \/ e \in onScreen]_placeVars
  BY LedAsDecided
<1> QED BY <1>1, PlacesStart, PlacesStep, PTL DEF PlacesSpec, NotBeforeItCame
================================================================================
