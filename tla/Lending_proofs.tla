--------------------------- MODULE Lending_proofs ---------------------------
(***************************************************************************)
(* Proofs about Lending and the Tunnels below it, for any browsers,        *)
(* agents, tunnels, sockets and limits; about the streams of a tunnel's    *)
(* socket (Streams), for any streams and frames; and about a tunnel's      *)
(* gateway, its clients and its socket (Gateways), for any clients.        *)
(*                                                                         *)
(* The invariant of lending is IInv: Wired says that what is registered    *)
(* for a tunnel and what runs over it agree, Named that a request that     *)
(* counts is about a browser and by an agent, Dry that a browser lent for  *)
(* control has no unrevoked row and nothing registered. A step is a step   *)
(* of the tunnels, which never registers a socket for a lent browser, or   *)
(* of the grants.                                                          *)
(*                                                                         *)
(* The invariant of the streams is StreamsInv: while both ends see the     *)
(* socket, no frame of a stream is ahead of its open (OpensFirst), and     *)
(* what each end holds of a stream agrees with the other end's and with    *)
(* what is on its way (StreamAgrees). That of the gateways is GatewayInv:  *)
(* a client and the socket it holds name each other (EndsAgree), and one   *)
(* that is yet to hear that it was displaced is connected, while another   *)
(* joined since (Displaced).                                               *)
(***************************************************************************)
EXTENDS Lending, Streams, Gateways, SequenceTheorems, WellFoundedInduction, TLAPS

Running(d) == dial[d].state \in {"opening", "bound"}

Wired ==
    /\ \A t \in Tunnels : conn[t] # NoSocket =>
         /\ socket[conn[t]].of = t /\ socket[conn[t]].open
         /\ tunnel[t].state = "held" \/ tunnel[t].late
    /\ \A d \in Dials : Running(d) =>
         /\ dial[d].socket \in Sockets /\ socket[dial[d].socket].of \in Tunnels
         /\ conn[socket[dial[d].socket].of] = dial[d].socket

Named == \A r \in RequestIds : request[r].state \in {"pending", "granted"} =>
            request[r].browser \in Browsers /\ request[r].by \in Agents

Controlled(b) == \E a \in Agents : grant[b][a] = "control"
Dry == \A b \in Browsers : Controlled(b) =>
         HeldOn(b) = {} /\ \A t \in Tunnels : tunnel[t].browser = b => conn[t] = NoSocket

IInv == TypeOK /\ Wired /\ Named /\ Dry /\ GrantsAreAnswers /\ OneRowPerAddress

---------------------------------------------------------------------------
(* What IInv gives. *)

LEMMA WiredCuts == ASSUME TunnelsTypeOK, Wired PROVE CutWithBinding
<1>1. SUFFICES ASSUME NEW d \in Dials, Running(d)
               PROVE /\ socket[dial[d].socket].open
                     /\ conn[socket[dial[d].socket].of] = dial[d].socket
                     /\ tunnel[socket[dial[d].socket].of].state = "held" \/ tunnel[socket[dial[d].socket].of].late
  BY DEF CutWithBinding, Running
<1>2. /\ dial[d].socket \in Sockets /\ socket[dial[d].socket].of \in Tunnels
      /\ conn[socket[dial[d].socket].of] = dial[d].socket
  BY <1>1 DEF Wired
<1>. QED BY <1>2, NamesOfNone DEF Wired

LEMMA DryLends == ASSUME TypeOK, Wired, Dry PROVE LentWithoutTunnel
<1>1. SUFFICES ASSUME NEW b \in Browsers, Controlled(b)
               PROVE /\ HeldOn(b) = {}
                     /\ \A t \in Tunnels : tunnel[t].browser = b => conn[t] = NoSocket
                     /\ \A d \in Dials : dial[d].state = "bound" => tunnel[socket[dial[d].socket].of].browser # b
  BY DEF LentWithoutTunnel, Controlled
<1>2. \A d \in Dials : dial[d].state = "bound" => tunnel[socket[dial[d].socket].of].browser # b
  BY <1>1, NamesOfNone DEF Dry, Wired, Running
<1>. QED BY <1>1, <1>2 DEF Dry

---------------------------------------------------------------------------
(* Steps of the tunnels. *)

\* What a step that registers nothing and opens no row does: sockets and rows only go.
Recedes ==
    /\ TunnelsTypeOK'
    /\ \A t \in Tunnels : /\ conn'[t] \in {conn[t], NoSocket}
                          /\ tunnel'[t].browser = tunnel[t].browser /\ tunnel'[t].at = tunnel[t].at
                          /\ tunnel'[t].state = "held" => tunnel[t].state = "held"

LEMMA RecedingKeeps ==
    ASSUME Recedes, TunnelsTypeOK, OneRowPerAddress, Dry, grant' = grant
    PROVE  OneRowPerAddress' /\ Dry'
<1>1. OneRowPerAddress'
  BY DEF Recedes, OneRowPerAddress
<1>2. Dry'
  BY DEF Recedes, Dry, Controlled, HeldOn
<1>. QED BY <1>1, <1>2

\* Shutting sockets leaves what is registered and what runs in agreement, if every row it
\* takes the term of loses its socket.
LEMMA ShutKeeps ==
    ASSUME TunnelsTypeOK, Wired, NEW S \in SUBSET Sockets, Shut(S), tunnel' \in [Tunnels -> TunnelRows],
           \A t \in Tunnels : /\ conn[t] \in Sockets \ S => tunnel'[t].state = tunnel[t].state
                              /\ tunnel'[t].late = tunnel[t].late
    PROVE  TunnelsTypeOK' /\ Wired' /\ \A t \in Tunnels : conn'[t] \in {conn[t], NoSocket} /\ conn'[t] \notin S
<1>1. socket' \in [Sockets -> SocketRows]
  BY DEF Shut, TunnelsTypeOK, SocketRows
<1>2. dial' \in [Dials -> DialRows]
  <2>1. \A d \in Dials : dial[d].socket \in Sockets \cup {NoSocket}
    BY DEF TunnelsTypeOK, DialRows
  <2>. QED BY <2>1 DEF Shut, TunnelsTypeOK, DialRows
<1>3. conn' \in [Tunnels -> Sockets \cup {NoSocket}]
  BY DEF Shut, TunnelsTypeOK
<1>4. \A t \in Tunnels : conn'[t] \in {conn[t], NoSocket} /\ conn'[t] \notin S
  BY NamesOfNone DEF Shut, TunnelsTypeOK
<1>5. \A s \in Sockets : /\ socket'[s].of = socket[s].of
                         /\ s \notin S => socket'[s].open = socket[s].open
  BY DEF Shut, TunnelsTypeOK, SocketRows
<1>6. ASSUME NEW t \in Tunnels, conn'[t] # NoSocket
      PROVE /\ socket'[conn'[t]].of = t /\ socket'[conn'[t]].open
            /\ tunnel'[t].state = "held" \/ tunnel'[t].late
  <2>1. conn'[t] = conn[t] /\ conn[t] \in Sockets \ S
    BY <1>4, <1>6 DEF TunnelsTypeOK
  <2>. QED BY <2>1, <1>5, NamesOfNone DEF Wired
<1>7. ASSUME NEW d \in Dials, Running(d)'
      PROVE /\ dial'[d].socket \in Sockets /\ socket'[dial'[d].socket].of \in Tunnels
            /\ conn'[socket'[dial'[d].socket].of] = dial'[d].socket
  <2>1. dial'[d] = dial[d] /\ ~\E s \in S : d \in StreamsOf(s)
    BY <1>7 DEF Shut, Running
  <2>2. Running(d)
    BY <2>1, <1>7 DEF Running
  <2>3. dial[d].socket \notin S
    BY <2>1, <2>2 DEF StreamsOf, Running
  <2>4. /\ dial[d].socket \in Sockets /\ socket[dial[d].socket].of \in Tunnels
        /\ conn[socket[dial[d].socket].of] = dial[d].socket
    BY <2>2 DEF Wired
  <2>5. conn'[socket[dial[d].socket].of] = conn[socket[dial[d].socket].of]
    BY <2>3, <2>4 DEF Shut
  <2>. QED BY <2>1, <2>4, <2>5, <1>5
<1>8. Wired'
  BY <1>6, <1>7 DEF Wired
<1>9. TunnelsTypeOK'
  BY <1>1, <1>2, <1>3 DEF TunnelsTypeOK
<1>. QED BY <1>4, <1>8, <1>9

LEMMA SocketStep ==
    ASSUME TunnelsTypeOK, Wired, NEW S \in SUBSET Sockets, Shut(S),
           tunnel' \in [Tunnels -> TunnelRows],
           \A t \in Tunnels : /\ tunnel'[t].browser = tunnel[t].browser /\ tunnel'[t].at = tunnel[t].at
                              /\ tunnel'[t].late = tunnel[t].late
                              /\ tunnel'[t].state = "held" => tunnel[t].state = "held"
                              /\ conn[t] \in Sockets \ S => tunnel'[t].state = tunnel[t].state
    PROVE  Recedes /\ Wired'
<1>1. TunnelsTypeOK' /\ Wired' /\ \A t \in Tunnels : conn'[t] \in {conn[t], NoSocket}
  BY ShutKeeps
<1>. QED BY <1>1 DEF Recedes

LEMMA RowsRevoked ==
    ASSUME TunnelsTypeOK, NEW T \in SUBSET Tunnels,
           tunnel' = [t \in Tunnels |-> IF t \in T THEN [tunnel[t] EXCEPT !.state = "revoked"] ELSE tunnel[t]]
    PROVE  /\ tunnel' \in [Tunnels -> TunnelRows]
           /\ \A t \in Tunnels : /\ tunnel'[t].browser = tunnel[t].browser /\ tunnel'[t].at = tunnel[t].at
                                 /\ tunnel'[t].late = tunnel[t].late
                                 /\ tunnel'[t].state = "held" => tunnel[t].state = "held" /\ t \notin T
                                 /\ t \notin T => tunnel'[t].state = tunnel[t].state
<1>1. \A t \in Tunnels : tunnel[t] \in TunnelRows
  BY DEF TunnelsTypeOK
<1>2. \A t \in Tunnels : tunnel'[t] = IF t \in T THEN [tunnel[t] EXCEPT !.state = "revoked"] ELSE tunnel[t]
  OBVIOUS
<1>3. \A t \in Tunnels : /\ tunnel'[t] \in TunnelRows
                         /\ tunnel'[t].browser = tunnel[t].browser /\ tunnel'[t].at = tunnel[t].at
                         /\ tunnel'[t].late = tunnel[t].late
                         /\ tunnel'[t].state = "held" => tunnel[t].state = "held" /\ t \notin T
                         /\ t \notin T => tunnel'[t].state = tunnel[t].state
  BY <1>1, <1>2 DEF TunnelRows
<1>. QED BY <1>3

\* A browser that is lent for control, or deleted, loses its tunnels.
LEMMA DropKeeps ==
    ASSUME TunnelsTypeOK, Wired, NEW B \in SUBSET Browsers, NEW T \in SUBSET Tunnels,
           \A t \in Tunnels : t \in T => tunnel[t].browser \in B,
           \A t \in Tunnels : tunnel[t].state = "held" /\ tunnel[t].browser \in B => t \in T,
           Shut(SocketsOf(B)),
           tunnel' = [t \in Tunnels |-> IF t \in T THEN [tunnel[t] EXCEPT !.state = "revoked"] ELSE tunnel[t]]
    PROVE  /\ Recedes /\ Wired'
           /\ \A b \in B : HeldOn(b)' = {} /\ \A t \in Tunnels : tunnel'[t].browser = b => conn'[t] = NoSocket
<1>1. SocketsOf(B) \in SUBSET Sockets
  BY DEF SocketsOf, Registered
<1>2. \A t \in Tunnels : tunnel[t].browser \in B /\ conn[t] \in Sockets => conn[t] \in SocketsOf(B)
  BY DEF SocketsOf, Registered
<1>3. /\ tunnel' \in [Tunnels -> TunnelRows]
      /\ \A t \in Tunnels : /\ tunnel'[t].browser = tunnel[t].browser /\ tunnel'[t].at = tunnel[t].at
                            /\ tunnel'[t].late = tunnel[t].late
                            /\ tunnel'[t].state = "held" => tunnel[t].state = "held" /\ t \notin T
                            /\ t \notin T => tunnel'[t].state = tunnel[t].state
  BY RowsRevoked
<1>4. Recedes /\ Wired'
  BY <1>1, <1>2, <1>3, SocketStep
<1>5. \A t \in Tunnels : tunnel[t].browser \in B => conn'[t] = NoSocket
  BY <1>2 DEF Shut, TunnelsTypeOK
<1>6. ASSUME NEW b \in B, NEW t \in Tunnels, tunnel'[t].state = "held", tunnel'[t].browser = b
      PROVE FALSE
  BY <1>3, <1>6
<1>7. \A b \in B : HeldOn(b)' = {}
  BY <1>6 DEF HeldOn
<1>. QED BY <1>3, <1>4, <1>5, <1>7

LEMMA DropForKeeps ==
    ASSUME TunnelsTypeOK, Wired, NEW B \in SUBSET Browsers, DropFor(B)
    PROVE  /\ Recedes /\ Wired'
           /\ \A b \in B : HeldOn(b)' = {} /\ \A t \in Tunnels : tunnel'[t].browser = b => conn'[t] = NoSocket
<1>1. CASE B = {}
  <2>1. UNCHANGED tunnelVars
    BY <1>1 DEF DropFor
  <2>2. TunnelsTypeOK' /\ Wired'
    BY <2>1 DEF tunnelVars, TunnelsTypeOK, Wired, Running
  <2>. QED BY <1>1, <2>1, <2>2 DEF tunnelVars, Recedes
<1>2. CASE B # {}
  <2>. DEFINE T == {t \in Tunnels : tunnel[t].state = "held" /\ tunnel[t].browser \in B}
  <2>1. /\ Shut(SocketsOf(B))
        /\ tunnel' = [t \in Tunnels |-> IF t \in T THEN [tunnel[t] EXCEPT !.state = "revoked"] ELSE tunnel[t]]
    BY <1>2 DEF DropFor
  <2>2. /\ T \in SUBSET Tunnels
        /\ \A t \in Tunnels : t \in T => tunnel[t].browser \in B
        /\ \A t \in Tunnels : tunnel[t].state = "held" /\ tunnel[t].browser \in B => t \in T
    OBVIOUS
  <2>. HIDE DEF T
  <2>. QED BY <2>1, <2>2, DropKeeps
<1>. QED BY <1>1, <1>2

LEMMA OpenKeeps ==
    ASSUME IInv, NEW t \in Tunnels, NEW b \in Browsers, NEW at \in Addresses, CreateTunnel(t, b, at)
    PROVE  TunnelsTypeOK' /\ Wired' /\ Dry' /\ OneRowPerAddress'
<1>1. /\ TunnelsTypeOK /\ Wired /\ Dry /\ OneRowPerAddress
      /\ OpenTunnel(t, b, at) /\ UNCHANGED lendingVars
  BY DEF IInv, TypeOK, CreateTunnel
<1>2. /\ tunnel[t].state = "none"
      /\ at \notin {tunnel[x].at : x \in BoundOn(b)}
      /\ tunnel' = [x \in Tunnels |->
                      IF x = t THEN [state |-> "held", browser |-> b, at |-> at, late |-> FALSE]
                      ELSE IF x \in HeldOn(b) /\ tunnel[x].late THEN [tunnel[x] EXCEPT !.state = "revoked"]
                      ELSE tunnel[x]]
      /\ UNCHANGED <<conn, socket, dial>>
  BY <1>1 DEF OpenTunnel
<1>3. \A x \in Tunnels : tunnel[x] \in TunnelRows
  BY <1>1 DEF TunnelsTypeOK
<1>4. /\ tunnel'[t] = [state |-> "held", browser |-> b, at |-> at, late |-> FALSE]
      /\ \A x \in Tunnels \ {t} :
           /\ tunnel'[x] \in TunnelRows
           /\ tunnel'[x].browser = tunnel[x].browser /\ tunnel'[x].at = tunnel[x].at /\ tunnel'[x].late = tunnel[x].late
           /\ tunnel'[x].state = "held" => tunnel[x].state = "held" /\ ~(x \in HeldOn(b) /\ tunnel[x].late)
           /\ tunnel'[x].state = tunnel[x].state \/ tunnel[x].late
  BY <1>2, <1>3 DEF TunnelRows
<1>5. TunnelsTypeOK'
  <2>1. tunnel'[t] \in TunnelRows
    BY <1>4 DEF TunnelRows
  <2>. QED BY <1>1, <1>2, <1>4, <2>1 DEF TunnelsTypeOK
<1>6. conn[t] = NoSocket \/ tunnel[t].late
  BY <1>1, <1>2 DEF Wired
<1>7. Wired'
  <2>1. \A x \in Tunnels : conn'[x] # NoSocket =>
          /\ socket'[conn'[x]].of = x /\ socket'[conn'[x]].open
          /\ tunnel'[x].state = "held" \/ tunnel'[x].late
    BY <1>1, <1>2, <1>4 DEF Wired
  <2>2. \A d \in Dials : Running(d)' =>
          /\ dial'[d].socket \in Sockets /\ socket'[dial'[d].socket].of \in Tunnels
          /\ conn'[socket'[dial'[d].socket].of] = dial'[d].socket
    BY <1>1, <1>2 DEF Wired, Running
  <2>. QED BY <2>1, <2>2 DEF Wired
<1>8. OneRowPerAddress'
  <2>1. ASSUME NEW x \in Tunnels, NEW y \in Tunnels, x # y,
               tunnel'[x].state = "held", tunnel'[y].state = "held", tunnel'[x].browser = tunnel'[y].browser
        PROVE  tunnel'[x].at # tunnel'[y].at
    <3>1. \A z \in Tunnels \ {t} : tunnel'[z].state = "held" /\ tunnel'[z].browser = b => tunnel'[z].at # at
      BY <1>2, <1>4 DEF BoundOn, HeldOn
    <3>2. CASE x = t \/ y = t
      BY <2>1, <3>1, <3>2, <1>4
    <3>3. CASE x # t /\ y # t
      BY <2>1, <3>3, <1>1, <1>4 DEF OneRowPerAddress
    <3>. QED BY <3>2, <3>3
  <2>. QED BY <2>1 DEF OneRowPerAddress
<1>9. Dry'
  <2>1. ~Controlled(b)
    BY DEF CreateTunnel, Lent, Controlled
  <2>2. grant' = grant
    BY <1>1 DEF lendingVars
  <2>3. ASSUME NEW c \in Browsers, Controlled(c)'
        PROVE HeldOn(c)' = {} /\ \A x \in Tunnels : tunnel'[x].browser = c => conn'[x] = NoSocket
    <3>1. Controlled(c) /\ c # b
      BY <2>1, <2>2, <2>3 DEF Controlled
    <3>2. HeldOn(c) = {} /\ \A x \in Tunnels : tunnel[x].browser = c => conn[x] = NoSocket
      BY <1>1, <3>1 DEF Dry
    <3>3. \A x \in Tunnels : tunnel'[x].browser = c => x # t
      BY <1>4, <3>1
    <3>4. HeldOn(c)' = {}
      BY <3>2, <3>3, <1>4 DEF HeldOn
    <3>. QED BY <3>2, <3>3, <3>4, <1>2, <1>4
  <2>. QED BY <2>3 DEF Dry
<1>. QED BY <1>5, <1>7, <1>8, <1>9

LEMMA AttachKeeps ==
    ASSUME IInv, NEW t \in Tunnels, NEW s \in Sockets, Attach(t, s), grant' = grant
    PROVE  TunnelsTypeOK' /\ Wired' /\ Dry' /\ OneRowPerAddress'
<1>. DEFINE old == Registered({t})
<1>1. /\ TunnelsTypeOK /\ Wired /\ Dry /\ OneRowPerAddress
      /\ tunnel[t].state = "held" /\ ~tunnel[t].late /\ socket[s].of = NoTunnel
      /\ socket' = [x \in Sockets |-> IF x = s THEN [of |-> t, open |-> TRUE]
                                      ELSE IF x \in old THEN [socket[x] EXCEPT !.open = FALSE] ELSE socket[x]]
      /\ dial' = [d \in Dials |-> IF \E x \in old : d \in StreamsOf(x)
                                  THEN [state |-> "over", socket |-> dial[d].socket] ELSE dial[d]]
      /\ conn' = [conn EXCEPT ![t] = s] /\ tunnel' = tunnel
  BY DEF IInv, TypeOK, Attach, Bound
<1>2. \A x \in Sockets : x \in old <=> conn[t] = x
  BY DEF Registered
<1>3. \A u \in Tunnels : conn[u] # s
  BY <1>1, NamesOfNone DEF Wired
<1>4. \A x \in Sockets \ {s} : /\ socket'[x].of = socket[x].of /\ socket'[x] \in SocketRows
                               /\ x \notin old => socket'[x].open = socket[x].open
  BY <1>1 DEF TunnelsTypeOK, SocketRows
<1>5. socket'[s] = [of |-> t, open |-> TRUE]
  BY <1>1
<1>. HIDE DEF old
<1>6. TunnelsTypeOK'
  <2>1. socket' \in [Sockets -> SocketRows]
    BY <1>1, <1>4, <1>5 DEF SocketRows
  <2>2. \A d \in Dials : dial[d] \in DialRows /\ dial[d].socket \in Sockets \cup {NoSocket}
    BY <1>1 DEF TunnelsTypeOK, DialRows
  <2>3. dial' \in [Dials -> DialRows]
    BY <1>1, <2>2 DEF DialRows
  <2>4. conn' \in [Tunnels -> Sockets \cup {NoSocket}]
    BY <1>1 DEF TunnelsTypeOK
  <2>. QED BY <1>1, <2>1, <2>3, <2>4 DEF TunnelsTypeOK
<1>7. ASSUME NEW u \in Tunnels, conn'[u] # NoSocket
      PROVE /\ socket'[conn'[u]].of = u /\ socket'[conn'[u]].open
            /\ tunnel'[u].state = "held" \/ tunnel'[u].late
  <2>1. CASE u = t
    BY <2>1, <1>1, <1>5 DEF TunnelsTypeOK
  <2>2. CASE u # t
    <3>1. conn'[u] = conn[u] /\ conn[u] \in Sockets \ {s}
      BY <2>2, <1>1, <1>3, <1>7 DEF TunnelsTypeOK
    <3>2. conn[u] \notin old
      BY <2>2, <3>1, <1>1, <1>2, NamesOfNone DEF Wired
    <3>. QED BY <3>1, <3>2, <1>1, <1>4, NamesOfNone DEF Wired
  <2>. QED BY <2>1, <2>2
<1>8. ASSUME NEW d \in Dials, Running(d)'
      PROVE /\ dial'[d].socket \in Sockets /\ socket'[dial'[d].socket].of \in Tunnels
            /\ conn'[socket'[dial'[d].socket].of] = dial'[d].socket
  <2>1. dial'[d] = dial[d] /\ ~\E x \in old : d \in StreamsOf(x)
    BY <1>8, <1>1 DEF Running
  <2>2. Running(d)
    BY <2>1, <1>8 DEF Running
  <2>3. dial[d].socket \notin old
    BY <2>1, <2>2 DEF StreamsOf, Running
  <2>4. /\ dial[d].socket \in Sockets /\ socket[dial[d].socket].of \in Tunnels
        /\ conn[socket[dial[d].socket].of] = dial[d].socket
    BY <2>2, <1>1 DEF Wired
  <2>5. dial[d].socket # s /\ socket[dial[d].socket].of # t
    BY <2>3, <2>4, <1>2, <1>3
  <2>. QED BY <2>1, <2>4, <2>5, <1>1, <1>4 DEF TunnelsTypeOK
<1>9. Wired'
  BY <1>7, <1>8 DEF Wired
<1>10. Dry'
  <2>1. ~\E b \in Browsers : Controlled(b) /\ tunnel[t].browser = b
    BY <1>1 DEF Dry, HeldOn
  <2>. QED BY <2>1, <1>1 DEF Dry, Controlled, HeldOn, TunnelsTypeOK
<1>11. OneRowPerAddress'
  BY <1>1 DEF OneRowPerAddress
<1>. QED BY <1>6, <1>9, <1>10, <1>11

\* A stream is asked for: it runs over what is registered, or not at all.
LEMMA DialKeeps ==
    ASSUME IInv, NEW d \in Dials, grant' = grant,
           NEW t \in Tunnels, Dial(d, t)
    PROVE  TunnelsTypeOK' /\ Wired' /\ Dry' /\ OneRowPerAddress'
<1>1. /\ TunnelsTypeOK /\ Wired /\ Dry /\ OneRowPerAddress
  BY DEF IInv, TypeOK
<1>3. /\ dial' = [dial EXCEPT ![d] =
                  IF conn[t] # NoSocket /\ Cardinality(StreamsOf(conn[t])) < MaxStreams
                  THEN [state |-> "opening", socket |-> conn[t]]
                  ELSE [state |-> "over", socket |-> NoSocket]]
      /\ UNCHANGED <<tunnel, conn, socket>>
  BY DEF Dial
<1>4. TunnelsTypeOK'
  <2>1. conn[t] \in Sockets \cup {NoSocket}
    BY <1>1 DEF TunnelsTypeOK
  <2>. QED BY <1>1, <1>3, <2>1 DEF TunnelsTypeOK, DialRows
<1>5. Wired'
  <2>1. conn[t] # NoSocket => conn[t] \in Sockets /\ socket[conn[t]].of = t
    BY <1>1 DEF Wired, TunnelsTypeOK
  <2>2. \A x \in Dials \ {d} : dial'[x] = dial[x]
    BY <1>1, <1>3 DEF TunnelsTypeOK
  <2>3. \/ dial'[d] = [state |-> "opening", socket |-> conn[t]] /\ conn[t] # NoSocket
        \/ dial'[d].state = "over"
    BY <1>1, <1>3 DEF TunnelsTypeOK
  <2>. QED BY <1>1, <1>3, <2>1, <2>2, <2>3 DEF Wired, Running
<1>6. Recedes
  BY <1>1, <1>3, <1>4 DEF Recedes
<1>. QED BY <1>1, <1>4, <1>5, <1>6, RecedingKeeps

LEMMA DialGoesOn ==
    ASSUME IInv, NEW d \in Dials, DialAnswered(d) \/ DialEnds(d), grant' = grant
    PROVE  TunnelsTypeOK' /\ Wired' /\ Dry' /\ OneRowPerAddress'
<1>1. /\ TunnelsTypeOK /\ Wired /\ Dry /\ OneRowPerAddress
  BY DEF IInv, TypeOK
<1>2. /\ UNCHANGED <<tunnel, conn, socket>> /\ Running(d)
      /\ \/ dial' = [dial EXCEPT ![d].state = "bound"]
         \/ dial' = [dial EXCEPT ![d].state = "over"]
  BY DEF DialAnswered, DialEnds, Running
<1>3. TunnelsTypeOK'
  BY <1>1, <1>2 DEF TunnelsTypeOK, DialRows
<1>4. \A x \in Dials : dial'[x].socket = dial[x].socket /\ (Running(x)' => Running(x))
  BY <1>1, <1>2 DEF TunnelsTypeOK, DialRows, Running
<1>5. Wired'
  BY <1>1, <1>2, <1>4 DEF Wired
<1>6. Recedes
  BY <1>1, <1>2, <1>3 DEF Recedes
<1>. QED BY <1>1, <1>3, <1>5, <1>6, RecedingKeeps

LEMMA LapseKeeps ==
    ASSUME IInv, NEW t \in Tunnels, TunnelLapses(t), grant' = grant
    PROVE  TunnelsTypeOK' /\ Wired' /\ Dry' /\ OneRowPerAddress'
<1>1. /\ TunnelsTypeOK /\ Wired /\ Dry /\ OneRowPerAddress
      /\ tunnel' = [tunnel EXCEPT ![t].late = TRUE] /\ UNCHANGED <<conn, socket, dial>>
  BY DEF IInv, TypeOK, TunnelLapses
<1>2. \A x \in Tunnels : /\ tunnel'[x].browser = tunnel[x].browser /\ tunnel'[x].at = tunnel[x].at
                         /\ tunnel'[x].state = tunnel[x].state /\ (tunnel[x].late => tunnel'[x].late)
  BY <1>1 DEF TunnelsTypeOK, TunnelRows
<1>3. TunnelsTypeOK'
  BY <1>1 DEF TunnelsTypeOK, TunnelRows
<1>4. Wired'
  BY <1>1, <1>2 DEF Wired, Running
<1>5. Recedes
  BY <1>1, <1>2, <1>3 DEF Recedes
<1>. QED BY <1>1, <1>3, <1>4, <1>5, RecedingKeeps

LEMMA TunnelStep ==
    ASSUME IInv, TunnelsNext, grant' = grant
    PROVE  TunnelsTypeOK' /\ Wired' /\ Dry' /\ OneRowPerAddress'
<1>1. TunnelsTypeOK /\ Wired /\ Dry /\ OneRowPerAddress
  BY DEF IInv, TypeOK
<1>2. (Recedes /\ Wired') \/ (TunnelsTypeOK' /\ Wired' /\ Dry' /\ OneRowPerAddress')
  <2>1. ASSUME NEW t \in Tunnels, RevokeTunnel(t) PROVE Recedes /\ Wired'
    <3>1. /\ tunnel' = [x \in Tunnels |-> IF x \in {t} THEN [tunnel[x] EXCEPT !.state = "revoked"] ELSE tunnel[x]]
          /\ Shut(Registered({t})) /\ Registered({t}) \in SUBSET Sockets
      BY <1>1, <2>1 DEF RevokeTunnel, TunnelsTypeOK, Registered
    <3>2. \A x \in Tunnels : conn[x] \in Sockets \ Registered({t}) => x \notin {t}
      BY DEF Registered
    <3>. QED BY <1>1, <3>1, <3>2, SocketStep, RowsRevoked
  <2>2. ASSUME SweepTunnels PROVE Recedes /\ Wired'
    <3>. DEFINE stale == {t \in Tunnels : tunnel[t].state = "held" /\ tunnel[t].late}
    <3>1. /\ tunnel' = [x \in Tunnels |-> IF x \in stale THEN [tunnel[x] EXCEPT !.state = "revoked"] ELSE tunnel[x]]
          /\ Shut(Registered(stale)) /\ Registered(stale) \in SUBSET Sockets /\ stale \in SUBSET Tunnels
      BY <2>2 DEF SweepTunnels, Registered
    <3>2. \A x \in Tunnels : conn[x] \in Sockets \ Registered(stale) => x \notin stale
      BY DEF Registered
    <3>. HIDE DEF stale
    <3>. QED BY <1>1, <3>1, <3>2, SocketStep, RowsRevoked
  <2>3. ASSUME NEW S \in SUBSET Sockets, Shut(S), UNCHANGED tunnel PROVE Recedes /\ Wired'
    <3>1. tunnel' \in [Tunnels -> TunnelRows]
      BY <1>1, <2>3 DEF TunnelsTypeOK
    <3>. QED BY <1>1, <2>3, <3>1, SocketStep
  <2>4. ASSUME NEW s \in Sockets, SocketCloses(s) PROVE Recedes /\ Wired'
    BY <2>3, <2>4 DEF SocketCloses
  <2>5. ASSUME ProcessEnds PROVE Recedes /\ Wired'
    BY <2>3, <2>5 DEF ProcessEnds
  <2>6. ASSUME NEW d \in Dials, NEW t \in Tunnels, Dial(d, t) PROVE TunnelsTypeOK' /\ Wired' /\ Dry' /\ OneRowPerAddress'
    BY <2>6, DialKeeps DEF Dial
  <2>. QED BY <2>1, <2>2, <2>4, <2>5, <2>6, LapseKeeps, AttachKeeps, DialGoesOn DEF TunnelsNext
<1>. QED BY <1>1, <1>2, RecedingKeeps DEF Recedes

---------------------------------------------------------------------------
(* Steps of the grants. *)

\* What the steps of the grants keep of the requests and grants.
Answers == /\ request \in [RequestIds -> RequestRows]
           /\ grant \in [Browsers -> [Agents -> Levels \cup {"none"}]]
           /\ Named /\ GrantsAreAnswers

\* A grant drops the tunnels of what it lends for control.
LEMMA GrantKeepsDry ==
    ASSUME IInv, NEW B \in SUBSET Browsers, DropFor(B),
           \A b \in Browsers : Controlled(b)' => Controlled(b) \/ b \in B
    PROVE  TunnelsTypeOK' /\ Wired' /\ Dry' /\ OneRowPerAddress'
<1>1. TunnelsTypeOK /\ Wired /\ Dry /\ OneRowPerAddress
  BY DEF IInv, TypeOK
<1>2. /\ Recedes /\ Wired'
      /\ \A b \in B : HeldOn(b)' = {} /\ \A t \in Tunnels : tunnel'[t].browser = b => conn'[t] = NoSocket
  BY <1>1, DropForKeeps
<1>3. OneRowPerAddress'
  BY <1>1, <1>2 DEF Recedes, OneRowPerAddress
<1>4. ASSUME NEW b \in Browsers, Controlled(b)
      PROVE HeldOn(b)' = {} /\ \A t \in Tunnels : tunnel'[t].browser = b => conn'[t] = NoSocket
  BY <1>1, <1>2, <1>4 DEF Recedes, Dry, HeldOn
<1>5. Dry'
  BY <1>2, <1>4 DEF Dry
<1>. QED BY <1>2, <1>3, <1>5 DEF Recedes

\* Steps that leave the tunnels alone and lend nothing for control anew.
LEMMA TunnelsStay ==
    ASSUME IInv, UNCHANGED tunnelVars, \A b \in Browsers : Controlled(b)' => Controlled(b)
    PROVE  TunnelsTypeOK' /\ Wired' /\ Dry' /\ OneRowPerAddress'
<1>1. DropFor({})
  BY DEF DropFor
<1>. QED BY <1>1, GrantKeepsDry

\* A request that is not a granted one is answered, and its grant put in force.
LEMMA AnswerKeeps ==
    ASSUME Answers, owner' = owner, NEW r \in RequestIds, request[r].state # "granted",
           NEW b \in Browsers, NEW a \in Agents, NEW given \in Levels, NEW row \in RequestRows,
           row.state = "granted", row.browser = b, row.by = a, row.given = given, Allows(row.want, given),
           AnsweredByAdmin(b) => row.decided = Admin,
           Decide(r, row), grant' = [grant EXCEPT ![b][a] = given]
    PROVE  Answers'
<1>1. /\ request' = [request EXCEPT ![r] = row]
      /\ request'[r] = row /\ \A q \in RequestIds \ {r} : request'[q] = request[q]
  BY DEF Decide, Answers
<1>2. \A c \in Browsers, x \in Agents : grant'[c][x] = IF c = b /\ x = a THEN given ELSE grant[c][x]
  BY DEF Answers
<1>3. request' \in [RequestIds -> RequestRows] /\ Named'
  BY <1>1 DEF Answers, Named
<1>4. grant' \in [Browsers -> [Agents -> Levels \cup {"none"}]]
  BY DEF Answers
<1>5. ASSUME NEW c \in Browsers, NEW x \in Agents, grant'[c][x] # "none"
      PROVE  \E q \in RequestIds : /\ request'[q].state = "granted"
                                   /\ request'[q].browser = c /\ request'[q].by = x
                                   /\ request'[q].given = grant'[c][x]
                                   /\ Allows(request'[q].want, request'[q].given)
                                   /\ AnsweredByAdmin(c)' => request'[q].decided = Admin
  <2>1. CASE c = b /\ x = a
    BY <2>1, <1>1, <1>2 DEF AnsweredByAdmin
  <2>2. CASE ~(c = b /\ x = a)
    <3>1. grant'[c][x] = grant[c][x] /\ grant[c][x] # "none"
      BY <2>2, <1>2, <1>5
    <3>2. PICK q \in RequestIds : /\ request[q].state = "granted"
                                  /\ request[q].browser = c /\ request[q].by = x
                                  /\ request[q].given = grant[c][x]
                                  /\ Allows(request[q].want, request[q].given)
                                  /\ AnsweredByAdmin(c) => request[q].decided = Admin
      BY <3>1 DEF Answers, GrantsAreAnswers
    <3>3. request'[q] = request[q]
      BY <1>1, <3>2
    <3>. QED BY <3>1, <3>2, <3>3 DEF AnsweredByAdmin
  <2>. QED BY <2>1, <2>2
<1>6. GrantsAreAnswers'
  BY <1>5 DEF GrantsAreAnswers
<1>. QED BY <1>3, <1>4, <1>6 DEF Answers

\* What was granted stays as it is, and no grant is given or changed but taken.
LEMMA AnswersStay ==
    ASSUME Answers, owner' = owner, request' \in [RequestIds -> RequestRows], Named',
           grant' \in [Browsers -> [Agents -> Levels \cup {"none"}]],
           \A q \in RequestIds : request[q].state = "granted" => request'[q] = request[q],
           \A b \in Browsers, a \in Agents : grant'[b][a] \in {grant[b][a], "none"}
    PROVE  Answers'
<1>1. ASSUME NEW c \in Browsers, NEW x \in Agents, grant'[c][x] # "none"
      PROVE  \E q \in RequestIds : /\ request'[q].state = "granted"
                                   /\ request'[q].browser = c /\ request'[q].by = x
                                   /\ request'[q].given = grant'[c][x]
                                   /\ Allows(request'[q].want, request'[q].given)
                                   /\ AnsweredByAdmin(c)' => request'[q].decided = Admin
  <2>1. grant'[c][x] = grant[c][x] /\ grant[c][x] # "none"
    BY <1>1
  <2>2. PICK q \in RequestIds : /\ request[q].state = "granted"
                                /\ request[q].browser = c /\ request[q].by = x
                                /\ request[q].given = grant[c][x]
                                /\ Allows(request[q].want, request[q].given)
                                /\ AnsweredByAdmin(c) => request[q].decided = Admin
    BY <2>1 DEF Answers, GrantsAreAnswers
  <2>3. request'[q] = request[q]
    BY <2>2
  <2>. QED BY <2>1, <2>2, <2>3 DEF AnsweredByAdmin
<1>2. GrantsAreAnswers'
  BY <1>1 DEF GrantsAreAnswers
<1>. QED BY <1>2 DEF Answers

\* A request that does not count any more, or is asked.
LEMMA DecideKeeps ==
    ASSUME Answers, owner' = owner, grant' = grant, NEW r \in RequestIds, request[r].state # "granted",
           NEW row \in RequestRows, row.state \in {"pending", "granted"} => row.browser \in Browsers /\ row.by \in Agents,
           Decide(r, row)
    PROVE  Answers'
<1>1. /\ request' = [request EXCEPT ![r] = row]
      /\ request'[r] = row /\ \A q \in RequestIds \ {r} : request'[q] = request[q]
  BY DEF Decide, Answers
<1>2. request' \in [RequestIds -> RequestRows] /\ Named'
  BY <1>1 DEF Answers, Named
<1>3. \A q \in RequestIds : request[q].state = "granted" => request'[q] = request[q]
  BY <1>1
<1>4. grant' \in [Browsers -> [Agents -> Levels \cup {"none"}]] /\ \A b \in Browsers, a \in Agents : grant'[b][a] \in {grant[b][a], "none"}
  BY DEF Answers
<1>. QED BY <1>2, <1>3, <1>4, AnswersStay

LEMMA LastExists ==
    ASSUME NEW Q \in SUBSET RequestIds, Q # {}
    PROVE  \E last \in Q : \A q \in Q : q <= last
<1>. DEFINE Left == {MaxRequests - q : q \in Q}
<1>1. Left \in SUBSET Nat /\ Left # {}
  <2>1. \A q \in Q : MaxRequests - q \in Nat
    BY LendingLimits DEF RequestIds
  <2>2. Left # {}
    OBVIOUS
  <2>. QED BY <2>1, <2>2
<1>. HIDE DEF Left
<1>2. \E x \in Left : \A y \in Left : ~(<<y, x>> \in OpToRel(<, Nat))
  BY <1>1, WFMin, NatLessThanWellFounded
<1>3. PICK x \in Left : \A y \in Left : x <= y
  <2>1. PICK x \in Left : \A y \in Left : ~(<<y, x>> \in OpToRel(<, Nat))
    BY <1>2
  <2>2. ASSUME NEW y \in Left PROVE x <= y
    <3>1. x \in Nat /\ y \in Nat
      BY <1>1
    <3>2. ASSUME y < x PROVE <<y, x>> \in OpToRel(<, Nat)
      <4>1. <<y, x>> \in Nat \X Nat /\ <<y, x>>[1] < <<y, x>>[2]
        BY <3>1, <3>2
      <4>. QED BY <4>1 DEF OpToRel
    <3>3. ~(y < x)
      BY <2>1, <3>2
    <3>. QED BY <3>1, <3>3
  <2>. QED BY <2>2
<1>4. PICK last \in Q : x = MaxRequests - last
  BY <1>3 DEF Left
<1>5. ASSUME NEW q \in Q PROVE q <= last
  <2>1. MaxRequests - q \in Left
    BY DEF Left
  <2>2. x <= MaxRequests - q
    BY <1>3, <2>1
  <2>. QED BY <1>4, <2>2, LendingLimits DEF RequestIds
<1>. QED BY <1>5

LEMMA GrantStep ==
    ASSUME IInv, NEW b \in Browsers, NEW a \in Agents, NEW level \in Levels, Issue(b, a, level)
    PROVE  TunnelsTypeOK' /\ Wired' /\ Dry' /\ OneRowPerAddress'
<1>. DEFINE B == IF level = "control" THEN {b} ELSE {}
<1>1. B \in SUBSET Browsers /\ DropFor(B) /\ grant' = [grant EXCEPT ![b][a] = level]
  BY DEF Issue
<1>2. \A c \in Browsers, x \in Agents : grant'[c][x] = IF c = b /\ x = a THEN level ELSE grant[c][x]
  BY <1>1 DEF IInv, TypeOK
<1>3. \A c \in Browsers : Controlled(c)' => Controlled(c) \/ c \in B
  BY <1>2 DEF Controlled
<1>. HIDE DEF B
<1>. QED BY <1>1, <1>3, GrantKeepsDry

LEMMA AskKeeps ==
    ASSUME IInv, NEW a \in Agents, NEW b \in Browsers, NEW want \in Levels, NEW r \in RequestIds, Ask(a, b, want, r)
    PROVE  Answers' /\ TunnelsTypeOK' /\ Wired' /\ Dry' /\ OneRowPerAddress'
<1>. DEFINE row == [NoRequest EXCEPT !.state = "pending", !.browser = b, !.by = a, !.want = want]
            given == Granted(row, want, "idle")
<1>1. Answers /\ owner' = owner
  BY DEF IInv, TypeOK, Answers, Ask
<1>2. request[r].state # "granted"
  BY DEF Ask, Mine, Waiting, Fresh
<1>3. row \in RequestRows /\ given \in RequestRows /\ row.state = "pending" /\ row.browser = b /\ row.by = a
  BY DEF NoRequest, RequestRows, Granted, Levels
<1>4. /\ given.state = "granted" /\ given.browser = b /\ given.by = a /\ given.given = want /\ given.want = want
  BY DEF NoRequest, Granted
<1>5. Allows(want, want)
  BY DEF Allows, Levels
<1>6. CASE IdleGrants(b, a)
  <2>1. Decide(r, given) /\ Issue(b, a, want) /\ ~AnsweredByAdmin(b)
    BY <1>6 DEF Ask, IdleGrants
  <2>2. grant' = [grant EXCEPT ![b][a] = want]
    BY <2>1 DEF Issue
  <2>. HIDE DEF row, given
  <2>3. Answers'
    BY <1>1, <1>2, <1>3, <1>4, <1>5, <2>1, <2>2, AnswerKeeps
  <2>. QED BY <2>1, <2>3, GrantStep
<1>7. CASE ~IdleGrants(b, a)
  <2>1. Decide(r, row) /\ UNCHANGED <<grant, tunnelVars>>
    BY <1>7 DEF Ask
  <2>. HIDE DEF row, given
  <2>2. Answers'
    BY <1>1, <1>2, <1>3, <2>1, DecideKeeps
  <2>. QED BY <2>1, <2>2, TunnelsStay DEF Controlled
<1>. QED BY <1>6, <1>7

LEMMA GrantKeeps ==
    ASSUME IInv, NEW who \in Principals, NEW r \in RequestIds, NEW level \in Levels, Grant(who, r, level)
    PROVE  Answers' /\ TunnelsTypeOK' /\ Wired' /\ Dry' /\ OneRowPerAddress'
<1>. DEFINE req == request[r]
            given == IF Allows(req.want, level) THEN level ELSE req.want
            row == Granted(req, given, who)
<1>1. Answers /\ owner' = owner
  BY DEF IInv, TypeOK, Answers, Grant
<1>2. /\ req.state = "pending" /\ MayAnswer(who, req.browser)
      /\ Issue(req.browser, req.by, given) /\ Decide(r, row)
  BY DEF Grant
<1>3. req \in RequestRows /\ req.browser \in Browsers /\ req.by \in Agents
  BY <1>1, <1>2 DEF Answers, Named
<1>4. given \in Levels /\ Allows(req.want, given)
  BY <1>3 DEF Allows, Levels, RequestRows
<1>5. AnsweredByAdmin(req.browser) => who = Admin
  BY <1>2 DEF MayAnswer, AnsweredByAdmin
<1>6. /\ row \in RequestRows /\ row.state = "granted" /\ row.browser = req.browser /\ row.by = req.by
      /\ row.given = given /\ row.want = req.want /\ row.decided = who
  <2>. HIDE DEF req, given
  <2>1. row = [req EXCEPT !.state = "granted", !.given = given, !.decided = who, !.late = FALSE]
    BY DEF Granted
  <2>. QED BY <1>3, <1>4, <2>1 DEF RequestRows
<1>7. request[r].state # "granted" /\ grant' = [grant EXCEPT ![req.browser][req.by] = given]
  BY <1>2 DEF Issue
<1>. HIDE DEF req, given, row
<1>8. Answers'
  BY <1>1, <1>2, <1>3, <1>4, <1>5, <1>6, <1>7, AnswerKeeps
<1>. QED BY <1>2, <1>3, <1>4, <1>8, GrantStep

LEMMA SweepKeeps ==
    ASSUME IInv, Sweep
    PROVE  Answers' /\ TunnelsTypeOK' /\ Wired' /\ Dry' /\ OneRowPerAddress'
<1>. DEFINE pending == {r \in RequestIds : request[r].state = "pending"}
            gone == {r \in pending : request[r].late \/ ~present[request[r].browser]}
            auto == {r \in pending \ gone : IdleGrants(request[r].browser, request[r].by)}
            For(b, a) == {r \in auto : request[r].browser = b /\ request[r].by = a}
            Lend == {b \in Browsers : \E r \in auto : request[r].browser = b /\ request[r].want = "control"}
<1>1. Answers /\ owner' = owner
  BY DEF IInv, TypeOK, Answers, Sweep
<1>2. /\ \A r \in RequestIds :
           request'[r] = IF r \in gone THEN Closed("expired")
                         ELSE IF r \in auto THEN Granted(request[r], request[r].want, "idle") ELSE request[r]
      /\ request' = [r \in RequestIds |-> request'[r]]
  BY DEF Sweep
<1>3. grant' = [b \in Browsers |-> [a \in Agents |->
                  IF For(b, a) = {} THEN grant[b][a]
                  ELSE request[CHOOSE r \in For(b, a) : \A q \in For(b, a) : q <= r].want]]
  BY DEF Sweep
<1>4. Lend \in SUBSET Browsers /\ DropFor(Lend)
  BY DEF Sweep
<1>5. \A r \in RequestIds : /\ r \in pending => request[r].browser \in Browsers /\ request[r].by \in Agents
                            /\ request[r] \in RequestRows /\ request[r].want \in Levels
                            /\ request[r].state = "granted" => r \notin pending
  BY <1>1 DEF Answers, Named, RequestRows
<1>6. \A r \in auto : r \in pending /\ r \in RequestIds /\ r \notin gone /\ ~AnsweredByAdmin(request[r].browser)
  BY DEF IdleGrants
<1>7. \A b \in Browsers, a \in Agents : For(b, a) \in SUBSET auto /\ auto \in SUBSET RequestIds /\ gone \in SUBSET pending
  OBVIOUS
<1>8. \A b \in Browsers, a \in Agents : \A r \in For(b, a) : request[r].browser = b /\ request[r].by = a
  OBVIOUS
<1>9. \A r \in auto, b \in Browsers : request[r].browser = b /\ request[r].want = "control" => b \in Lend
  OBVIOUS
<1>. HIDE DEF pending, gone, auto, For, Lend
<1>10. ASSUME NEW b \in Browsers, NEW a \in Agents
       PROVE  \/ For(b, a) = {} /\ grant'[b][a] = grant[b][a]
              \/ \E last \in For(b, a) : grant'[b][a] = request[last].want
  <2>1. For(b, a) # {} => \E last \in For(b, a) : \A q \in For(b, a) : q <= last
    BY <1>7, LastExists
  <2>. QED BY <1>3, <2>1
<1>11. ASSUME NEW r \in auto
       PROVE  /\ request'[r] \in RequestRows /\ request'[r].state = "granted"
              /\ request'[r].browser = request[r].browser /\ request'[r].by = request[r].by
              /\ request'[r].given = request[r].want /\ request'[r].want = request[r].want
  <2>1. request'[r] = [request[r] EXCEPT !.state = "granted", !.given = request[r].want, !.decided = "idle", !.late = FALSE]
    BY <1>2, <1>6 DEF Granted
  <2>. QED BY <2>1, <1>5, <1>6 DEF RequestRows
<1>12. Closed("expired") \in RequestRows /\ Closed("expired").state = "expired"
  BY DEF Closed, NoRequest, RequestRows, Levels
<1>13. request' \in [RequestIds -> RequestRows] /\ Named'
  <2>1. \A r \in RequestIds : /\ request'[r] \in RequestRows
                              /\ request'[r].state \in {"pending", "granted"} => request'[r].browser \in Browsers /\ request'[r].by \in Agents
    BY <1>1, <1>2, <1>5, <1>6, <1>11, <1>12 DEF Answers, Named
  <2>2. request' \in [RequestIds -> RequestRows]
    BY <1>2, <2>1
  <2>. QED BY <2>1, <2>2 DEF Named
<1>14. grant' \in [Browsers -> [Agents -> Levels \cup {"none"}]]
  <2>1. \A b \in Browsers, a \in Agents : grant'[b][a] \in Levels \cup {"none"}
    BY <1>1, <1>5, <1>7, <1>10 DEF Answers
  <2>2. grant' = [b \in Browsers |-> [a \in Agents |-> grant'[b][a]]]
    BY <1>3
  <2>. QED BY <2>1, <2>2
<1>15. ASSUME NEW c \in Browsers, NEW x \in Agents, grant'[c][x] # "none"
       PROVE  \E q \in RequestIds : /\ request'[q].state = "granted"
                                    /\ request'[q].browser = c /\ request'[q].by = x
                                    /\ request'[q].given = grant'[c][x]
                                    /\ Allows(request'[q].want, request'[q].given)
                                    /\ AnsweredByAdmin(c)' => request'[q].decided = Admin
  <2>1. CASE For(c, x) = {} /\ grant'[c][x] = grant[c][x]
    <3>1. PICK q \in RequestIds : /\ request[q].state = "granted"
                                  /\ request[q].browser = c /\ request[q].by = x
                                  /\ request[q].given = grant[c][x]
                                  /\ Allows(request[q].want, request[q].given)
                                  /\ AnsweredByAdmin(c) => request[q].decided = Admin
      BY <1>1, <1>15, <2>1 DEF Answers, GrantsAreAnswers
    <3>2. q \notin auto /\ q \notin gone
      BY <3>1, <1>5, <1>6, <1>7
    <3>3. request'[q] = request[q]
      BY <1>2, <3>2
    <3>. QED BY <3>1, <3>3, <2>1, <1>1 DEF AnsweredByAdmin
  <2>2. ASSUME NEW last \in For(c, x), grant'[c][x] = request[last].want
        PROVE  /\ last \in RequestIds /\ request'[last].state = "granted"
               /\ request'[last].browser = c /\ request'[last].by = x
               /\ request'[last].given = grant'[c][x]
               /\ Allows(request'[last].want, request'[last].given)
               /\ ~AnsweredByAdmin(c)'
    <3>1. last \in auto /\ last \in RequestIds /\ request[last].browser = c /\ request[last].by = x
      BY <1>7, <1>8
    <3>2. Allows(request[last].want, request[last].want)
      BY <1>5, <3>1 DEF Allows, Levels
    <3>. QED BY <2>2, <3>1, <3>2, <1>1, <1>6, <1>11 DEF AnsweredByAdmin
  <2>. QED BY <1>10, <2>1, <2>2
<1>16. Answers'
  BY <1>13, <1>14, <1>15 DEF Answers, GrantsAreAnswers
<1>17. \A b \in Browsers : Controlled(b)' => Controlled(b) \/ b \in Lend
  BY <1>7, <1>8, <1>9, <1>10 DEF Controlled
<1>. QED BY <1>4, <1>16, <1>17, GrantKeepsDry

\* A grant that is taken away, or runs out.
LEMMA TakeKeeps ==
    ASSUME IInv, NEW b \in Browsers, NEW a \in Agents, grant' = [grant EXCEPT ![b][a] = "none"],
           UNCHANGED <<tunnelVars, request, owner>>
    PROVE  Answers' /\ TunnelsTypeOK' /\ Wired' /\ Dry' /\ OneRowPerAddress'
<1>1. Answers
  BY DEF IInv, TypeOK, Answers
<1>2. \A c \in Browsers, x \in Agents : grant'[c][x] \in {grant[c][x], "none"}
  BY <1>1 DEF Answers
<1>3. grant' \in [Browsers -> [Agents -> Levels \cup {"none"}]]
  BY <1>1 DEF Answers
<1>4. request' \in [RequestIds -> RequestRows] /\ Named'
  BY <1>1 DEF Answers, Named
<1>5. Answers'
  BY <1>1, <1>2, <1>3, <1>4, AnswersStay
<1>6. \A c \in Browsers : Controlled(c)' => Controlled(c)
  BY <1>2 DEF Controlled
<1>. QED BY <1>5, <1>6, TunnelsStay

\* A request that is turned down, taken back, or past its expiry.
LEMMA CloseKeeps ==
    ASSUME IInv, NEW r \in RequestIds, request[r].state = "pending", UNCHANGED <<tunnelVars, owner, grant>>,
           \/ \E state \in {"denied", "withdrawn"} : Decide(r, Closed(state))
           \/ request' = [request EXCEPT ![r].late = TRUE]
    PROVE  Answers' /\ TunnelsTypeOK' /\ Wired' /\ Dry' /\ OneRowPerAddress'
<1>1. Answers
  BY DEF IInv, TypeOK, Answers
<1>2. \A state \in {"denied", "withdrawn"} : Closed(state) \in RequestRows /\ Closed(state).state = state
  BY DEF Closed, NoRequest, RequestRows, Levels
<1>3. ASSUME \E state \in {"denied", "withdrawn"} : Decide(r, Closed(state)) PROVE Answers'
  <2>1. PICK state \in {"denied", "withdrawn"} : Decide(r, Closed(state))
    BY <1>3
  <2>. DEFINE row == Closed(state)
  <2>2. /\ row \in RequestRows /\ Decide(r, row) /\ request[r].state # "granted" /\ grant' = grant /\ owner' = owner
        /\ row.state \in {"pending", "granted"} => row.browser \in Browsers /\ row.by \in Agents
    BY <1>2, <2>1
  <2>. HIDE DEF row
  <2>. QED BY <1>1, <2>2, DecideKeeps
<1>4. ASSUME request' = [request EXCEPT ![r].late = TRUE] PROVE Answers'
  <2>. DEFINE row == [request[r] EXCEPT !.late = TRUE]
  <2>1. Decide(r, row)
    BY <1>4 DEF Decide
  <2>2. row \in RequestRows /\ row.browser \in Browsers /\ row.by \in Agents
    <3>1. request[r] \in RequestRows /\ request[r].browser \in Browsers /\ request[r].by \in Agents
      BY <1>1 DEF Answers, Named
    <3>. QED BY <3>1 DEF RequestRows
  <2>3. request[r].state # "granted" /\ grant' = grant /\ owner' = owner
    OBVIOUS
  <2>. HIDE DEF row
  <2>. QED BY <1>1, <2>1, <2>2, <2>3, DecideKeeps
<1>5. Answers'
  BY <1>3, <1>4
<1>. QED BY <1>5, TunnelsStay DEF Controlled

---------------------------------------------------------------------------
(* The invariant, and what it establishes. *)

Others == /\ owner \in [Browsers -> Principals]
          /\ present \in [Browsers -> BOOLEAN] /\ lendable \in [Browsers -> BOOLEAN]
          /\ quiet \in [Browsers -> BOOLEAN] /\ human \in [Browsers -> BOOLEAN]

LEMMA Together == IInv <=> Answers /\ Others /\ TunnelsTypeOK /\ Wired /\ Dry /\ OneRowPerAddress
  BY DEF IInv, Answers, Others, TypeOK

LEMMA DeleteKeeps ==
    ASSUME IInv, NEW b \in Browsers, DeleteBrowser(b)
    PROVE  TunnelsTypeOK' /\ Wired' /\ Dry' /\ OneRowPerAddress'
<1>. DEFINE T == {t \in Tunnels : tunnel[t].browser = b}
<1>1. TunnelsTypeOK /\ Wired /\ Dry /\ OneRowPerAddress /\ grant' = grant
  BY DEF IInv, TypeOK, DeleteBrowser
<1>2. /\ Shut(SocketsOf({b}))
      /\ tunnel' = [t \in Tunnels |-> IF t \in T THEN [tunnel[t] EXCEPT !.state = "revoked"] ELSE tunnel[t]]
  BY DEF DeleteBrowser
<1>3. /\ T \in SUBSET Tunnels /\ {b} \in SUBSET Browsers
      /\ \A t \in Tunnels : t \in T => tunnel[t].browser \in {b}
      /\ \A t \in Tunnels : tunnel[t].state = "held" /\ tunnel[t].browser \in {b} => t \in T
  OBVIOUS
<1>. HIDE DEF T
<1>4. Recedes /\ Wired'
  BY <1>1, <1>2, <1>3, DropKeeps
<1>. QED BY <1>1, <1>4, RecedingKeeps DEF Recedes

LEMMA SameAnswers ==
    ASSUME Answers, UNCHANGED <<request, grant, owner>>
    PROVE  Answers'
  BY DEF Answers, Named, GrantsAreAnswers, AnsweredByAdmin

LEMMA Initially == Init => IInv
<1>. SUFFICES ASSUME Init PROVE IInv
  OBVIOUS
<1>1. TunnelsTypeOK /\ Wired /\ OneRowPerAddress
  BY DEF Init, TunnelsInit, TunnelsTypeOK, TunnelRows, SocketRows, DialRows, Wired, Running, OneRowPerAddress
<1>2. request \in [RequestIds -> RequestRows] /\ Named
  BY DEF Init, NoRequest, RequestRows, Levels, Named
<1>3. \A b \in Browsers, a \in Agents : grant[b][a] = "none"
  BY DEF Init
<1>4. Answers
  BY <1>2, <1>3 DEF Init, Answers, GrantsAreAnswers
<1>5. Dry
  BY <1>3 DEF Dry, Controlled
<1>6. Others
  BY DEF Init, Others
<1>. QED BY <1>1, <1>4, <1>5, <1>6, Together

LEMMA Step == IInv /\ [Next]_vars => IInv'
<1>. SUFFICES ASSUME IInv, [Next]_vars PROVE IInv'
  OBVIOUS
<1>. DEFINE Goal == Answers' /\ TunnelsTypeOK' /\ Wired' /\ Dry' /\ OneRowPerAddress'
<1>1. Answers /\ Others
  BY Together
<1>2. ASSUME NEW a \in Agents, NEW b \in Browsers, NEW want \in Levels, NEW r \in RequestIds, Ask(a, b, want, r)
      PROVE  Goal /\ Others'
  BY <1>1, <1>2, AskKeeps DEF Ask, Others
<1>3. ASSUME NEW who \in Principals, NEW r \in RequestIds, NEW level \in Levels, Grant(who, r, level)
      PROVE  Goal /\ Others'
  BY <1>1, <1>3, GrantKeeps DEF Grant, Others
<1>4. ASSUME NEW who \in Principals, NEW r \in RequestIds, Deny(who, r) \/ Withdraw(who, r) \/ RequestLapses(r)
      PROVE  Goal /\ Others'
  <2>1. request[r].state = "pending" /\ UNCHANGED <<tunnelVars, owner, present, lendable, quiet, human, grant>>
    BY <1>4 DEF Deny, Withdraw, RequestLapses
  <2>2. \/ \E state \in {"denied", "withdrawn"} : Decide(r, Closed(state))
        \/ request' = [request EXCEPT ![r].late = TRUE]
    BY <1>4 DEF Deny, Withdraw, RequestLapses
  <2>3. Goal
    BY <2>1, <2>2, CloseKeeps
  <2>. QED BY <1>1, <2>1, <2>3 DEF Others
<1>5. ASSUME NEW who \in Principals, NEW b \in Browsers, NEW a \in Agents, Revoke(who, b, a) \/ GrantLapses(b, a)
      PROVE  Goal /\ Others'
  BY <1>1, <1>5, TakeKeeps DEF Revoke, GrantLapses, Others
<1>6. ASSUME Sweep PROVE Goal /\ Others'
  BY <1>1, <1>6, SweepKeeps DEF Sweep, Others
<1>7. ASSUME NEW t \in Tunnels, NEW b \in Browsers, NEW at \in Addresses, CreateTunnel(t, b, at)
      PROVE  Goal /\ Others'
  BY <1>1, <1>7, OpenKeeps, SameAnswers DEF CreateTunnel, lendingVars, Others
<1>8. ASSUME NEW b \in Browsers, DeleteBrowser(b) PROVE Goal /\ Others'
  BY <1>1, <1>8, DeleteKeeps, SameAnswers DEF DeleteBrowser, Others
<1>9. ASSUME NEW b \in Browsers, Settles(b) \/ PersonTakesOrLeaves(b) \/ SetLendable(b) PROVE Goal /\ Others'
  <2>1. UNCHANGED <<tunnelVars, owner, present, request, grant>>
    BY <1>9 DEF Settles, PersonTakesOrLeaves, SetLendable
  <2>2. Others'
    BY <1>1, <1>9 DEF Settles, PersonTakesOrLeaves, SetLendable, Others
  <2>. QED BY <1>1, <2>1, <2>2, SameAnswers, TunnelsStay DEF Controlled
<1>10. ASSUME TunnelsNext, UNCHANGED lendingVars PROVE Goal /\ Others'
  <2>1. UNCHANGED <<request, grant, owner>> /\ Others'
    BY <1>1, <1>10 DEF lendingVars, Others
  <2>. QED BY <1>1, <1>10, <2>1, TunnelStep, SameAnswers
<1>11. ASSUME UNCHANGED vars PROVE Goal /\ Others'
  <2>1. UNCHANGED <<tunnelVars, request, grant, owner>> /\ Others'
    BY <1>1, <1>11 DEF vars, lendingVars, Others
  <2>. QED BY <1>1, <2>1, SameAnswers, TunnelsStay DEF Controlled
<1>. HIDE DEF Goal
<1>12. Goal /\ Others'
  <2>1. ASSUME Next PROVE Goal /\ Others'
    <3>1. \A r \in RequestIds : RequestLapses(r) => \E who \in Principals : RequestLapses(r)
      BY DEF Principals
    <3>2. \A b \in Browsers, a \in Agents : GrantLapses(b, a) => \E who \in Principals : GrantLapses(b, a)
      BY DEF Principals
    <3>. QED BY <2>1, <3>1, <3>2, <1>2, <1>3, <1>4, <1>5, <1>6, <1>7, <1>8, <1>9, <1>10 DEF Next
  <2>. QED BY <2>1, <1>11
<1>. USE DEF Goal
<1>. QED BY <1>12 DEF IInv, Answers, Others, TypeOK

LEMMA Invariant == Spec => []IInv
  BY Initially, Step, PTL DEF Spec

\* Requests, grants, rows, sockets and streams keep their types.
THEOREM LendingTypes == Spec => []TypeOK
<1>1. IInv => TypeOK
  BY DEF IInv
<1>. QED BY <1>1, Invariant, PTL

\* An agent that holds a control grant finds no tunnel of the owner's in the browser: neither a
\* row, nor a socket, nor a stream.
THEOREM NothingInherited == Spec => []LentWithoutTunnel
<1>1. IInv => LentWithoutTunnel
  BY DryLends DEF IInv
<1>. QED BY <1>1, Invariant, PTL

\* Whatever is held was asked for and given by who may give it.
THEOREM GrantsWereAnswered == Spec => []GrantsAreAnswers
<1>1. IInv => GrantsAreAnswers
  BY DEF IInv
<1>. QED BY <1>1, Invariant, PTL

\* A stream is cut with the socket, the registration or the row it needs.
THEOREM StreamsAreCut == Spec => []CutWithBinding
<1>1. IInv => CutWithBinding
  BY WiredCuts DEF IInv, TypeOK
<1>. QED BY <1>1, Invariant, PTL

\* The unique index on the unrevoked rows is never run into.
THEOREM IndexHolds == Spec => []OneRowPerAddress
<1>1. IInv => OneRowPerAddress
  BY DEF IInv
<1>. QED BY <1>1, Invariant, PTL

---------------------------------------------------------------------------
(* The streams of one socket. *)

Asking == [type: {"OPEN", "CLOSE"}, id: Ids]
Answering == [type: {"ACK", "NONE", "ERROR", "CLOSE"}, id: Ids]

\* The OPEN of a stream is the first of its frames.
OpensFirst(q) == \A m, n \in DOMAIN q : q[m] = F("OPEN", q[n].id) => m <= n

Asked(i) == Coming(toServer, i, {"OPEN"})
Closing(i) == Coming(toServer, i, {"CLOSE"})
Acked(i) == Coming(toOpener, i, {"ACK"})
Refused(i) == Coming(toOpener, i, {"NONE", "ERROR"})
Ended(i) == Coming(toOpener, i, {"CLOSE"})

\* Both ends of a stream and what is on its way agree.
StreamAgrees(i) ==
    /\ Asked(i) <=> served[i] = "unused" /\ opened[i] # "unused"
    /\ opened[i] = "unused" => served[i] = "unused"
    /\ served[i] \in {"unused", "dialling"} => /\ ~Acked(i) /\ ~Refused(i) /\ ~Ended(i)
                                               /\ opened[i] \in {"unused", "opening", "given up"}
    /\ Closing(i) \/ served[i] = "ending" => opened[i] \notin {"unused", "opening"}
    /\ /\ opened[i] \in {"gone", "half"} \/ (opened[i] = "given up" /\ loop = "client")
       /\ served[i] \in {"unused", "dialling", "serving"}
       => Closing(i)
    /\ opened[i] = "opening" => served[i] \in {"unused", "dialling"} \/ Acked(i) \/ Refused(i)
    /\ loop = "instance" /\ ((opened[i] = "opening" /\ Acked(i)) \/ opened[i] \in {"open", "half"})
       => served[i] \in {"serving", "ending"} \/ Ended(i)

Numbered == \A i \in Ids : opened[i] = "unused" <=> i >= nextId

StreamTypes ==
    /\ StreamsTypeOK /\ Numbered
    /\ toServer \in Seq(Asking) /\ toOpener \in Seq(Answering)

StreamsInv ==
    /\ StreamTypes
    /\ openerUp /\ serverUp => OpensFirst(toServer) /\ \A i \in Ids : StreamAgrees(i)

LEMMA FrameSent ==
    ASSUME NEW S, NEW q \in Seq(S), NEW f \in S
    PROVE  /\ Append(q, f) \in Seq(S)
           /\ \A i, T : Coming(Append(q, f), i, T) <=> Coming(q, i, T) \/ (f.id = i /\ f.type \in T)
<1>1. /\ Append(q, f) \in Seq(S) /\ DOMAIN Append(q, f) = 1..(Len(q) + 1) /\ DOMAIN q = 1..Len(q) /\ Len(q) \in Nat
      /\ \A n \in 1..Len(q) : Append(q, f)[n] = q[n]
      /\ Append(q, f)[Len(q) + 1] = f
  BY AppendProperties, LenProperties
<1>2. \A n \in 1..(Len(q) + 1) : n \in 1..Len(q) \/ n = Len(q) + 1
  BY <1>1
<1>3. 1..Len(q) \subseteq 1..(Len(q) + 1) /\ Len(q) + 1 \in 1..(Len(q) + 1)
  BY <1>1
<1>. HIDE DEF Coming
<1>4. ASSUME NEW i, NEW T PROVE Coming(Append(q, f), i, T) <=> Coming(q, i, T) \/ (f.id = i /\ f.type \in T)
  <2>. DEFINE p == Append(q, f)
  <2>. HIDE DEF p
  <2>1. Coming(p, i, T) => Coming(q, i, T) \/ (f.id = i /\ f.type \in T)
    BY <1>1, <1>2 DEF Coming, p
  <2>2. Coming(q, i, T) => Coming(p, i, T)
    BY <1>1, <1>3 DEF Coming, p
  <2>3. f.id = i /\ f.type \in T => Coming(p, i, T)
    BY <1>1, <1>3 DEF Coming, p
  <2>. QED BY <2>1, <2>2, <2>3 DEF p
<1>. QED BY <1>1, <1>4

LEMMA FrameRead ==
    ASSUME NEW S, NEW q \in Seq(S), q # <<>>
    PROVE  /\ Tail(q) \in Seq(S) /\ Head(q) \in S
           /\ \A i, T : Coming(q, i, T) <=> Coming(Tail(q), i, T) \/ (Head(q).id = i /\ Head(q).type \in T)
<1>1. /\ Tail(q) \in Seq(S) /\ Head(q) \in S /\ Head(q) = q[1] /\ DOMAIN q = 1..Len(q) /\ Len(q) \in Nat /\ Len(q) >= 1
      /\ DOMAIN Tail(q) = 1..(Len(q) - 1)
      /\ \A n \in 1..(Len(q) - 1) : Tail(q)[n] = q[n + 1]
  BY HeadTailProperties, LenProperties, EmptySeq
<1>2. \A n \in 1..Len(q) : n = 1 \/ (n - 1 \in 1..(Len(q) - 1) /\ n = (n - 1) + 1)
  BY <1>1
<1>3. 1 \in 1..Len(q) /\ \A n \in 1..(Len(q) - 1) : n + 1 \in 1..Len(q)
  BY <1>1
<1>4. ASSUME NEW i, NEW T PROVE Coming(q, i, T) <=> Coming(Tail(q), i, T) \/ (Head(q).id = i /\ Head(q).type \in T)
  <2>. DEFINE p == Tail(q)
  <2>. HIDE DEF p
  <2>1. Coming(q, i, T) => Coming(p, i, T) \/ (Head(q).id = i /\ Head(q).type \in T)
    <3>. SUFFICES ASSUME NEW n \in 1..Len(q), q[n].id = i, q[n].type \in T, n # 1 PROVE Coming(p, i, T)
      BY <1>1 DEF Coming
    <3>1. n - 1 \in 1..(Len(q) - 1) /\ q[n] = p[n - 1]
      BY <1>1, <1>2 DEF p
    <3>. QED BY <1>1, <3>1 DEF Coming, p
  <2>2. Coming(p, i, T) => Coming(q, i, T)
    BY <1>1, <1>3 DEF Coming, p
  <2>3. Head(q).id = i /\ Head(q).type \in T => Coming(q, i, T)
    BY <1>1, <1>3 DEF Coming
  <2>. QED BY <2>1, <2>2, <2>3 DEF p
<1>. QED BY <1>1, <1>4

LEMMA FirstSent ==
    ASSUME NEW q \in Seq(Asking), NEW f \in Asking, OpensFirst(q),
           f.type = "OPEN" => ~Coming(q, f.id, {"OPEN", "CLOSE"})
    PROVE  OpensFirst(Append(q, f))
<1>1. /\ DOMAIN Append(q, f) = 1..(Len(q) + 1) /\ DOMAIN q = 1..Len(q) /\ Len(q) \in Nat
      /\ \A n \in 1..Len(q) : Append(q, f)[n] = q[n] /\ q[n] \in Asking
      /\ Append(q, f)[Len(q) + 1] = f
  BY AppendProperties, LenProperties, ElementOfSeq
<1>. SUFFICES ASSUME NEW m \in 1..(Len(q) + 1), NEW n \in 1..(Len(q) + 1), Append(q, f)[m] = F("OPEN", Append(q, f)[n].id)
              PROVE  m <= n
  BY <1>1 DEF OpensFirst
<1>2. CASE n = Len(q) + 1
  BY <1>1, <1>2
<1>3. CASE n # Len(q) + 1 /\ m # Len(q) + 1
  BY <1>1, <1>3 DEF OpensFirst
<1>4. CASE n # Len(q) + 1 /\ m = Len(q) + 1
  <2>1. n \in 1..Len(q) /\ f = F("OPEN", q[n].id) /\ q[n].type \in {"OPEN", "CLOSE"}
    BY <1>1, <1>4 DEF Asking
  <2>2. f.type = "OPEN" /\ f.id = q[n].id
    BY <2>1 DEF F
  <2>. QED BY <1>1, <2>1, <2>2 DEF Coming
<1>. QED BY <1>2, <1>3, <1>4

LEMMA FirstRead ==
    ASSUME NEW q \in Seq(Asking), q # <<>>, OpensFirst(q)
    PROVE  /\ OpensFirst(Tail(q))
           /\ ~Coming(Tail(q), Head(q).id, {"OPEN"})
<1>1. /\ Head(q) \in Asking /\ Head(q) = q[1] /\ DOMAIN q = 1..Len(q) /\ Len(q) \in Nat /\ Len(q) >= 1
      /\ DOMAIN Tail(q) = 1..(Len(q) - 1)
      /\ \A n \in 1..(Len(q) - 1) : Tail(q)[n] = q[n + 1] /\ n + 1 \in 1..Len(q)
      /\ \A n \in 1..Len(q) : q[n] \in Asking
  BY HeadTailProperties, LenProperties, EmptySeq, ElementOfSeq
<1>2. OpensFirst(Tail(q))
  <2>. SUFFICES ASSUME NEW m \in 1..(Len(q) - 1), NEW n \in 1..(Len(q) - 1), Tail(q)[m] = F("OPEN", Tail(q)[n].id)
                PROVE  m <= n
    BY <1>1 DEF OpensFirst
  <2>1. q[m + 1] = F("OPEN", q[n + 1].id) /\ m + 1 \in DOMAIN q /\ n + 1 \in DOMAIN q
    BY <1>1
  <2>2. m + 1 <= n + 1
    BY <2>1 DEF OpensFirst
  <2>. QED BY <2>2
<1>3. ASSUME NEW n \in 1..(Len(q) - 1), Tail(q)[n].id = Head(q).id, Tail(q)[n].type = "OPEN" PROVE FALSE
  <2>1. q[n + 1] \in Asking /\ q[n + 1].type = "OPEN" /\ q[n + 1].id = q[1].id /\ n + 1 \in DOMAIN q /\ 1 \in DOMAIN q
    BY <1>1, <1>3
  <2>2. q[n + 1] = F("OPEN", q[1].id)
    BY <2>1 DEF Asking, F
  <2>3. n + 1 <= 1
    BY <2>1, <2>2 DEF OpensFirst
  <2>. QED BY <2>3
<1>. QED BY <1>1, <1>2, <1>3 DEF Coming

\* What a frame sent while both ends see the socket open changes for each stream.
LEMMA ToServerSent ==
    ASSUME StreamTypes, NEW f \in Asking, ToServer(f), openerUp' = openerUp, serverUp' = serverUp
    PROVE  /\ toServer' \in Seq(Asking)
           /\ openerUp /\ serverUp => \A i \in Ids : /\ Asked(i)' <=> Asked(i) \/ (f.id = i /\ f.type = "OPEN")
                                                     /\ Closing(i)' <=> Closing(i) \/ (f.id = i /\ f.type = "CLOSE")
           /\ /\ openerUp /\ serverUp /\ OpensFirst(toServer)
              /\ f.type = "OPEN" => ~Asked(f.id) /\ ~Closing(f.id)
              => OpensFirst(toServer)'
<1>1. CASE openerUp /\ serverUp
  <2>1. toServer' = Append(toServer, f) /\ toServer \in Seq(Asking)
    BY <1>1 DEF ToServer, StreamTypes
  <2>2. toServer' \in Seq(Asking) /\ \A i, T : Coming(toServer', i, T) <=> Coming(toServer, i, T) \/ (f.id = i /\ f.type \in T)
    BY <2>1, FrameSent
  <2>3. Coming(toServer, f.id, {"OPEN", "CLOSE"}) => Asked(f.id) \/ Closing(f.id)
    BY DEF Coming, Asked, Closing
  <2>4. OpensFirst(toServer) /\ (f.type = "OPEN" => ~Asked(f.id) /\ ~Closing(f.id)) => OpensFirst(toServer')
    BY <2>1, <2>3, FirstSent
  <2>. QED BY <2>2, <2>4 DEF Asked, Closing
<1>2. CASE ~(openerUp /\ serverUp)
  BY <1>2 DEF ToServer, StreamTypes
<1>. QED BY <1>1, <1>2

LEMMA ToOpenerSent ==
    ASSUME StreamTypes, NEW f \in Answering, ToOpener(f)
    PROVE  /\ toOpener' \in Seq(Answering)
           /\ openerUp /\ serverUp => \A i \in Ids : /\ Acked(i)' <=> Acked(i) \/ (f.id = i /\ f.type = "ACK")
                                                     /\ Refused(i)' <=> Refused(i) \/ (f.id = i /\ f.type \in {"NONE", "ERROR"})
                                                     /\ Ended(i)' <=> Ended(i) \/ (f.id = i /\ f.type = "CLOSE")
<1>1. CASE openerUp /\ serverUp
  <2>1. toOpener' = Append(toOpener, f) /\ toOpener \in Seq(Answering)
    BY <1>1 DEF ToOpener, StreamTypes
  <2>2. toOpener' \in Seq(Answering) /\ \A i, T : Coming(toOpener', i, T) <=> Coming(toOpener, i, T) \/ (f.id = i /\ f.type \in T)
    BY <2>1, FrameSent
  <2>. QED BY <2>2 DEF Acked, Refused, Ended
<1>2. CASE ~(openerUp /\ serverUp)
  BY <1>2 DEF ToOpener, StreamTypes
<1>. QED BY <1>1, <1>2

LEMMA SameFrames ==
    /\ toServer' = toServer => /\ \A i \in Ids : Asked(i)' = Asked(i) /\ Closing(i)' = Closing(i)
                               /\ OpensFirst(toServer)' = OpensFirst(toServer)
    /\ toOpener' = toOpener => \A i \in Ids : Acked(i)' = Acked(i) /\ Refused(i)' = Refused(i) /\ Ended(i)' = Ended(i)
BY DEF Asked, Closing, Acked, Refused, Ended, OpensFirst

LEMMA OwnFrames ==
    ASSUME NEW i \in Ids
    PROVE  /\ \A type \in {"OPEN", "CLOSE"} : F(type, i) \in Asking /\ F(type, i).id = i /\ F(type, i).type = type
           /\ \A type \in {"ACK", "NONE", "ERROR", "CLOSE"} : F(type, i) \in Answering /\ F(type, i).id = i /\ F(type, i).type = type
BY DEF F, Asking, Answering

LEMMA FramesAll ==
    /\ \A q \in Seq(Asking) : q \in Seq(Frames)
    /\ \A q \in Seq(Answering) : q \in Seq(Frames)
<1>1. Asking \subseteq Frames /\ Answering \subseteq Frames
  BY DEF Asking, Answering, Frames
<1>2. ASSUME NEW S, S \subseteq Frames, NEW q \in Seq(S) PROVE q \in Seq(Frames)
  <2>1. Len(q) \in Nat /\ q \in [1..Len(q) -> S]
    BY LenProperties
  <2>2. q \in [1..Len(q) -> Frames]
    BY <1>2, <2>1
  <2>. QED BY <2>1, <2>2, SeqDef
<1>. QED BY <1>1, <1>2

LEMMA OpenKeepsStreams == ASSUME StreamsInv, Open PROVE StreamsInv'
<1>1. /\ nextId \in Ids /\ opened' = [opened EXCEPT ![nextId] = "opening"] /\ nextId' = nextId + 1
      /\ ToServer(F("OPEN", nextId)) /\ UNCHANGED <<served, toOpener, openerUp, serverUp, loop>>
      /\ StreamTypes /\ StreamsTypeOK
  BY DEF Open, StreamsInv, StreamTypes
<1>. DEFINE i == nextId
<1>2. opened[i] = "unused"
  <2>1. nextId >= nextId
    BY <1>1, StreamLimits DEF Ids
  <2>. QED BY <1>1, <2>1 DEF StreamTypes, Numbered
<1>3. opened'[i] = "opening" /\ \A j \in Ids \ {i} : opened'[j] = opened[j]
  BY <1>1 DEF StreamsTypeOK
<1>4. F("OPEN", i) \in Asking /\ F("OPEN", i).id = i /\ F("OPEN", i).type = "OPEN"
  BY <1>1, OwnFrames
<1>5. Numbered'
  <2>1. nextId \in Nat /\ \A j \in Ids : j \in Nat
    BY <1>1, StreamLimits DEF Ids
  <2>. QED BY <1>1, <1>2, <1>3, <2>1 DEF Numbered, StreamTypes
<1>6. StreamTypes'
  <2>1. toServer' \in Seq(Asking) /\ toOpener' \in Seq(Answering)
    BY <1>1, <1>4, ToServerSent DEF StreamTypes
  <2>2. toServer' \in Seq(Frames) /\ toOpener' \in Seq(Frames)
    BY <2>1, FramesAll
  <2>3. nextId' \in 1..(MaxIds + 1)
    BY <1>1, StreamLimits DEF Ids
  <2>. QED BY <1>1, <1>5, <2>1, <2>2, <2>3 DEF StreamTypes, StreamsTypeOK
<1>7. ASSUME openerUp, serverUp PROVE OpensFirst(toServer)' /\ \A j \in Ids : StreamAgrees(j)'
  <2>1. OpensFirst(toServer) /\ \A j \in Ids : StreamAgrees(j)
    BY <1>7 DEF StreamsInv
  <2>2. ~Asked(i) /\ ~Closing(i) /\ served[i] = "unused"
    BY <1>1, <1>2, <2>1 DEF StreamAgrees
  <2>3. /\ OpensFirst(toServer)'
        /\ \A j \in Ids : /\ Asked(j)' <=> Asked(j) \/ i = j
                          /\ Closing(j)' <=> Closing(j)
    BY <1>1, <1>4, <1>7, <2>1, <2>2, ToServerSent
  <2>4. \A j \in Ids : (Acked(j)' <=> Acked(j)) /\ (Refused(j)' <=> Refused(j)) /\ (Ended(j)' <=> Ended(j))
    BY <1>1, SameFrames
  <2>. QED BY <1>1, <1>2, <1>3, <2>1, <2>2, <2>3, <2>4 DEF StreamAgrees
<1>. QED BY <1>1, <1>6, <1>7 DEF StreamsInv

\* A step that opens no stream keeps the invariant, if it keeps what a socket open at both ends
\* says of each stream.
LEMMA StreamStep ==
    ASSUME StreamsInv, UNCHANGED <<nextId, loop>>,
           opened' \in [Ids -> {"unused", "opening", "open", "half", "ended", "gone", "given up"}],
           served' \in [Ids -> {"unused", "dialling", "serving", "ending", "gone"}],
           openerUp' \in BOOLEAN, serverUp' \in BOOLEAN,
           toServer' \in Seq(Asking), toOpener' \in Seq(Answering),
           \A i \in Ids : opened'[i] = "unused" <=> opened[i] = "unused",
           openerUp' /\ serverUp' => OpensFirst(toServer)' /\ \A i \in Ids : StreamAgrees(i)'
    PROVE  StreamsInv'
<1>1. Numbered'
  BY DEF StreamsInv, StreamTypes, Numbered
<1>2. toServer' \in Seq(Frames) /\ toOpener' \in Seq(Frames)
  BY FramesAll
<1>3. StreamsTypeOK'
  BY <1>2 DEF StreamsInv, StreamTypes, StreamsTypeOK
<1>. QED BY <1>1, <1>3 DEF StreamsInv, StreamTypes

LEMMA StreamFacts ==
    ASSUME StreamsInv
    PROVE  /\ opened \in [Ids -> {"unused", "opening", "open", "half", "ended", "gone", "given up"}]
           /\ served \in [Ids -> {"unused", "dialling", "serving", "ending", "gone"}]
           /\ openerUp \in BOOLEAN /\ serverUp \in BOOLEAN /\ loop \in {"instance", "client"}
           /\ toServer \in Seq(Asking) /\ toOpener \in Seq(Answering) /\ StreamTypes
           /\ openerUp /\ serverUp => OpensFirst(toServer) /\ \A i \in Ids : StreamAgrees(i)
  BY DEF StreamsInv, StreamTypes, StreamsTypeOK

\* The opener says CLOSE for a stream: it gives up one that waits, or ends one that carries bytes.
LEMMA OpenerEnds ==
    ASSUME StreamsInv, NEW i \in Ids, NEW as \in {"given up", "gone", "half"},
           \/ opened[i] = "opening" /\ as = "given up"
           \/ opened[i] \in {"open", "half"} /\ as = "gone"
           \/ opened[i] = "open" /\ as = "half",
           opened' = [opened EXCEPT ![i] = as], ToServer(F("CLOSE", i)),
           UNCHANGED <<served, toOpener, openerUp, serverUp, nextId, loop>>
    PROVE  StreamsInv'
<1>1. opened'[i] = as /\ \A j \in Ids \ {i} : opened'[j] = opened[j]
  BY StreamFacts
<1>2. F("CLOSE", i) \in Asking /\ F("CLOSE", i).id = i /\ F("CLOSE", i).type = "CLOSE"
  BY OwnFrames
<1>3. /\ opened' \in [Ids -> {"unused", "opening", "open", "half", "ended", "gone", "given up"}]
      /\ toServer' \in Seq(Asking)
  BY <1>2, StreamFacts, ToServerSent
<1>4. ASSUME openerUp, serverUp PROVE OpensFirst(toServer)' /\ \A j \in Ids : StreamAgrees(j)'
  <2>1. OpensFirst(toServer) /\ \A j \in Ids : StreamAgrees(j)
    BY <1>4, StreamFacts
  <2>2. /\ OpensFirst(toServer)'
        /\ \A j \in Ids : /\ Asked(j)' <=> Asked(j)
                          /\ Closing(j)' <=> Closing(j) \/ i = j
    BY <1>2, <1>4, <2>1, StreamFacts, ToServerSent
  <2>3. \A j \in Ids : (Acked(j)' <=> Acked(j)) /\ (Refused(j)' <=> Refused(j)) /\ (Ended(j)' <=> Ended(j))
    BY SameFrames
  <2>4. StreamAgrees(i)'
    BY <1>1, <2>1, <2>2, <2>3 DEF StreamAgrees
  <2>5. \A j \in Ids \ {i} : StreamAgrees(j)'
    BY <1>1, <2>1, <2>2, <2>3 DEF StreamAgrees
  <2>. QED BY <2>2, <2>4, <2>5
<1>. QED BY <1>1, <1>3, <1>4, StreamFacts, StreamStep

LEMMA OpenerReadsKeeps == ASSUME StreamsInv, OpenerReads PROVE StreamsInv'
<1>. DEFINE f == Head(toOpener)
<1>1. /\ toOpener # <<>> /\ toOpener' = Tail(toOpener)
      /\ UNCHANGED <<served, openerUp, serverUp, nextId, loop>>
      /\ \/ f.id \notin InMap /\ UNCHANGED <<opened, toServer>>
         \/ /\ f.id \in InMap /\ f.type = "ACK" /\ UNCHANGED toServer
            /\ opened' = [opened EXCEPT ![f.id] = IF @ = "opening" THEN "open" ELSE @]
         \/ /\ f.id \in InMap /\ f.type \in {"NONE", "ERROR"}
            /\ opened' = [opened EXCEPT ![f.id] = "gone"] /\ ToServer(F("CLOSE", f.id))
         \/ /\ f.id \in InMap /\ f.type = "CLOSE" /\ UNCHANGED toServer
            /\ opened' = [opened EXCEPT ![f.id] = "ended"]
  BY DEF OpenerReads, DropStream
<1>2. /\ toOpener' \in Seq(Answering) /\ f \in Answering
      /\ \A i, T : Coming(toOpener, i, T) <=> Coming(toOpener', i, T) \/ (f.id = i /\ f.type \in T)
  BY <1>1, StreamFacts, FrameRead
<1>3. PICK i \in Ids, type \in {"ACK", "NONE", "ERROR", "CLOSE"} : f.id = i /\ f.type = type
  BY <1>2 DEF Answering
<1>. HIDE DEF f
<1>4. /\ Acked(i) \/ type # "ACK"
      /\ Refused(i) \/ type \notin {"NONE", "ERROR"}
      /\ Ended(i) \/ type # "CLOSE"
      /\ \A j \in Ids : /\ Acked(j)' => Acked(j)
                        /\ Refused(j)' => Refused(j)
                        /\ Ended(j)' => Ended(j)
                        /\ Acked(j) => Acked(j)' \/ (j = i /\ type = "ACK")
                        /\ Refused(j) => Refused(j)' \/ (j = i /\ type \in {"NONE", "ERROR"})
                        /\ Ended(j) => Ended(j)' \/ (j = i /\ type = "CLOSE")
  BY <1>2, <1>3 DEF Acked, Refused, Ended
<1>5. i \in InMap <=> opened[i] \in {"opening", "open", "half"}
  BY <1>3 DEF InMap
<1>6. CASE UNCHANGED toServer /\ opened' \in [Ids -> {"unused", "opening", "open", "half", "ended", "gone", "given up"}]
           /\ (\A j \in Ids \ {i} : opened'[j] = opened[j])
           /\ \/ i \notin InMap /\ opened'[i] = opened[i]
              \/ i \in InMap /\ type = "ACK" /\ opened'[i] = IF opened[i] = "opening" THEN "open" ELSE opened[i]
              \/ i \in InMap /\ type = "CLOSE" /\ opened'[i] = "ended"
  <2>1. toServer' \in Seq(Asking)
    BY <1>6, StreamFacts
  <2>2. \A j \in Ids : opened'[j] = "unused" <=> opened[j] = "unused"
    BY <1>5, <1>6
  <2>3. ASSUME openerUp, serverUp PROVE OpensFirst(toServer)' /\ \A j \in Ids : StreamAgrees(j)'
    <3>1. OpensFirst(toServer) /\ \A j \in Ids : StreamAgrees(j)
      BY <2>3, StreamFacts
    <3>2. OpensFirst(toServer)' /\ \A j \in Ids : (Asked(j)' <=> Asked(j)) /\ (Closing(j)' <=> Closing(j))
      BY <1>6, <3>1, SameFrames
    <3>3. ASSUME NEW j \in Ids \ {i} PROVE StreamAgrees(j)'
      <4>1. /\ opened'[j] = opened[j] /\ served'[j] = served[j] /\ loop' = loop
            /\ Acked(j)' <=> Acked(j)
            /\ Refused(j)' <=> Refused(j)
            /\ Ended(j)' <=> Ended(j)
        BY <1>1, <1>4, <1>6
      <4>. QED BY <3>1, <3>2, <4>1 DEF StreamAgrees
    <3>4. StreamAgrees(i)'
      <4>1. CASE i \notin InMap
        BY <1>1, <1>3, <1>4, <1>5, <1>6, <3>1, <3>2, <4>1 DEF StreamAgrees
      <4>2. CASE i \in InMap /\ type = "ACK"
        <5>1. Acked(i) /\ (Refused(i)' <=> Refused(i)) /\ (Ended(i)' <=> Ended(i)) /\ served'[i] = served[i] /\ loop' = loop
          BY <1>1, <1>3, <1>4, <4>2
        <5>2. opened'[i] \in {"open", "half"} /\ opened[i] \in {"opening", "open", "half"} /\ (opened'[i] = "half" <=> opened[i] = "half")
          BY <1>5, <1>6, <4>2
        <5>. QED BY <3>1, <3>2, <1>3, <5>1, <5>2 DEF StreamAgrees
      <4>3. CASE i \in InMap /\ type = "CLOSE"
        <5>1. Ended(i) /\ opened'[i] = "ended" /\ served'[i] = served[i] /\ loop' = loop
          BY <1>1, <1>3, <1>4, <1>6, <4>3
        <5>. QED BY <3>1, <3>2, <1>3, <5>1 DEF StreamAgrees
      <4>. QED BY <1>6, <4>1, <4>2, <4>3
    <3>. QED BY <3>2, <3>3, <3>4
  <2>. QED BY <1>1, <1>2, <1>6, <2>1, <2>2, <2>3, StreamFacts, StreamStep
<1>7. CASE i \in InMap /\ type \in {"NONE", "ERROR"} /\ opened' = [opened EXCEPT ![i] = "gone"] /\ ToServer(F("CLOSE", i))
  <2>1. /\ opened' \in [Ids -> {"unused", "opening", "open", "half", "ended", "gone", "given up"}]
        /\ opened'[i] = "gone" /\ \A j \in Ids \ {i} : opened'[j] = opened[j]
    BY <1>3, <1>7, StreamFacts
  <2>2. F("CLOSE", i) \in Asking /\ F("CLOSE", i).id = i /\ F("CLOSE", i).type = "CLOSE"
    BY <1>3, OwnFrames
  <2>3. toServer' \in Seq(Asking)
    BY <1>1, <1>7, <2>2, StreamFacts, ToServerSent
  <2>4. \A j \in Ids : opened'[j] = "unused" <=> opened[j] = "unused"
    BY <1>5, <1>7, <2>1
  <2>5. ASSUME openerUp, serverUp PROVE OpensFirst(toServer)' /\ \A j \in Ids : StreamAgrees(j)'
    <3>1. OpensFirst(toServer) /\ \A j \in Ids : StreamAgrees(j)
      BY <2>5, StreamFacts
    <3>2. /\ OpensFirst(toServer)'
          /\ \A j \in Ids : /\ Asked(j)' <=> Asked(j)
                            /\ Closing(j)' <=> Closing(j) \/ i = j
      BY <1>1, <1>7, <2>2, <2>5, <3>1, StreamFacts, ToServerSent
    <3>3. ASSUME NEW j \in Ids \ {i} PROVE StreamAgrees(j)'
      <4>1. /\ opened'[j] = opened[j] /\ served'[j] = served[j] /\ loop' = loop
            /\ Acked(j)' <=> Acked(j)
            /\ Refused(j)' <=> Refused(j)
            /\ Ended(j)' <=> Ended(j)
        BY <1>1, <1>4, <2>1
      <4>. QED BY <3>1, <3>2, <4>1 DEF StreamAgrees
    <3>4. StreamAgrees(i)'
      <4>1. Refused(i) /\ opened'[i] = "gone" /\ served'[i] = served[i] /\ loop' = loop
        BY <1>1, <1>3, <1>4, <1>7, <2>1
      <4>. QED BY <1>3, <3>1, <3>2, <4>1 DEF StreamAgrees
    <3>. QED BY <3>2, <3>3, <3>4
  <2>. QED BY <1>1, <1>2, <2>1, <2>3, <2>4, <2>5, StreamFacts, StreamStep
<1>. QED
  <2>1. opened \in [Ids -> {"unused", "opening", "open", "half", "ended", "gone", "given up"}]
    BY StreamFacts
  <2>. QED BY <1>1, <1>3, <1>6, <1>7, <2>1

LEMMA ServerReadsKeeps == ASSUME StreamsInv, ServerReads PROVE StreamsInv'
<1>. DEFINE f == Head(toServer)
<1>1. /\ toServer # <<>> /\ toServer' = Tail(toServer)
      /\ UNCHANGED <<opened, toOpener, openerUp, serverUp, nextId, loop>>
      /\ served' = IF f.type = "OPEN" THEN [served EXCEPT ![f.id] = "dialling"]
                   ELSE IF served[f.id] \in Known THEN [served EXCEPT ![f.id] = "ending"]
                   ELSE served
  BY DEF ServerReads
<1>2. /\ toServer' \in Seq(Asking) /\ f \in Asking
      /\ \A i, T : Coming(toServer, i, T) <=> Coming(toServer', i, T) \/ (f.id = i /\ f.type \in T)
  BY <1>1, StreamFacts, FrameRead
<1>3. openerUp /\ serverUp => OpensFirst(toServer') /\ ~Coming(toServer', f.id, {"OPEN"})
  BY <1>1, StreamFacts, FirstRead
<1>4. PICK i \in Ids, type \in {"OPEN", "CLOSE"} : f.id = i /\ f.type = type
  BY <1>2 DEF Asking
<1>. HIDE DEF f
<1>5. /\ type = "OPEN" => Asked(i)
      /\ type = "CLOSE" => Closing(i)
      /\ \A j \in Ids : /\ Asked(j)' => Asked(j)
                        /\ Closing(j)' => Closing(j)
                        /\ Asked(j) => Asked(j)' \/ (j = i /\ type = "OPEN")
                        /\ Closing(j) => Closing(j)' \/ (j = i /\ type = "CLOSE")
      /\ openerUp /\ serverUp => ~Asked(i)' /\ OpensFirst(toServer)'
  BY <1>2, <1>3, <1>4 DEF Asked, Closing
<1>6. /\ served' \in [Ids -> {"unused", "dialling", "serving", "ending", "gone"}]
      /\ served'[i] = IF type = "OPEN" THEN "dialling" ELSE IF served[i] \in Known THEN "ending" ELSE served[i]
      /\ \A j \in Ids \ {i} : served'[j] = served[j]
  <2>1. CASE type = "OPEN"
    BY <1>1, <1>4, <2>1, StreamFacts
  <2>2. CASE type = "CLOSE"
    BY <1>1, <1>4, <2>2, StreamFacts
  <2>. QED BY <2>1, <2>2
<1>7. ASSUME openerUp, serverUp PROVE OpensFirst(toServer)' /\ \A j \in Ids : StreamAgrees(j)'
  <2>1. OpensFirst(toServer) /\ \A j \in Ids : StreamAgrees(j)
    BY <1>7, StreamFacts
  <2>2. \A j \in Ids : (Acked(j)' <=> Acked(j)) /\ (Refused(j)' <=> Refused(j)) /\ (Ended(j)' <=> Ended(j))
    BY <1>1, SameFrames
  <2>3. ASSUME NEW j \in Ids \ {i} PROVE StreamAgrees(j)'
    <3>1. /\ opened'[j] = opened[j] /\ served'[j] = served[j] /\ loop' = loop
          /\ Asked(j)' <=> Asked(j)
          /\ Closing(j)' <=> Closing(j)
      BY <1>1, <1>5, <1>6
    <3>. QED BY <2>1, <2>2, <3>1 DEF StreamAgrees
  <2>4. StreamAgrees(i)'
    <3>1. opened'[i] = opened[i] /\ loop' = loop /\ ~Asked(i)'
      BY <1>1, <1>5, <1>7
    <3>2. CASE type = "OPEN"
      <4>1. Asked(i) /\ served'[i] = "dialling" /\ (Closing(i)' <=> Closing(i))
        BY <1>5, <1>6, <3>2
      <4>. QED BY <2>1, <2>2, <3>1, <4>1 DEF StreamAgrees
    <3>3. CASE type = "CLOSE"
      <4>1. Closing(i) /\ ~Asked(i)
        BY <1>5, <1>7, <3>3
      <4>2. served[i] \in {"dialling", "serving", "ending", "gone"}
        BY <2>1, <4>1, StreamFacts DEF StreamAgrees
      <4>3. CASE served[i] \in Known
        <5>1. served'[i] = "ending" /\ served[i] \in {"dialling", "serving"}
          BY <1>6, <3>3, <4>3 DEF Known
        <5>. QED BY <2>1, <2>2, <3>1, <4>1, <5>1 DEF StreamAgrees
      <4>4. CASE served[i] \notin Known
        <5>1. served'[i] = served[i] /\ (served[i] = "dialling" => loop # "client") /\ served[i] # "serving"
          BY <1>6, <3>3, <4>4 DEF Known
        <5>2. Closing(i)' => Closing(i)
          BY <1>5
        <5>. QED BY <2>1, <2>2, <3>1, <4>1, <4>2, <5>1, <5>2 DEF StreamAgrees
      <4>. QED BY <4>3, <4>4
    <3>. QED BY <3>2, <3>3
  <2>. QED BY <1>5, <1>7, <2>3, <2>4
<1>. QED BY <1>1, <1>2, <1>6, <1>7, StreamFacts, StreamStep

LEMMA DialSettlesKeeps ==
    ASSUME StreamsInv, NEW i \in Ids, NEW how \in {"ACK", "NONE", "ERROR"}, DialSettles(i, how)
    PROVE  StreamsInv'
<1>1. /\ served[i] = "dialling" /\ ToOpener(F(how, i))
      /\ served' = [served EXCEPT ![i] = IF how = "ACK" /\ serverUp THEN "serving" ELSE "gone"]
      /\ UNCHANGED <<opened, toServer, openerUp, serverUp, nextId, loop>>
  BY DEF DialSettles
<1>2. F(how, i) \in Answering /\ F(how, i).id = i /\ F(how, i).type = how
  BY OwnFrames
<1>3. /\ served' \in [Ids -> {"unused", "dialling", "serving", "ending", "gone"}]
      /\ served'[i] = IF how = "ACK" /\ serverUp THEN "serving" ELSE "gone"
      /\ \A j \in Ids \ {i} : served'[j] = served[j]
  BY <1>1, StreamFacts
<1>4. toOpener' \in Seq(Answering)
  BY <1>1, <1>2, StreamFacts, ToOpenerSent
<1>5. ASSUME openerUp, serverUp PROVE OpensFirst(toServer)' /\ \A j \in Ids : StreamAgrees(j)'
  <2>1. OpensFirst(toServer) /\ \A j \in Ids : StreamAgrees(j)
    BY <1>5, StreamFacts
  <2>2. \A j \in Ids : /\ Acked(j)' <=> Acked(j) \/ (i = j /\ how = "ACK")
                       /\ Refused(j)' <=> Refused(j) \/ (i = j /\ how \in {"NONE", "ERROR"})
                       /\ Ended(j)' <=> Ended(j)
    BY <1>1, <1>2, <1>5, StreamFacts, ToOpenerSent
  <2>3. OpensFirst(toServer)' /\ \A j \in Ids : (Asked(j)' <=> Asked(j)) /\ (Closing(j)' <=> Closing(j))
    BY <1>1, <2>1, SameFrames
  <2>4. \A j \in Ids \ {i} : StreamAgrees(j)'
    BY <1>1, <1>3, <2>1, <2>2, <2>3 DEF StreamAgrees
  <2>5. StreamAgrees(i)'
    <3>1. /\ opened'[i] = opened[i] /\ loop' = loop /\ served[i] = "dialling"
          /\ ~Acked(i) /\ ~Refused(i) /\ ~Ended(i) /\ opened[i] \in {"unused", "opening", "given up"}
      BY <1>1, <2>1 DEF StreamAgrees
    <3>2. CASE how = "ACK"
      <4>1. served'[i] = "serving"
        BY <1>3, <1>5, <3>2
      <4>. QED BY <2>1, <2>2, <2>3, <3>1, <3>2, <4>1 DEF StreamAgrees
    <3>3. CASE how \in {"NONE", "ERROR"}
      <4>1. served'[i] = "gone"
        BY <1>3, <3>3
      <4>. QED BY <2>1, <2>2, <2>3, <3>1, <3>3, <4>1 DEF StreamAgrees
    <3>. QED BY <3>2, <3>3
  <2>. QED BY <2>3, <2>4, <2>5
<1>. QED BY <1>1, <1>3, <1>4, <1>5, StreamFacts, StreamStep

LEMMA PeerClosesKeeps == ASSUME StreamsInv, NEW i \in Ids, PeerCloses(i) PROVE StreamsInv'
<1>1. /\ served[i] \in {"serving", "ending"} /\ served' = [served EXCEPT ![i] = "gone"]
      /\ IF loop = "client" /\ served[i] = "ending" THEN UNCHANGED toOpener ELSE ToOpener(F("CLOSE", i))
      /\ UNCHANGED <<opened, toServer, openerUp, serverUp, nextId, loop>>
  BY DEF PeerCloses
<1>2. F("CLOSE", i) \in Answering /\ F("CLOSE", i).id = i /\ F("CLOSE", i).type = "CLOSE"
  BY OwnFrames
<1>3. /\ served' \in [Ids -> {"unused", "dialling", "serving", "ending", "gone"}]
      /\ served'[i] = "gone" /\ \A j \in Ids \ {i} : served'[j] = served[j]
  BY <1>1, StreamFacts
<1>4. toOpener' \in Seq(Answering)
  BY <1>1, <1>2, StreamFacts, ToOpenerSent
<1>5. ASSUME openerUp, serverUp PROVE OpensFirst(toServer)' /\ \A j \in Ids : StreamAgrees(j)'
  <2>1. OpensFirst(toServer) /\ \A j \in Ids : StreamAgrees(j)
    BY <1>5, StreamFacts
  <2>2. \A j \in Ids : /\ Acked(j)' <=> Acked(j)
                       /\ Refused(j)' <=> Refused(j)
                       /\ Ended(j)' <=> Ended(j) \/ (i = j /\ ~(loop = "client" /\ served[i] = "ending"))
    <3>1. CASE loop = "client" /\ served[i] = "ending"
      BY <1>1, <3>1, SameFrames
    <3>2. CASE ~(loop = "client" /\ served[i] = "ending")
      BY <1>1, <1>2, <1>5, <3>2, StreamFacts, ToOpenerSent
    <3>. QED BY <3>1, <3>2
  <2>3. OpensFirst(toServer)' /\ \A j \in Ids : (Asked(j)' <=> Asked(j)) /\ (Closing(j)' <=> Closing(j))
    BY <1>1, <2>1, SameFrames
  <2>4. \A j \in Ids \ {i} : StreamAgrees(j)'
    BY <1>1, <1>3, <2>1, <2>2, <2>3 DEF StreamAgrees
  <2>5. StreamAgrees(i)'
    BY <1>1, <1>3, <2>1, <2>2, <2>3 DEF StreamAgrees
  <2>. QED BY <2>3, <2>4, <2>5
<1>. QED BY <1>1, <1>3, <1>4, <1>5, StreamFacts, StreamStep

LEMMA LearnsKeeps == ASSUME StreamsInv, OpenerLearns \/ ServerLearns PROVE StreamsInv'
<1>1. \A S : <<>> \in Seq(S)
  OBVIOUS
<1>2. CASE OpenerLearns
  <2>1. /\ opened' \in [Ids -> {"unused", "opening", "open", "half", "ended", "gone", "given up"}]
        /\ \A i \in Ids : opened'[i] = "unused" <=> opened[i] = "unused"
    BY <1>2, StreamFacts DEF OpenerLearns, InMap
  <2>. QED BY <1>1, <1>2, <2>1, StreamFacts, StreamStep DEF OpenerLearns
<1>3. CASE ServerLearns
  <2>1. served' \in [Ids -> {"unused", "dialling", "serving", "ending", "gone"}]
    BY <1>3, StreamFacts DEF ServerLearns
  <2>. QED BY <1>1, <1>3, <2>1, StreamFacts, StreamStep DEF ServerLearns
<1>. QED BY <1>2, <1>3

LEMMA StreamsStart == ASSUME StreamsInit PROVE StreamsInv
<1>1. nextId = 1 /\ \A i \in Ids : opened[i] = "unused" /\ served[i] = "unused" /\ i >= 1
  BY StreamLimits DEF StreamsInit, Ids
<1>2. StreamTypes
  BY <1>1, StreamLimits DEF StreamsInit, StreamTypes, StreamsTypeOK, Numbered
<1>3. \A i, T : ~Coming(toServer, i, T) /\ ~Coming(toOpener, i, T)
  BY DEF StreamsInit, Coming
<1>4. OpensFirst(toServer)
  BY DEF StreamsInit, OpensFirst
<1>5. \A i \in Ids : StreamAgrees(i)
  BY <1>1, <1>3 DEF StreamAgrees, Asked, Closing, Acked, Refused, Ended
<1>. QED BY <1>2, <1>4, <1>5 DEF StreamsInv

LEMMA StreamsInductive == ASSUME StreamsInv, [StreamsNext]_streamVars PROVE StreamsInv'
<1>1. ASSUME NEW i \in Ids, OpenTimesOut(i) \/ Destroys(i) \/ Finishes(i) PROVE StreamsInv'
  BY <1>1, OpenerEnds DEF OpenTimesOut, Destroys, Finishes, DropStream
<1>2. ASSUME UNCHANGED streamVars PROVE StreamsInv'
  BY <1>2 DEF streamVars, StreamsInv, StreamTypes, StreamsTypeOK, Numbered, OpensFirst, StreamAgrees, Asked, Closing,
              Acked, Refused, Ended
<1>. QED BY <1>1, <1>2, OpenKeepsStreams, OpenerReadsKeeps, ServerReadsKeeps, DialSettlesKeeps, PeerClosesKeeps, LearnsKeeps
            DEF StreamsNext

LEMMA StreamsHold == StreamsSpec => []StreamsInv
  BY StreamsStart, StreamsInductive, PTL DEF StreamsSpec

\* Streams, frames and ids keep their types.
THEOREM StreamsTypes == StreamsSpec => []StreamsTypeOK
<1>1. StreamsInv => StreamsTypeOK
  BY DEF StreamsInv, StreamTypes
<1>. QED BY <1>1, StreamsHold, PTL

\* Neither end of a stream waits for a word the other will not say: a peer is told of a stream
\* that is gone, an open is answered, and a stream that carries bytes ends.
THEOREM StreamsEnd == StreamsSpec => [](PeersAreTold /\ OpenersAreAnswered /\ HalvesEnd)
<1>1. StreamsInv => PeersAreTold /\ OpenersAreAnswered /\ HalvesEnd
  <2>. SUFFICES ASSUME StreamsInv, openerUp, serverUp, NEW i \in Ids, StreamAgrees(i)
                PROVE  /\ /\ served[i] \in {"dialling", "serving"}
                          /\ opened[i] \in {"gone", "half"} \/ (opened[i] = "given up" /\ loop = "client")
                          => Closing(i)
                       /\ opened[i] = "opening" =>
                            Asked(i) \/ served[i] = "dialling" \/ Coming(toOpener, i, {"ACK", "NONE", "ERROR"})
                       /\ loop = "instance" /\ opened[i] \in {"open", "half"} => served[i] \in {"serving", "ending"} \/ Ended(i)
    BY DEF StreamsInv, PeersAreTold, OpenersAreAnswered, HalvesEnd, Closing, Asked, Ended
  <2>1. Acked(i) \/ Refused(i) => Coming(toOpener, i, {"ACK", "NONE", "ERROR"})
    BY DEF Coming, Acked, Refused
  <2>. QED BY <2>1 DEF StreamAgrees
<1>. QED BY <1>1, StreamsHold, PTL

---------------------------------------------------------------------------
(* A gateway: its row, its sockets and its clients. *)

\* A client that is connected has the one socket whose own end is open and its own.
EndsAgree ==
    /\ \A c \in Clients : client[c].state = "connected" <=> client[c].link # NoLink
    /\ \A c \in Clients, l \in Links : client[c].link = l <=> link[l].client /\ link[l].of = c
    /\ \A l \in Links : link[l].client => link[l].of \in Clients
\* Who is yet to hear that it was displaced is connected, and another joined since.
Displaced == \A l \in Links : link[l].client /\ link[l].code = Replaced => joined \in Clients \ {link[l].of}
GatewayInv == GatewaysTypeOK /\ OneSocket /\ EndsAgree /\ Displaced /\ LatestStays

LEMMA GatewayRows ==
    /\ Free \in LinkRows /\ ~Free.client /\ ~Free.server /\ Free.code = 0
    /\ \A c \in Clients, server \in BOOLEAN, code \in Codes :
          LET r == [of |-> c, client |-> TRUE, server |-> server, alive |-> TRUE, code |-> code]
          IN  r \in LinkRows /\ r.of = c /\ r.client /\ r.server = server /\ r.code = code
    /\ \A r \in LinkRows : /\ r.of \in Clients \cup {NoClient} /\ r.client \in BOOLEAN /\ r.server \in BOOLEAN
                           /\ r.alive \in BOOLEAN /\ r.code \in Codes
    /\ \A r \in LinkRows, code \in Codes :
          LET n == [r EXCEPT !.server = FALSE, !.code = code]
          IN  n \in LinkRows /\ n.of = r.of /\ n.client = r.client /\ ~n.server /\ n.code = code
    /\ \A r \in LinkRows :
          /\ LET n == [r EXCEPT !.alive = FALSE]
             IN  n \in LinkRows /\ n.of = r.of /\ n.client = r.client /\ n.server = r.server /\ n.code = r.code
          /\ LET n == [r EXCEPT !.client = FALSE]
             IN  n \in LinkRows /\ ~n.client /\ n.server = r.server
          /\ LET n == [r EXCEPT !.server = FALSE]
             IN  n \in LinkRows /\ n.of = r.of /\ n.client = r.client /\ ~n.server /\ n.code = r.code
    /\ NotJoined \in ClientRows /\ NotJoined.state = "waiting" /\ NotJoined.link = NoLink /\ NotJoined.why = 0
    /\ NotRunning \in ClientRows /\ NotRunning.state = "stopped" /\ NotRunning.link = NoLink /\ NotRunning.why = 0
    /\ \A l \in Links : LET r == [state |-> "connected", link |-> l, why |-> 0]
                        IN  r \in ClientRows /\ r.state = "connected" /\ r.link = l /\ r.why = 0
    /\ \A code \in Codes : LET r == [state |-> "stopped", link |-> NoLink, why |-> code]
                           IN  r \in ClientRows /\ r.state = "stopped" /\ r.link = NoLink /\ r.why = code
  BY DEF Free, LinkRows, ClientRows, NotJoined, NotRunning, Codes

\* Shutting sockets takes their server's end, and tells their clients why.
LEMMA ShuttingKeeps ==
    ASSUME link \in [Links -> LinkRows], NEW L, NEW code \in Codes
    PROVE  /\ ShutWith(L, code) \in [Links -> LinkRows]
           /\ \A l \in Links : LET r == ShutWith(L, code)[l] IN
                /\ r.of = link[l].of /\ r.client = link[l].client
                /\ r.server <=> link[l].server /\ l \notin L
                /\ r.code = IF l \in L /\ link[l].server THEN code ELSE link[l].code
<1>1. ASSUME NEW l \in Links
      PROVE  LET r == ShutWith(L, code)[l] IN
                /\ r \in LinkRows /\ r.of = link[l].of /\ r.client = link[l].client
                /\ r.server <=> link[l].server /\ l \notin L
                /\ r.code = IF l \in L /\ link[l].server THEN code ELSE link[l].code
  <2>1. CASE l \in L /\ link[l].server
    <3>1. ShutWith(L, code)[l] = [link[l] EXCEPT !.server = FALSE, !.code = code]
      BY <2>1 DEF ShutWith
    <3>2. link[l] \in LinkRows
      OBVIOUS
    <3>. QED BY <2>1, <3>1, <3>2 DEF LinkRows
  <2>2. CASE ~(l \in L /\ link[l].server)
    <3>1. ShutWith(L, code)[l] = link[l]
      BY <2>2 DEF ShutWith
    <3>. QED BY <2>2, <3>1
  <2>. QED BY <2>1, <2>2
<1>2. ShutWith(L, code) \in [Links -> LinkRows]
  <2>1. ShutWith(L, code) = [l \in Links |-> ShutWith(L, code)[l]]
    BY DEF ShutWith
  <2>. QED BY <1>1, <2>1
<1>. QED BY <1>1, <1>2

\* A client that stops or tries again has no socket.
LEMMA Stopping ==
    ASSUME GatewaysTypeOK, NEW c \in Clients, NEW code \in Codes, Stops(c, code)
    PROVE  /\ client' \in [Clients -> ClientRows] /\ client'[c].state # "connected" /\ client'[c].link = NoLink
           /\ client'[c].why = Replaced => code = Replaced
           /\ \A d \in Clients \ {c} : client'[d] = client[d]
<1>. DEFINE r == IF code \in FinalCodes THEN [state |-> "stopped", link |-> NoLink, why |-> code] ELSE NotJoined
<1>1. client' = [client EXCEPT ![c] = r]
  BY DEF Stops
<1>2. r \in ClientRows /\ r.state # "connected" /\ r.link = NoLink /\ (r.why = Replaced => code = Replaced)
  <2>1. CASE code \in FinalCodes
    BY <2>1 DEF ClientRows
  <2>2. CASE code \notin FinalCodes
    BY <2>2 DEF ClientRows, NotJoined, Codes, Replaced
  <2>. QED BY <2>1, <2>2
<1>. HIDE DEF r
<1>. QED BY <1>1, <1>2 DEF GatewaysTypeOK

LEMMA ConnectsKeeps ==
    ASSUME GatewayInv, NEW c \in Clients, NEW l \in Links, Connects(c, l)
    PROVE  GatewayInv'
<1>1. /\ client[c].state = "waiting" /\ ~link[l].client /\ ~link[l].server /\ UNCHANGED <<gateway, routed, cuts>>
      /\ link \in [Links -> LinkRows] /\ client \in [Clients -> ClientRows]
  BY DEF Connects, GatewayInv, GatewaysTypeOK
<1>2. /\ client' \in [Clients -> ClientRows] /\ client'[c].state = "connected" /\ client'[c].link = l /\ client'[c].why = 0
      /\ \A d \in Clients \ {c} : client'[d] = client[d]
  <2>. DEFINE r == [state |-> "connected", link |-> l, why |-> 0]
  <2>1. r \in ClientRows /\ r.state = "connected" /\ r.link = l /\ r.why = 0
    BY DEF ClientRows, Codes
  <2>2. client' = [client EXCEPT ![c] = r]
    BY DEF Connects
  <2>. HIDE DEF r
  <2>. QED BY <1>1, <2>1, <2>2
<1>3. /\ link' \in [Links -> LinkRows] /\ link'[l].of = c /\ link'[l].client /\ link'[l].code \in {0, Rejected}
      /\ \A m \in Links \ {l} :
            /\ link'[m].of = link[m].of /\ link'[m].client = link[m].client
            /\ link'[m].code = link[m].code \/ (gateway /\ link[m].server /\ link'[m].code = Replaced)
            /\ link'[m].server = (link[m].server /\ ~(gateway /\ m = online))
      /\ link'[l].server = gateway
      /\ gateway => online' = l /\ joined' = c
      /\ ~gateway => online' = online /\ joined' = joined
  <2>1. CASE gateway
    <3>. DEFINE f == ShutWith({online} \cap Links, Replaced)
                r == [of |-> c, client |-> TRUE, server |-> TRUE, alive |-> TRUE, code |-> 0]
    <3>1. Replaced \in Codes /\ 0 \in Codes /\ gateway \in BOOLEAN
      BY DEF Codes, GatewayInv, GatewaysTypeOK
    <3>2. /\ f \in [Links -> LinkRows]
          /\ \A m \in Links : /\ f[m].of = link[m].of /\ f[m].client = link[m].client
                              /\ f[m].server <=> link[m].server /\ m \notin {online} \cap Links
                              /\ f[m].code = IF m \in {online} \cap Links /\ link[m].server THEN Replaced ELSE link[m].code
      BY <1>1, <3>1, ShuttingKeeps
    <3>3. link' = [f EXCEPT ![l] = r] /\ online' = l /\ joined' = c
      BY <2>1 DEF Connects
    <3>4. r \in LinkRows /\ r.of = c /\ r.client /\ r.server /\ r.code = 0
      BY <3>1, GatewayRows
    <3>. HIDE DEF f, r
    <3>5. link' \in [Links -> LinkRows] /\ link'[l] = r /\ \A m \in Links \ {l} : link'[m] = f[m]
      BY <3>2, <3>3, <3>4
    <3>6. \A m \in Links : f[m].server \in BOOLEAN /\ link[m].server \in BOOLEAN
      BY <1>1, <3>2, GatewayRows
    <3>. QED BY <2>1, <3>2, <3>3, <3>4, <3>5, <3>6
  <2>2. CASE ~gateway
    <3>. DEFINE r == [of |-> c, client |-> TRUE, server |-> FALSE, alive |-> TRUE, code |-> Rejected]
    <3>1. Rejected \in Codes /\ gateway \in BOOLEAN
      BY DEF Codes, GatewayInv, GatewaysTypeOK
    <3>2. link' = [link EXCEPT ![l] = r] /\ UNCHANGED <<online, joined>>
      BY <2>2 DEF Connects
    <3>3. r \in LinkRows /\ r.of = c /\ r.client /\ ~r.server /\ r.code = Rejected
      BY <3>1, GatewayRows
    <3>4. \A m \in Links : link[m].server \in BOOLEAN
      BY <1>1, GatewayRows
    <3>. HIDE DEF r
    <3>5. link' \in [Links -> LinkRows] /\ link'[l] = r /\ \A m \in Links \ {l} : link'[m] = link[m]
      BY <1>1, <3>2, <3>3
    <3>6. r.server = gateway
      BY <1>1, <2>2, <3>1, <3>3, <3>5, GatewayRows
    <3>. QED BY <2>2, <3>1, <3>2, <3>3, <3>4, <3>5, <3>6
  <2>. QED BY <2>1, <2>2
<1>4. GatewaysTypeOK'
  BY <1>1, <1>2, <1>3 DEF GatewayInv, GatewaysTypeOK
<1>5. OneSocket'
  BY <1>1, <1>3, GatewayLimits DEF GatewayInv, OneSocket, GatewaysTypeOK
<1>6. EndsAgree'
  BY <1>1, <1>2, <1>3, GatewayLimits DEF GatewayInv, EndsAgree
<1>7. Displaced'
  <2>. SUFFICES ASSUME NEW m \in Links, link'[m].client, link'[m].code = Replaced
                PROVE  joined' \in Clients \ {link'[m].of}
    BY DEF Displaced
  <2>1. m # l /\ link[m].client /\ link'[m].of = link[m].of
    BY <1>3 DEF Replaced, Rejected
  <2>2. link[m].of # c
    BY <1>1, <2>1, GatewayLimits DEF GatewayInv, EndsAgree
  <2>. QED BY <1>3, <2>1, <2>2 DEF GatewayInv, Displaced
<1>8. LatestStays'
  BY <1>2, <1>3 DEF GatewayInv, LatestStays, Replaced
<1>. QED BY <1>4, <1>5, <1>6, <1>7, <1>8 DEF GatewayInv

\* A step that only shuts ends keeps the invariant, if a client that loses its socket stops or
\* tries again, and one that stops because it was displaced had been told so.
LEMMA ShuttingEnds ==
    ASSUME GatewayInv, link' \in [Links -> LinkRows], client' \in [Clients -> ClientRows], joined' = joined,
           gateway' \in BOOLEAN, routed' \subseteq Users, cuts' \in 0..MaxCuts, online' \in {online, NoLink},
           online' # NoLink \/ routed' # {} => gateway',
           \A l \in Links : /\ link'[l].server <=> online' = l
                            /\ link'[l].client => /\ link[l].client /\ link'[l].of = link[l].of
                                                  /\ link'[l].code = Replaced => link[l].code = Replaced,
           \A c \in Clients :
              \/ client'[c] = client[c] /\ \A l \in Links : client[c].link = l => link'[l].client
              \/ /\ client'[c].state # "connected" /\ client'[c].link = NoLink
                 /\ client'[c].why = Replaced => joined \in Clients \ {c}
                 /\ \A l \in Links : client[c].link = l => ~link'[l].client
    PROVE  GatewayInv'
<1>1. GatewaysTypeOK'
  BY DEF GatewayInv, GatewaysTypeOK
<1>2. OneSocket'
  BY DEF OneSocket
<1>3. EndsAgree'
  <2>1. \A c \in Clients : client'[c].state = "connected" <=> client'[c].link # NoLink
    BY DEF GatewayInv, EndsAgree
  <2>2. ASSUME NEW c \in Clients, NEW l \in Links
        PROVE  client'[c].link = l <=> link'[l].client /\ link'[l].of = c
    <3>1. l # NoLink
      BY GatewayLimits
    <3>2. client[c].link = l <=> link[l].client /\ link[l].of = c
      BY DEF GatewayInv, EndsAgree
    <3>. QED BY <3>1, <3>2
  <2>3. \A l \in Links : link'[l].client => link'[l].of \in Clients
    BY DEF GatewayInv, EndsAgree
  <2>. QED BY <2>1, <2>2, <2>3 DEF EndsAgree
<1>4. Displaced'
  BY DEF GatewayInv, Displaced
<1>5. LatestStays'
  BY DEF GatewayInv, LatestStays
<1>. QED BY <1>1, <1>2, <1>3, <1>4, <1>5 DEF GatewayInv

LEMMA GatewayFacts ==
    ASSUME GatewayInv
    PROVE  /\ link \in [Links -> LinkRows] /\ client \in [Clients -> ClientRows]
           /\ gateway \in BOOLEAN /\ routed \subseteq Users /\ cuts \in 0..MaxCuts
           /\ online # NoLink \/ routed # {} => gateway
           /\ \A l \in Links : /\ link[l].server <=> online = l
                               /\ link[l].client => /\ link[l].of \in Clients /\ client[link[l].of].link = l
                                                    /\ link[l].code = Replaced => joined \in Clients \ {link[l].of}
                               /\ link[l].client \in BOOLEAN /\ link[l].server \in BOOLEAN /\ link[l].code \in Codes
           /\ \A c \in Clients, l \in Links : client[c].link = l <=> link[l].client /\ link[l].of = c
  BY DEF GatewayInv, GatewaysTypeOK, OneSocket, EndsAgree, Displaced, LinkRows

LEMMA HearsCloseKeeps ==
    ASSUME GatewayInv, NEW l \in Links, HearsClose(l)
    PROVE  GatewayInv'
<1>. DEFINE c == link[l].of
<1>1. /\ link[l].client /\ ~link[l].server /\ link' = [link EXCEPT ![l] = Free] /\ Stops(c, link[l].code)
      /\ UNCHANGED <<gateway, routed, online, joined, cuts>>
  BY DEF HearsClose
<1>2. /\ link' \in [Links -> LinkRows] /\ ~link'[l].client /\ ~link'[l].server
      /\ \A m \in Links \ {l} : link'[m] = link[m]
  <2>1. link \in [Links -> LinkRows]
    BY GatewayFacts
  <2>. QED BY <1>1, <2>1 DEF LinkRows, Free, Codes
<1>3. /\ client' \in [Clients -> ClientRows] /\ client'[c].state # "connected" /\ client'[c].link = NoLink
      /\ client'[c].why = Replaced => link[l].code = Replaced
      /\ \A d \in Clients \ {c} : client'[d] = client[d]
  <2>1. c \in Clients /\ link[l].code \in Codes
    BY <1>1, GatewayFacts
  <2>. HIDE DEF c
  <2>. QED BY <1>1, <2>1, Stopping DEF GatewayInv
<1>. QED BY <1>1, <1>2, <1>3, GatewayFacts, ShuttingEnds, GatewayLimits

LEMMA GoesDeadKeeps ==
    ASSUME GatewayInv, NEW l \in Links, GoesDead(l)
    PROVE  GatewayInv'
<1>1. /\ cuts < MaxCuts /\ cuts' = cuts + 1 /\ link' = [link EXCEPT ![l].alive = FALSE]
      /\ UNCHANGED <<gateway, routed, online, client, joined>>
  BY DEF GoesDead
<1>2. /\ link' \in [Links -> LinkRows] /\ link'[l].of = link[l].of /\ link'[l].client = link[l].client
      /\ link'[l].server = link[l].server /\ link'[l].code = link[l].code
      /\ \A m \in Links \ {l} : link'[m] = link[m]
  <2>1. link \in [Links -> LinkRows]
    BY GatewayFacts
  <2>. QED BY <1>1, <2>1 DEF LinkRows
<1>3. cuts' \in 0..MaxCuts
  BY <1>1, GatewayFacts, GatewayLimits
<1>. QED BY <1>1, <1>2, <1>3, GatewayFacts, ShuttingEnds, GatewayLimits

LEMMA ClientGivesUpKeeps ==
    ASSUME GatewayInv, NEW l \in Links, ClientGivesUp(l)
    PROVE  GatewayInv'
<1>. DEFINE c == link[l].of
<1>1. /\ link[l].client /\ link' = [link EXCEPT ![l] = IF @.server THEN [@ EXCEPT !.client = FALSE] ELSE Free]
      /\ Stops(c, 0) /\ UNCHANGED <<gateway, routed, online, joined, cuts>>
  BY DEF ClientGivesUp
<1>2. /\ link' \in [Links -> LinkRows] /\ ~link'[l].client /\ link'[l].server = link[l].server
      /\ \A m \in Links \ {l} : link'[m] = link[m]
  <2>1. link \in [Links -> LinkRows]
    BY GatewayFacts
  <2>. QED BY <1>1, <2>1 DEF LinkRows, Free, Codes
<1>3. /\ client' \in [Clients -> ClientRows] /\ client'[c].state # "connected" /\ client'[c].link = NoLink
      /\ client'[c].why # Replaced
      /\ \A d \in Clients \ {c} : client'[d] = client[d]
  <2>1. c \in Clients /\ 0 \in Codes /\ 0 # Replaced
    BY <1>1, GatewayFacts DEF Codes, Replaced
  <2>. HIDE DEF c
  <2>. QED BY <1>1, <2>1, Stopping DEF GatewayInv
<1>. QED BY <1>1, <1>2, <1>3, GatewayFacts, ShuttingEnds, GatewayLimits

LEMMA ServerGivesUpKeeps ==
    ASSUME GatewayInv, NEW l \in Links, ServerGivesUp(l)
    PROVE  GatewayInv'
<1>1. /\ link[l].server /\ link' = [link EXCEPT ![l] = IF @.client THEN [@ EXCEPT !.server = FALSE] ELSE Free]
      /\ online' = IF online = l THEN NoLink ELSE online
      /\ UNCHANGED <<gateway, routed, client, joined, cuts>>
  BY DEF ServerGivesUp
<1>2. /\ link' \in [Links -> LinkRows] /\ link'[l].client = link[l].client /\ ~link'[l].server
      /\ link[l].client => link'[l].of = link[l].of /\ link'[l].code = link[l].code
      /\ \A m \in Links \ {l} : link'[m] = link[m]
  <2>1. link \in [Links -> LinkRows]
    BY GatewayFacts
  <2>. QED BY <1>1, <2>1 DEF LinkRows, Free, Codes
<1>3. online' \in {online, NoLink} /\ \A m \in Links : online' = m <=> online = m /\ m # l
  BY <1>1, GatewayLimits
<1>. QED BY <1>1, <1>2, <1>3, GatewayFacts, ShuttingEnds, GatewayLimits

LEMMA ClientExitsKeeps ==
    ASSUME GatewayInv, NEW c \in Clients, ClientExits(c)
    PROVE  GatewayInv'
<1>. DEFINE l == client[c].link
<1>1. /\ client' = [client EXCEPT ![c] = NotRunning] /\ UNCHANGED <<gateway, routed, joined, cuts>>
  BY DEF ClientExits
<1>2. /\ client' \in [Clients -> ClientRows] /\ client'[c].state # "connected" /\ client'[c].link = NoLink
      /\ client'[c].why # Replaced
      /\ \A d \in Clients \ {c} : client'[d] = client[d]
  <2>1. NotRunning \in ClientRows /\ NotRunning.state # "connected" /\ NotRunning.link = NoLink /\ NotRunning.why # Replaced
    BY DEF NotRunning, ClientRows, Codes, Replaced
  <2>. QED BY <1>1, <2>1, GatewayFacts
<1>3. CASE l = NoLink
  <2>1. UNCHANGED <<link, online>>
    BY <1>3 DEF ClientExits
  <2>. QED BY <1>1, <1>2, <1>3, <2>1, GatewayFacts, ShuttingEnds, GatewayLimits
<1>4. CASE l # NoLink
  <2>1. /\ link' = [link EXCEPT ![l] = IF @.server /\ ~@.alive THEN [@ EXCEPT !.client = FALSE] ELSE Free]
        /\ online' = IF online = l /\ link[l].alive THEN NoLink ELSE online
    BY <1>4 DEF ClientExits
  <2>2. l \in Links /\ link \in [Links -> LinkRows] /\ (link[l].server <=> online = l)
    <3>1. client \in [Clients -> ClientRows]
      BY GatewayFacts
    <3>2. l \in Links
      BY <1>4, <3>1 DEF ClientRows
    <3>. QED BY <3>2, GatewayFacts
  <2>. HIDE DEF l
  <2>3. /\ link' \in [Links -> LinkRows] /\ ~link'[l].client /\ link'[l].server = (link[l].server /\ ~link[l].alive)
        /\ \A m \in Links \ {l} : link'[m] = link[m]
    BY <2>1, <2>2 DEF LinkRows, Free, Codes
  <2>4. online' \in {online, NoLink} /\ \A m \in Links : online' = m <=> online = m /\ ~(m = l /\ link[l].alive)
    BY <2>1, GatewayLimits
  <2>5. \A m \in Links : client[c].link = m <=> m = l
    BY DEF l
  <2>6. \A m \in Links : /\ link'[m].server <=> online' = m
                         /\ link'[m].client => /\ link[m].client /\ link'[m].of = link[m].of
                                               /\ link'[m].code = Replaced => link[m].code = Replaced
    <3>1. \A m \in Links : link[m].server <=> online = m
      BY GatewayFacts
    <3>. QED BY <2>2, <2>3, <2>4, <3>1
  <2>7. \A d \in Clients \ {c} : client'[d] = client[d] /\ \A m \in Links : client[d].link = m => link'[m].client
    <3>1. ASSUME NEW d \in Clients \ {c}, NEW m \in Links, client[d].link = m PROVE m # l /\ link[m].client
      BY <2>5, <3>1, GatewayFacts
    <3>. QED BY <1>2, <2>3, <3>1
  <2>8. \A m \in Links : client[c].link = m => ~link'[m].client
    BY <2>3, <2>5
  <2>9. gateway \in BOOLEAN /\ routed \subseteq Users /\ cuts \in 0..MaxCuts /\ (online' # NoLink \/ routed # {} => gateway)
    BY <2>4, GatewayFacts
  <2>10. \A d \in Clients :
           \/ client'[d] = client[d] /\ \A m \in Links : client[d].link = m => link'[m].client
           \/ /\ client'[d].state # "connected" /\ client'[d].link = NoLink
              /\ client'[d].why = Replaced => joined \in Clients \ {d}
              /\ \A m \in Links : client[d].link = m => ~link'[m].client
    BY <1>2, <2>7, <2>8
  <2>11. /\ client' \in [Clients -> ClientRows] /\ joined' = joined /\ gateway' \in BOOLEAN /\ routed' \subseteq Users
         /\ cuts' \in 0..MaxCuts /\ (online' # NoLink \/ routed' # {} => gateway')
    BY <1>1, <1>2, <2>9
  <2>12. link' \in [Links -> LinkRows] /\ online' \in {online, NoLink}
    BY <2>3, <2>4
  <2>. QED BY <2>6, <2>10, <2>11, <2>12, ShuttingEnds
<1>. QED BY <1>3, <1>4

\* The server shuts the registered socket for a reason that is not that it was replaced.
LEMMA ServerShuts ==
    ASSUME GatewayInv, NEW L, NEW code \in Codes \ {Replaced}, L \cap Links = {online} \cap Links,
           link' = ShutWith(L, code), online' = NoLink, UNCHANGED <<routed, client, joined>>,
           gateway' \in BOOLEAN, cuts' \in 0..MaxCuts, routed # {} => gateway'
    PROVE  GatewayInv'
<1>1. /\ link' \in [Links -> LinkRows]
      /\ \A l \in Links : /\ link'[l].of = link[l].of /\ link'[l].client = link[l].client
                          /\ link'[l].server <=> link[l].server /\ l \notin L
                          /\ link'[l].code = Replaced => link[l].code = Replaced
  <2>1. link \in [Links -> LinkRows] /\ code \in Codes /\ code # Replaced
    BY GatewayFacts
  <2>. DEFINE f == ShutWith(L, code)
  <2>2. /\ f \in [Links -> LinkRows]
        /\ \A l \in Links : /\ f[l].of = link[l].of /\ f[l].client = link[l].client
                            /\ f[l].server <=> link[l].server /\ l \notin L
                            /\ f[l].code = IF l \in L /\ link[l].server THEN code ELSE link[l].code
    BY <2>1, ShuttingKeeps
  <2>3. link' = f
    OBVIOUS
  <2>. HIDE DEF f
  <2>. QED BY <2>1, <2>2, <2>3
<1>2. \A l \in Links : ~link'[l].server
  <2>1. \A l \in Links : link[l].server <=> online = l
    BY GatewayFacts
  <2>. QED BY <1>1, <2>1
<1>3. /\ \A l \in Links : link'[l].client => link[l].client /\ link'[l].of = link[l].of
      /\ \A l \in Links : online' # l
      /\ \A c \in Clients, l \in Links : client[c].link = l => link'[l].client
  BY <1>1, GatewayFacts, GatewayLimits
<1>4. client' \in [Clients -> ClientRows] /\ routed' \subseteq Users
  BY GatewayFacts
<1>. QED BY <1>1, <1>2, <1>3, <1>4, ShuttingEnds

LEMMA GatewayInductive == ASSUME GatewayInv, [GatewaysNext]_gatewayVars PROVE GatewayInv'
<1>1. ASSUME NEW c \in Clients, NEW l \in Links, Connects(c, l) PROVE GatewayInv'
  BY <1>1, ConnectsKeeps
<1>2. ASSUME NEW c \in Clients, ClientExits(c) PROVE GatewayInv'
  BY <1>2, ClientExitsKeeps
<1>3. ASSUME NEW l \in Links, HearsClose(l) \/ GoesDead(l) \/ ClientGivesUp(l) \/ ServerGivesUp(l) PROVE GatewayInv'
  BY <1>3, HearsCloseKeeps, GoesDeadKeeps, ClientGivesUpKeeps, ServerGivesUpKeeps
<1>4. ASSUME ServerRestarts PROVE GatewayInv'
  <2>1. Restarting \in Codes \ {Replaced} /\ cuts' \in 0..MaxCuts /\ gateway \in BOOLEAN /\ (routed # {} => gateway)
    BY <1>4, GatewayFacts, GatewayLimits DEF ServerRestarts, Codes, Restarting, Replaced
  <2>. QED BY <1>4, <2>1, ServerShuts DEF ServerRestarts
<1>5. ASSUME RemoveGateway PROVE GatewayInv'
  <2>1. Removed \in Codes \ {Replaced} /\ cuts \in 0..MaxCuts
    BY GatewayFacts DEF Codes, Removed, Replaced
  <2>. QED BY <1>5, <2>1, ServerShuts DEF RemoveGateway
<1>6. ASSUME NEW b \in Users, RouteThrough(b) \/ RouteBack(b) PROVE GatewayInv'
  BY <1>6 DEF RouteThrough, RouteBack, GatewayInv, GatewaysTypeOK, OneSocket, EndsAgree, Displaced, LatestStays
<1>7. ASSUME UNCHANGED gatewayVars PROVE GatewayInv'
  BY <1>7 DEF gatewayVars, GatewayInv, GatewaysTypeOK, OneSocket, EndsAgree, Displaced, LatestStays
<1>. QED BY <1>1, <1>2, <1>3, <1>4, <1>5, <1>6, <1>7 DEF GatewaysNext

LEMMA GatewayStarts == ASSUME GatewaysInit PROVE GatewayInv
<1>1. GatewaysTypeOK
  BY GatewayLimits DEF GatewaysInit, GatewaysTypeOK, LinkRows, ClientRows, Codes, Free, NotJoined, NotRunning
<1>2. \A l \in Links : ~link[l].client /\ ~link[l].server
  BY DEF GatewaysInit, Free
<1>3. \A c \in Clients : client[c].state # "connected" /\ client[c].link = NoLink /\ client[c].why # Replaced
  BY DEF GatewaysInit, NotJoined, NotRunning, Replaced
<1>4. OneSocket
  BY <1>2, GatewayLimits DEF GatewaysInit, OneSocket
<1>5. EndsAgree /\ Displaced /\ LatestStays
  BY <1>2, <1>3, GatewayLimits DEF EndsAgree, Displaced, LatestStays
<1>. QED BY <1>1, <1>4, <1>5 DEF GatewayInv

LEMMA GatewayHolds == GatewaysSpec => []GatewayInv
  BY GatewayStarts, GatewayInductive, PTL DEF GatewaysSpec

\* Rows, sockets and clients keep their types.
THEOREM GatewayTypes == GatewaysSpec => []GatewaysTypeOK
<1>1. GatewayInv => GatewaysTypeOK
  BY DEF GatewayInv
<1>. QED BY <1>1, GatewayHolds, PTL

\* A gateway has one socket whose server's end is open: the registered one.
THEOREM SocketIsOne == GatewaysSpec => []OneSocket
<1>1. GatewayInv => OneSocket
  BY DEF GatewayInv
<1>. QED BY <1>1, GatewayHolds, PTL

\* Of the computers with one token, the last to join is not told it was replaced.
THEOREM LatestIsKept == GatewaysSpec => []LatestStays
<1>1. GatewayInv => LatestStays
  BY DEF GatewayInv
<1>. QED BY <1>1, GatewayHolds, PTL
=============================================================================
