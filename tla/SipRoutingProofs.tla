-------------------------- MODULE SipRoutingProofs --------------------------
(***************************************************************************)
(* Proofs about SipRouting, for any accounts, ports and table size.        *)
(*                                                                         *)
(* RoutedToReceiver is not inductive: what keeps it true is that the port  *)
(* of a UDP transport is noted for its account, unless it could not be     *)
(* noted or a TLS account has the number too (NotedForOwner), which needs  *)
(* UDP ports to be distinct, those of leaked transports included, and a    *)
(* port to be gone before its account can be set up again.                 *)
(*                                                                         *)
(* SlotForEveryAccount: the slots taken are those of the accounts that     *)
(* have a transport and of the transports that were leaked (SlotsCounted), *)
(* and an account being set up has none yet.                               *)
(***************************************************************************)
EXTENDS SipRouting, FiniteSetTheorems, TLAPS

\* No two UDP transports have one local port.
PortsDistinct ==
    \A a \in Names \ Tls : port[a] /= NoPort =>
        /\ \A b \in Names \ Tls : a /= b => port[a] /= port[b]
        /\ \A t \in leaked : t.state \notin TlsStates => port[a] /= t.port

\* An account that is off, before the transport in setup, or past it in
\* teardown, has no transport.
NoPortWhileDown ==
    \A a \in Names : phase[a] \in {"off", "setup", "closed"} => port[a] = NoPort

\* Past the note, g_portToAccount names the AccountState that has the UDP
\* port, or a TLS account whose listener has, or had, the same number.
NotedForOwner ==
    /\ \A a \in Names \ Tls :
         port[a] /= NoPort /\ phase[a] /= "transport" /\ State(a) \notin unnoted
             => noted[port[a]] \in {State(a)} \cup TlsStates
    /\ \A t \in leaked :
         t.state \notin unnoted \cup TlsStates
             => noted[t.port] \in {t.state} \cup TlsStates

\* A transport that was created has a port to be noted.
TransportHasPort ==
    \A a \in Names : phase[a] = "transport" => port[a] /= NoPort

\* A leaked transport is of an AccountState that is gone, or about to be.
LeakedWhileDown ==
    \A t \in leaked :
        /\ t.state[2] <= run[t.state[1]]
        /\ t.state = State(t.state[1]) => phase[t.state[1]] \in {"closed", "off"}

Routes == /\ PortsDistinct
          /\ NoPortWhileDown
          /\ NotedForOwner
          /\ TransportHasPort
          /\ RoutedToReceiver

\* TypeOK without the count of slots, which needs cardinalities.
Types ==
    /\ phase \in [Names -> {"off", "setup", "transport", "create", "up", "closing",
                            "closed"}]
    /\ run \in [Names -> Runs]
    /\ port \in [Names -> Ports \cup {NoPort}]
    /\ conn \in [Names -> Ports \cup {NoPort}]
    /\ noted \in [Ports -> States \cup {Nobody}]
    /\ leaked \subseteq [state : States, port : Ports]
    /\ unnoted \subseteq States

IInv == Types /\ LeakedWhileDown /\ Routes

\* A UDP account's states are not among the TLS accounts'.
LEMMA UdpStates ==
    ASSUME Types, NEW a \in Names
    PROVE  State(a) \in States /\ (State(a) \in TlsStates <=> a \in Tls)
  BY DEF Types, State, States, TlsStates

\* An AccountState is not the null pointer.
LEMMA StateIsSomebody == \A s \in States : s /= Nobody
  BY DEF States, Nobody

\* The initial state is typed.
LEMMA TypesInit == Init => Types
  BY RoutingAssumption, PortAssumption DEF Init, Types, Runs

\* Every action keeps the variables in their domains.
LEMMA TypesStep == ASSUME Types, [Next]_vars, TransportHasPort PROVE Types'
<1> USE RoutingAssumption, PortAssumption DEF Types
<1>1. ASSUME NEW a \in Names, SetupBegin(a) PROVE Types'
  BY <1>1 DEF SetupBegin, Move, Runs
<1>2. ASSUME NEW a \in Names, NEW p \in Ports, CreateTransport(a, p) PROVE Types'
  BY <1>2 DEF CreateTransport, Move
<1>3. ASSUME NEW a \in Names, NoTransport(a) PROVE Types'
  BY <1>3 DEF NoTransport, Move
<1>4. ASSUME NEW a \in Names, NotePort(a) PROVE Types'
  BY <1>4 DEF NotePort, Move, State, States, TransportHasPort
<1>5. ASSUME NEW a \in Names, NotePortFails(a) PROVE Types'
  BY <1>5, UdpStates DEF NotePortFails, Move
<1>6. ASSUME NEW a \in Names, CreateAccount(a) PROVE Types'
  BY <1>6 DEF CreateAccount, Move
<1>7. ASSUME NEW a \in Names, NEW p \in Ports, TlsConnects(a, p) PROVE Types'
  BY <1>7 DEF TlsConnects
<1>8. ASSUME NEW a \in Names, TlsDisconnects(a) PROVE Types'
  BY <1>8 DEF TlsDisconnects
<1>9. ASSUME NEW a \in Names, TeardownBegin(a) PROVE Types'
  BY <1>9 DEF TeardownBegin, Move
<1>10. ASSUME NEW a \in Names, CloseTransport(a) PROVE Types'
  BY <1>10 DEF CloseTransport, Move
<1>11. ASSUME NEW a \in Names, CloseTransportFails(a) PROVE Types'
  <2>1. Transport(State(a), port[a]) \in [state : States, port : Ports]
    BY <1>11, UdpStates DEF CloseTransportFails, Transport
  <2>2. leaked' \subseteq [state : States, port : Ports]
    BY <1>11, <2>1 DEF CloseTransportFails
  <2> QED
    BY <1>11, <2>2 DEF CloseTransportFails, Move
<1>12. ASSUME NEW a \in Names, Erase(a) PROVE Types'
  BY <1>12 DEF Erase, Move
<1>13. ASSUME NEW t, NEW b \in Names, OnIncomingCall(t, b) PROVE Types'
  BY <1>13 DEF OnIncomingCall
<1>14. CASE UNCHANGED vars
  BY <1>14 DEF vars
<1> QED
  BY <1>1, <1>2, <1>3, <1>4, <1>5, <1>6, <1>7, <1>8, <1>9, <1>10, <1>11, <1>12,
     <1>13, <1>14 DEF Next, Setup, TearDown, Connection

\* An AccountState leaks its transport in its last moments.
LEMMA LeakedStep == ASSUME Types, LeakedWhileDown, [Next]_vars PROVE LeakedWhileDown'
<1> DEFINE Kept ==
        /\ leaked' = leaked /\ run' = run
        /\ \A a \in Names : phase[a] \in {"closed", "off"} => phase'[a] \in {"closed", "off"}
<1>t. ASSUME NEW t \in leaked
      PROVE  t.state[1] \in Names /\ t.state[2] \in Runs
  BY DEF Types, States
<1>k. Kept => LeakedWhileDown'
  BY <1>t DEF LeakedWhileDown, State
<1>1. ASSUME NEW a \in Names, SetupBegin(a) PROVE LeakedWhileDown'
  <2>1. /\ leaked' = leaked /\ run' = [run EXCEPT ![a] = @ + 1]
        /\ phase' = [phase EXCEPT ![a] = "setup"]
    BY <1>1 DEF SetupBegin, Move
  <2>2. ASSUME NEW t \in leaked
        PROVE  /\ t.state[2] <= run'[t.state[1]]
               /\ t.state = State(t.state[1])' => phase'[t.state[1]] \in {"closed", "off"}
    <3>1. CASE t.state[1] = a
      <4>1. /\ run[a] \in Nat /\ run'[a] = run[a] + 1
            /\ t.state[2] \in Nat /\ t.state[2] <= run[a]
        BY <1>t, <2>1, <3>1, RoutingAssumption DEF LeakedWhileDown, Types, Runs
      <4>2. t.state /= State(a)'
        BY <3>1, <4>1 DEF State
      <4> QED
        BY <3>1, <4>1, <4>2
    <3>2. CASE t.state[1] /= a
      BY <1>t, <2>1, <3>2 DEF LeakedWhileDown, State, Types
    <3> QED
      BY <3>1, <3>2
  <2> QED
    BY <2>1, <2>2 DEF LeakedWhileDown
<1>2. ASSUME NEW a \in Names, CloseTransportFails(a) PROVE LeakedWhileDown'
  <2>1. /\ leaked' = leaked \cup {Transport(State(a), port[a])} /\ run' = run
        /\ phase' = [phase EXCEPT ![a] = "closed"] /\ run[a] \in Nat
        /\ phase'[a] = "closed"
    BY <1>2, RoutingAssumption DEF CloseTransportFails, Move, Types, Runs
  <2>2. ASSUME NEW t \in leaked
        PROVE  /\ t.state[2] <= run'[t.state[1]]
               /\ t.state = State(t.state[1])' => phase'[t.state[1]] \in {"closed", "off"}
    BY <1>t, <2>1 DEF LeakedWhileDown, State, Types
  <2>3. LET t == Transport(State(a), port[a])
        IN  t.state[1] = a /\ t.state[2] = run[a]
    BY DEF Transport, State
  <2> QED
    BY <2>1, <2>2, <2>3 DEF LeakedWhileDown
<1>3. ASSUME NEW a \in Names,
             \/ NoTransport(a) \/ NotePort(a) \/ NotePortFails(a) \/ CreateAccount(a)
             \/ TeardownBegin(a) \/ CloseTransport(a) \/ Erase(a) \/ TlsDisconnects(a)
      PROVE  Kept
  BY <1>3 DEF NoTransport, NotePort, NotePortFails, CreateAccount, TeardownBegin,
      CloseTransport, Erase, TlsDisconnects, Move, Types
<1>4. ASSUME NEW a \in Names, NEW p \in Ports, CreateTransport(a, p) \/ TlsConnects(a, p)
      PROVE  Kept
  BY <1>4 DEF CreateTransport, TlsConnects, Move, Types
<1>5. ASSUME NEW t, NEW b \in Names, OnIncomingCall(t, b) PROVE Kept
  BY <1>5 DEF OnIncomingCall
<1>6. UNCHANGED vars => Kept
  BY DEF vars
<1> HIDE DEF Kept
<1> QED
  BY <1>k, <1>1, <1>2, <1>3, <1>4, <1>5, <1>6 DEF Next, Setup, TearDown, Connection

\* Initially nothing is noted and nothing has a port.
LEMMA RoutesInit == Init => Routes /\ LeakedWhileDown
  BY DEF Init, Routes, PortsDistinct, NoPortWhileDown, NotedForOwner,
         TransportHasPort, RoutedToReceiver, LeakedWhileDown

\* The last INVITE stays well routed while none arrives.
LEMMA RoutedKept ==
    ASSUME RoutedToReceiver, routed' = routed, unnoted \subseteq unnoted'
    PROVE  RoutedToReceiver'
  BY DEF RoutedToReceiver

\* onIncomingCall() uses the note of the port, and the note is right.
LEMMA IncomingRouted ==
    ASSUME IInv, NEW t, NEW b \in Names, OnIncomingCall(t, b)
    PROVE  RoutedToReceiver'
<1>0. TlsStates \subseteq States
  BY RoutingAssumption DEF States, TlsStates
<1>1. /\ routed'.arrived = t.state /\ routed'.used = Resolved(t.port, b)
      /\ routed'.early = NotYetNoted(t.state) /\ unnoted' = unnoted
      /\ t \in Receivers
  BY DEF OnIncomingCall
<1>2. SUFFICES ASSUME t.state \notin TlsStates, t.state \notin unnoted,
                      ~NotYetNoted(t.state)
               PROVE  Resolved(t.port, b) \in {t.state} \cup TlsStates
  BY <1>1 DEF RoutedToReceiver
<1>3. ASSUME t.state \in States, noted[t.port] \in {t.state} \cup TlsStates
      PROVE  Resolved(t.port, b) \in {t.state} \cup TlsStates
  BY <1>0, <1>3, StateIsSomebody DEF Resolved
<1>4. CASE t \in leaked
  BY <1>2, <1>3, <1>4 DEF IInv, Types, Routes, NotedForOwner
<1>5. CASE t \notin leaked
  <2>1. PICK a \in Names : Receives(a) /= NoPort /\ t = Transport(State(a), Receives(a))
    BY <1>1, <1>5 DEF Receivers
  <2>2. t.state = State(a) /\ t.port = Receives(a) /\ State(a)[1] = a
    BY <2>1 DEF Transport, State
  <2>3. a \notin Tls /\ State(a) \in States
    BY <1>2, <2>2, UdpStates DEF IInv
  <2>4. t.port = port[a] /\ port[a] /= NoPort
    BY <2>1, <2>2, <2>3 DEF Receives
  <2>5. phase[a] /= "transport"
    BY <1>2, <2>2 DEF NotYetNoted
  <2>6. noted[port[a]] \in {State(a)} \cup TlsStates
    BY <1>2, <2>2, <2>3, <2>4, <2>5 DEF IInv, Routes, NotedForOwner
  <2> QED
    BY <1>3, <2>2, <2>3, <2>4, <2>6
<1> QED
  BY <1>4, <1>5

\* Every action keeps the notes right.
LEMMA RoutesStep == ASSUME IInv, [Next]_vars PROVE Routes'
<1> USE PortAssumption DEF IInv, Types, Routes
<1>t. ASSUME NEW t \in leaked
      PROVE  t.state[1] \in Names /\ t.port \in Ports /\ t.state \in States
             /\ (t.state \in TlsStates <=> t.state[1] \in Tls)
  BY DEF States, TlsStates
<1>s. \A a \in Names : State(a) \in States /\ (State(a) \in TlsStates <=> a \in Tls)
  BY UdpStates
<1>1. ASSUME NEW a \in Names, SetupBegin(a) PROVE Routes'
  <2>1. /\ port' = port /\ noted' = noted /\ leaked' = leaked /\ unnoted' = unnoted
        /\ routed' = routed /\ port[a] = NoPort
        /\ \A c \in Names : c /= a => State(c)' = State(c) /\ phase'[c] = phase[c]
        /\ phase'[a] = "setup"
    BY <1>1 DEF SetupBegin, Move, NoPortWhileDown, State
  <2>2. NotedForOwner'
    BY <2>1 DEF NotedForOwner
  <2> QED
    BY <2>1, <2>2, RoutedKept DEF PortsDistinct, NoPortWhileDown, TransportHasPort
<1>2. ASSUME NEW a \in Names, NEW p \in Ports, CreateTransport(a, p) PROVE Routes'
  <2>0. /\ port' = [port EXCEPT ![a] = p] /\ port'[a] = p /\ run' = run
        /\ noted' = noted /\ leaked' = leaked /\ unnoted' = unnoted /\ routed' = routed
        /\ phase' = [phase EXCEPT ![a] = "transport"] /\ p \in FreePorts(a)
    BY <1>2 DEF CreateTransport, Move
  <2>1. a \notin Tls =>
          /\ \A b \in Names \ Tls : port[b] /= p
          /\ \A t \in leaked : t.state \notin TlsStates => t.port /= p
    BY <1>t, <2>0 DEF FreePorts, Protocol
  <2>2. PortsDistinct'
    BY <2>0, <2>1 DEF PortsDistinct
  <2>3. NotedForOwner'
    BY <2>0 DEF NotedForOwner, State
  <2> QED
    BY <2>0, <2>2, <2>3, RoutedKept DEF NoPortWhileDown, TransportHasPort
<1>3. ASSUME NEW a \in Names, NoTransport(a) PROVE Routes'
  <2>1. NotedForOwner'
    BY <1>3 DEF NoTransport, Move, NotedForOwner, NoPortWhileDown, State
  <2> QED
    BY <1>3, <2>1, RoutedKept
    DEF NoTransport, Move, PortsDistinct, NoPortWhileDown, TransportHasPort
<1>4. ASSUME NEW a \in Names, NotePort(a) PROVE Routes'
  <2>0. /\ port' = port /\ run' = run /\ leaked' = leaked /\ unnoted' = unnoted
        /\ routed' = routed /\ noted' = [noted EXCEPT ![port[a]] = State(a)]
        /\ phase' = [phase EXCEPT ![a] = "create"] /\ phase[a] = "transport"
    BY <1>4 DEF NotePort, Move
  <2>1. port[a] \in Ports /\ noted'[port[a]] = State(a)
        /\ \A q \in Ports : q /= port[a] => noted'[q] = noted[q]
    BY <2>0 DEF TransportHasPort
  <2>2. ASSUME NEW b \in Names \ Tls, port[b] /= NoPort, phase'[b] /= "transport",
               State(b) \notin unnoted
        PROVE  noted'[port[b]] \in {State(b)} \cup TlsStates
    <3>1. CASE b = a
      BY <2>1, <3>1
    <3>2. CASE b /= a /\ port[b] = port[a]
      <4>1. a \in Tls
        BY <2>1, <2>2, <3>2 DEF PortsDistinct
      <4> QED
        BY <1>s, <2>1, <3>2, <4>1
    <3>3. CASE b /= a /\ port[b] /= port[a]
      <4>1. port[b] \in Ports /\ phase[b] /= "transport"
        BY <2>0, <2>2, <3>3
      <4> QED
        BY <2>1, <2>2, <3>3, <4>1 DEF NotedForOwner
    <3> QED
      BY <3>1, <3>2, <3>3
  <2>3. ASSUME NEW t \in leaked, t.state \notin unnoted \cup TlsStates
        PROVE  noted'[t.port] \in {t.state} \cup TlsStates
    <3>1. CASE t.port = port[a]
      <4>1. a \in Tls
        BY <2>1, <2>3, <3>1 DEF PortsDistinct
      <4> QED
        BY <1>s, <2>1, <3>1, <4>1
    <3>2. CASE t.port /= port[a]
      BY <1>t, <2>1, <2>3, <3>2 DEF NotedForOwner
    <3> QED
      BY <3>1, <3>2
  <2>4. NotedForOwner'
    BY <2>0, <2>2, <2>3 DEF NotedForOwner, State
  <2> QED
    BY <2>0, <2>4, RoutedKept DEF PortsDistinct, NoPortWhileDown, TransportHasPort
<1>5. ASSUME NEW a \in Names, NotePortFails(a) PROVE Routes'
  <2>0. /\ port' = port /\ run' = run /\ leaked' = leaked /\ noted' = noted
        /\ routed' = routed /\ unnoted' = unnoted \cup {State(a)}
        /\ phase' = [phase EXCEPT ![a] = "create"] /\ phase[a] = "transport"
    BY <1>5 DEF NotePortFails, Move
  <2>1. NotedForOwner'
    BY <2>0 DEF NotedForOwner, State
  <2> QED
    BY <2>0, <2>1, RoutedKept DEF PortsDistinct, NoPortWhileDown, TransportHasPort
<1>6. ASSUME NEW a \in Names, CreateAccount(a) \/ TeardownBegin(a) PROVE Routes'
  <2>1. NotedForOwner'
    BY <1>6 DEF CreateAccount, TeardownBegin, Move, NotedForOwner, State
  <2> QED
    BY <1>6, <2>1, RoutedKept DEF CreateAccount, TeardownBegin, Move, PortsDistinct,
        NoPortWhileDown, TransportHasPort
<1>7. ASSUME NEW a \in Names, Erase(a) PROVE Routes'
  <2>1. NotedForOwner'
    BY <1>7 DEF Erase, Move, NotedForOwner, State
  <2> QED
    BY <1>7, <2>1, RoutedKept
    DEF Erase, Move, PortsDistinct, NoPortWhileDown, TransportHasPort
<1>8. ASSUME UNCHANGED <<phase, run, port, noted, leaked, unnoted, routed>> PROVE Routes'
  BY <1>8, RoutedKept DEF PortsDistinct, NoPortWhileDown, NotedForOwner,
      TransportHasPort, State
<1>9. ASSUME NEW a \in Names, CloseTransport(a) PROVE Routes'
  <2>1. NotedForOwner'
    BY <1>9 DEF CloseTransport, Move, NotedForOwner, State
  <2> QED
    BY <1>9, <2>1, RoutedKept
    DEF CloseTransport, Move, PortsDistinct, NoPortWhileDown, TransportHasPort
<1>10. ASSUME NEW a \in Names, CloseTransportFails(a) PROVE Routes'
  <2>0. /\ port' = [port EXCEPT ![a] = NoPort] /\ port'[a] = NoPort /\ run' = run
        /\ noted' = noted /\ leaked' = leaked \cup {Transport(State(a), port[a])}
        /\ unnoted' = unnoted /\ routed' = routed /\ port[a] /= NoPort
        /\ phase' = [phase EXCEPT ![a] = "closed"] /\ phase[a] = "closing"
    BY <1>10 DEF CloseTransportFails, Move
  <2>1. /\ Transport(State(a), port[a]).state = State(a)
        /\ Transport(State(a), port[a]).port = port[a]
    BY DEF Transport
  <2>2. ASSUME NEW t \in leaked', t.state \notin TlsStates,
               NEW b \in Names \ Tls, port'[b] /= NoPort
        PROVE  port'[b] /= t.port
    <3>1. b /= a /\ port'[b] = port[b]
      BY <2>0, <2>2
    <3>2. CASE t \in leaked
      BY <2>2, <3>1, <3>2 DEF PortsDistinct
    <3>3. CASE t = Transport(State(a), port[a])
      <4>1. a \notin Tls
        BY <1>s, <2>1, <2>2, <3>3
      <4> QED
        BY <2>0, <2>1, <2>2, <3>1, <3>3, <4>1 DEF PortsDistinct
    <3> QED
      BY <2>0, <3>2, <3>3
  <2>3. PortsDistinct'
    BY <2>0, <2>2 DEF PortsDistinct
  <2>4. ASSUME NEW t \in leaked', t.state \notin unnoted \cup TlsStates
        PROVE  noted[t.port] \in {t.state} \cup TlsStates
    <3>1. CASE t \in leaked
      BY <2>4, <3>1 DEF NotedForOwner
    <3>2. CASE t = Transport(State(a), port[a])
      <4>1. a \in Names \ Tls /\ phase[a] /= "transport" /\ State(a) \notin unnoted
        BY <1>s, <2>0, <2>1, <2>4, <3>2
      <4> QED
        BY <2>0, <2>1, <3>2, <4>1 DEF NotedForOwner
    <3> QED
      BY <2>0, <3>1, <3>2
  <2>5. NotedForOwner'
    BY <2>0, <2>4 DEF NotedForOwner, State
  <2> QED
    BY <2>0, <2>3, <2>5, RoutedKept DEF NoPortWhileDown, TransportHasPort
<1>11. ASSUME NEW t, NEW b \in Names, OnIncomingCall(t, b) PROVE Routes'
  <2>1. RoutedToReceiver'
    BY <1>11, IncomingRouted
  <2> QED
    BY <1>11, <2>1 DEF OnIncomingCall, PortsDistinct, NoPortWhileDown, NotedForOwner,
        TransportHasPort, State
<1>12. ASSUME NEW a \in Names, Connection(a) PROVE Routes'
  BY <1>8, <1>12 DEF Connection, TlsConnects, TlsDisconnects
<1>13. CASE UNCHANGED vars
  BY <1>8, <1>13 DEF vars
<1> QED
  BY <1>1, <1>2, <1>3, <1>4, <1>5, <1>6, <1>7, <1>9, <1>10, <1>11, <1>12, <1>13
     DEF Next, Setup, TearDown

\* onIncomingCall() goes on with the AccountState whose transport received
\* the INVITE, or with a TLS account's, for any number of UDP and TLS
\* accounts rebuilt any number of times and with any transports leaked -
\* except for an INVITE that overtakes setupAccount() and for an account
\* whose port could not be noted.
THEOREM RoutingTheorem == Spec => []RoutedToReceiver
<1>1. Init => IInv
  BY TypesInit, RoutesInit DEF IInv
<1>2. IInv /\ [Next]_vars => IInv'
  <2> SUFFICES ASSUME IInv, [Next]_vars PROVE IInv'
    OBVIOUS
  <2>1. Types'
    BY TypesStep DEF IInv, Routes
  <2>2. LeakedWhileDown'
    BY LeakedStep DEF IInv
  <2>3. Routes'
    BY RoutesStep
  <2> QED
    BY <2>1, <2>2, <2>3 DEF IInv
<1>3. IInv => RoutedToReceiver
  BY DEF IInv, Routes
<1> QED
  BY <1>1, <1>2, <1>3, PTL DEF Spec
-----------------------------------------------------------------------------
(* Slots of pjsua's transport table                                        *)

\* The accounts that have a transport.
Holders == {a \in Names : port[a] /= NoPort}

\* Every slot that is taken is the transport of an account, or was leaked.
SlotsCounted ==
    /\ IsFiniteSet(leaked)
    /\ freeSlots \in Nat
    /\ freeSlots = Slots - Cardinality(Holders) - Cardinality(leaked)

\* The rest of TypeOK.
RestTypes ==
    /\ known \subseteq Names
    /\ routed \in [arrived : States \cup {Nobody}, used : States \cup {Nobody},
                   early : BOOLEAN, freed : BOOLEAN]

SlotInv == /\ Types
           /\ LeakedWhileDown
           /\ RestTypes
           /\ NoPortWhileDown
           /\ TransportHasPort
           /\ SlotsCounted

\* There are no more holders than accounts, and fewer when one has no port.
LEMMA HoldersBound ==
    /\ IsFiniteSet(Holders) /\ Slots \in Nat
    /\ Cardinality(Holders) \in Nat /\ Cardinality(Names) \in Nat
    /\ \A a \in Names : port[a] = NoPort => Cardinality(Holders) < Cardinality(Names)
<1>1. IsFiniteSet(Names) /\ Cardinality(Names) \in Nat /\ Slots \in Nat
  BY RoutingAssumption, FS_CardinalityType
<1>2. Holders \in SUBSET Names
  BY DEF Holders
<1>3. /\ IsFiniteSet(Holders) /\ Cardinality(Holders) <= Cardinality(Names)
      /\ Cardinality(Names) = Cardinality(Holders) => Names = Holders
  BY <1>1, <1>2, FS_Subset
<1>4. Cardinality(Holders) \in Nat
  BY <1>3, FS_CardinalityType
<1>5. ASSUME NEW a \in Names, port[a] = NoPort
      PROVE  Cardinality(Holders) < Cardinality(Names)
  <2>1. Names /= Holders
    BY <1>5 DEF Holders
  <2> QED
    BY <1>1, <1>3, <1>4, <2>1
<1> QED
  BY <1>1, <1>3, <1>4, <1>5

\* The slots are counted right when no transport comes or goes.
LEMMA CountKept ==
    ASSUME SlotsCounted, port' = port, freeSlots' = freeSlots, leaked' = leaked
    PROVE  SlotsCounted'
  BY DEF SlotsCounted, Holders

\* transportCreate() takes a slot that no other account has.
LEMMA CreateCounted ==
    ASSUME SlotInv, NEW a \in Names, NEW p \in Ports, CreateTransport(a, p)
    PROVE  SlotsCounted'
<1>1. a \notin Holders
  BY DEF SlotInv, NoPortWhileDown, CreateTransport, Holders
<1>2. Holders' = Holders \cup {a}
  BY PortAssumption DEF SlotInv, Types, CreateTransport, Holders
<1>3. Cardinality(Holders \cup {a}) = Cardinality(Holders) + 1
  BY <1>1, HoldersBound, FS_AddElement
<1>4. /\ freeSlots' = freeSlots - 1 /\ freeSlots > 0 /\ leaked' = leaked
      /\ IsFiniteSet(leaked) /\ freeSlots \in Nat
      /\ freeSlots = Slots - Cardinality(Holders) - Cardinality(leaked)
  BY DEF CreateTransport, SlotInv, SlotsCounted
<1>5. Cardinality(leaked) \in Nat
  BY <1>4, FS_CardinalityType
<1> QED
  BY <1>2, <1>3, <1>4, <1>5, HoldersBound DEF SlotsCounted

\* transportClose() gives back the slot of an account that has one.
LEMMA CloseCounted ==
    ASSUME SlotInv, NEW a \in Names, CloseTransport(a)
    PROVE  SlotsCounted'
<1>1. Holders' = Holders \ {a}
  BY DEF SlotInv, Types, CloseTransport, Holders
<1>2. Cardinality(Holders \ {a}) =
        IF a \in Holders THEN Cardinality(Holders) - 1 ELSE Cardinality(Holders)
  BY HoldersBound, FS_RemoveElement
<1>3. /\ freeSlots' = (IF port[a] = NoPort THEN freeSlots ELSE freeSlots + 1)
      /\ leaked' = leaked /\ IsFiniteSet(leaked) /\ freeSlots \in Nat
      /\ freeSlots = Slots - Cardinality(Holders) - Cardinality(leaked)
  BY DEF CloseTransport, SlotInv, SlotsCounted
<1>4. a \in Holders <=> port[a] /= NoPort
  BY DEF Holders
<1>5. Cardinality(leaked) \in Nat
  BY <1>3, FS_CardinalityType
<1> QED
  BY <1>1, <1>2, <1>3, <1>4, <1>5, HoldersBound DEF SlotsCounted

\* A transport that is not closed is counted as leaked.
LEMMA LeakCounted ==
    ASSUME SlotInv, NEW a \in Names, CloseTransportFails(a)
    PROVE  SlotsCounted'
<1> DEFINE t == Transport(State(a), port[a])
<1>1. Holders' = Holders \ {a} /\ a \in Holders
  BY DEF SlotInv, Types, CloseTransportFails, Holders
<1>2. Cardinality(Holders \ {a}) = Cardinality(Holders) - 1
  BY <1>1, HoldersBound, FS_RemoveElement
<1>3. /\ freeSlots' = freeSlots /\ leaked' = leaked \cup {t}
      /\ IsFiniteSet(leaked) /\ freeSlots \in Nat
      /\ freeSlots = Slots - Cardinality(Holders) - Cardinality(leaked)
  BY DEF CloseTransportFails, SlotInv, SlotsCounted
<1>4. t \notin leaked
  <2>1. t.state = State(a) /\ t.state[1] = a /\ phase[a] = "closing"
    BY DEF Transport, State, CloseTransportFails
  <2> QED
    BY <2>1 DEF SlotInv, LeakedWhileDown
<1> HIDE DEF t
<1>5. Cardinality(leaked') = Cardinality(leaked) + 1 /\ IsFiniteSet(leaked')
  BY <1>3, <1>4, FS_AddElement
<1>6. Cardinality(leaked) \in Nat
  BY <1>3, FS_CardinalityType
<1> QED
  BY <1>1, <1>2, <1>3, <1>5, <1>6, HoldersBound DEF SlotsCounted

\* The AccountState onIncomingCall() goes on with is one, or null.
LEMMA RoutedType ==
    ASSUME SlotInv, NEW t, NEW b \in Names, OnIncomingCall(t, b)
    PROVE  RestTypes'
<1>1. t.state \in States /\ t.port \in Ports
  <2>1. CASE t \in leaked
    BY <2>1 DEF SlotInv, Types
  <2>2. CASE t \notin leaked
    <3>1. PICK a \in Names : Receives(a) /= NoPort /\ t = Transport(State(a), Receives(a))
      BY <2>2 DEF OnIncomingCall, Receivers
    <3>2. Receives(a) \in Ports
      BY <3>1 DEF SlotInv, Types, Receives
    <3> QED
      BY <3>1, <3>2, UdpStates DEF SlotInv, Transport
  <2> QED
    BY <2>1, <2>2
<1>2. State(b) \in States
  BY UdpStates DEF SlotInv
<1>3. Resolved(t.port, b) \in States \cup {Nobody}
  BY <1>1, <1>2 DEF SlotInv, Types, Resolved
<1>4. Alive(Resolved(t.port, b)) \in BOOLEAN /\ NotYetNoted(t.state) \in BOOLEAN
  BY DEF Alive, NotYetNoted
<1> QED
  BY <1>1, <1>3, <1>4 DEF SlotInv, RestTypes, OnIncomingCall

\* Every action keeps the count of the slots.
LEMMA SlotStep == ASSUME SlotInv, [Next]_vars PROVE SlotInv'
<1>t. Types' /\ LeakedWhileDown'
  BY TypesStep, LeakedStep DEF SlotInv
<1> USE PortAssumption DEF SlotInv, Types, RestTypes, NoPortWhileDown,
                           TransportHasPort
<1>1. ASSUME NEW a \in Names, SetupBegin(a) PROVE SlotInv'
  BY <1>t, <1>1, CountKept DEF SetupBegin, Move
<1>2. ASSUME NEW a \in Names, NEW p \in Ports, CreateTransport(a, p) PROVE SlotInv'
  BY <1>t, <1>2, CreateCounted DEF CreateTransport, Move
<1>3. ASSUME NEW a \in Names, NoTransport(a) PROVE SlotInv'
  BY <1>t, <1>3, CountKept DEF NoTransport, Move
<1>4. ASSUME NEW a \in Names, NotePort(a) PROVE SlotInv'
  BY <1>t, <1>4, CountKept DEF NotePort, Move
<1>5. ASSUME NEW a \in Names, NotePortFails(a) PROVE SlotInv'
  BY <1>t, <1>5, CountKept DEF NotePortFails, Move
<1>6. ASSUME NEW a \in Names, CreateAccount(a) PROVE SlotInv'
  BY <1>t, <1>6, CountKept DEF CreateAccount, Move
<1>7. ASSUME NEW a \in Names, NEW p \in Ports, TlsConnects(a, p) PROVE SlotInv'
  BY <1>t, <1>7, CountKept DEF TlsConnects
<1>8. ASSUME NEW a \in Names, TlsDisconnects(a) PROVE SlotInv'
  BY <1>t, <1>8, CountKept DEF TlsDisconnects
<1>9. ASSUME NEW a \in Names, TeardownBegin(a) PROVE SlotInv'
  BY <1>t, <1>9, CountKept DEF TeardownBegin, Move
<1>10. ASSUME NEW a \in Names, CloseTransport(a) PROVE SlotInv'
  BY <1>t, <1>10, CloseCounted DEF CloseTransport, Move
<1>11. ASSUME NEW a \in Names, CloseTransportFails(a) PROVE SlotInv'
  BY <1>t, <1>11, LeakCounted DEF CloseTransportFails, Move
<1>12. ASSUME NEW a \in Names, Erase(a) PROVE SlotInv'
  BY <1>t, <1>12, CountKept DEF Erase, Move
<1>13. ASSUME NEW t, NEW b \in Names, OnIncomingCall(t, b) PROVE SlotInv'
  BY <1>t, <1>13, CountKept, RoutedType DEF OnIncomingCall
<1>14. CASE UNCHANGED vars
  BY <1>t, <1>14, CountKept DEF vars
<1> QED
  BY <1>1, <1>2, <1>3, <1>4, <1>5, <1>6, <1>7, <1>8, <1>9, <1>10, <1>11, <1>12,
     <1>13, <1>14 DEF Next, Setup, TearDown, Connection

\* Initially all slots are free.
LEMMA SlotInit == Init => SlotInv
<1> SUFFICES ASSUME Init PROVE SlotInv
  OBVIOUS
<1>1. Holders = {} /\ leaked = {}
  BY DEF Init, Holders
<1>2. SlotsCounted
  BY <1>1, FS_EmptySet, RoutingAssumption DEF Init, SlotsCounted
<1>3. RestTypes
  BY DEF Init, RestTypes
<1> QED
  BY <1>2, <1>3, TypesInit, RoutesInit DEF Init, SlotInv, NoPortWhileDown,
      TransportHasPort

\* The count of the slots holds throughout.
LEMMA SlotsAlwaysCounted == Spec => []SlotInv
<1>1. SlotInv /\ [Next]_vars => SlotInv'
  BY SlotStep
<1> QED
  BY <1>1, SlotInit, PTL DEF Spec

\* The accounts' state, g_portToAccount and pjsua's table stay in their
\* domains; the table is never over-full, and no slot is given back twice.
THEOREM RoutingTypeOK == Spec => []TypeOK
<1>1. SlotInv => TypeOK
  <2> SUFFICES ASSUME SlotInv PROVE TypeOK
    OBVIOUS
  <2>1. freeSlots \in 0..Slots
    <3>1. Cardinality(leaked) \in Nat
      BY FS_CardinalityType DEF SlotInv, SlotsCounted
    <3> QED
      BY <3>1, HoldersBound DEF SlotInv, SlotsCounted
  <2> QED
    BY <2>1 DEF SlotInv, Types, RestTypes, TypeOK
<1> QED
  BY <1>1, SlotsAlwaysCounted, PTL

\* setupAccount() finds a free slot in pjsua's transport table, however often
\* reloadConfig() tore accounts down and set them up again, unless
\* transportClose() failed more often than the table has slots to spare: a
\* teardown gives back the slot that transportCreate() took, and a close that
\* fails loses that one slot.
THEOREM SlotTheorem == Spec => []SlotForEveryAccount
<1>1. SlotInv => SlotForEveryAccount
  <2> SUFFICES ASSUME SlotInv, NEW a \in Names, phase[a] = "setup",
                      Cardinality(leaked) <= Slots - Cardinality(Names)
               PROVE  freeSlots > 0
    BY DEF SlotForEveryAccount
  <2>1. Cardinality(leaked) \in Nat
    BY FS_CardinalityType DEF SlotInv, SlotsCounted
  <2>2. Cardinality(Holders) < Cardinality(Names)
    BY HoldersBound DEF SlotInv, NoPortWhileDown
  <2> QED
    BY <2>1, <2>2, HoldersBound DEF SlotInv, SlotsCounted
<1> QED
  BY <1>1, SlotsAlwaysCounted, PTL
=============================================================================
