---------------------------- MODULE AcceptorsProofs ----------------------------
(***************************************************************************)
(* What holds of Acceptors for any number of sessions, descriptors, clients *)
(* and restarts.  The port's own tables agree whatever the number of reader *)
(* threads; what is said of connections holds with one (InputThreads is 1   *)
(* unless it is set), for with two a descriptor that one thread closes and  *)
(* reuses may still be meant by another.                                    *)
(***************************************************************************)
EXTENDS Acceptors, FiniteSetTheorems, WellFoundedInduction, TLAPS

USE AcceptorsAssumption

-----------------------------------------------------------------------------
(* Threads and descriptors *)

\* The descriptors of connections: the first one is the listening socket's.
PeerFds == 2..MaxFd

\* The update thread and the application's are no reader threads, and every
\* descriptor has one of those.
LEMMA ThreadFacts ==
    /\ ReaderThreads \subseteq Threads /\ {Update, App} \subseteq Threads
    /\ Update \notin ReaderThreads /\ App \notin ReaderThreads /\ Update # App
    /\ Nobody \notin Threads
    /\ Fds = {1} \cup PeerFds /\ 1 \notin PeerFds /\ 0 \notin Fds
    /\ \A f \in Fds : Owner(f) \in ReaderThreads
<1>1. \A f \in Fds : Owner(f) \in ReaderThreads
  BY DEF Fds, Owner, ReaderThreads
<1>2. QED
  BY <1>1 DEF ReaderThreads, Threads, Update, App, Nobody, Fds, PeerFds

\* The lowest free descriptor is one that is free.
LEMMA MinFree ==
    ASSUME NEW S \in SUBSET Nat, S # {}
    PROVE  Min(S) \in S /\ \A y \in S : Min(S) <= y
<1> DEFINE R == {ss \in Nat \X Nat : ss[1] < ss[2]}
<1>1. OpToRel(<, Nat) = R
  BY Zenon DEF OpToRel
<1>2. IsWellFoundedOn(R, Nat)
  BY <1>1, NatLessThanWellFounded, Zenon
<1> HIDE DEF R
<1>3. PICK x \in S : \A y \in S : ~(<<y, x>> \in R)
  BY <1>2, WFMin
<1>4. \A y \in S : x <= y
  <2>1. ASSUME NEW y \in S PROVE ~(y < x)
    BY <1>3 DEF R
  <2>2. QED
    BY <2>1
<1>5. QED
  BY <1>4 DEF Min

-----------------------------------------------------------------------------
(* The port *)

\* The tables and registers are of their types.  Only the first descriptor is ever a
\* listening socket, for the port is opened when no connection can be accepted.
TableTypes ==
    /\ acceptor \in {0, 1} /\ DOMAIN listeners \subseteq {1}
    /\ \A f \in DOMAIN listeners : listeners[f] \subseteq Sessions
    /\ DOMAIN unknown \subseteq PeerFds /\ \A f \in DOMAIN unknown : unknown[f] \in {0, 1}
    /\ DOMAIN known \subseteq PeerFds /\ \A f \in DOMAIN known : known[f] \in Sessions

HandlerTypes ==
    /\ handle \in [Sessions -> {0} \cup PeerFds]
    /\ valid \in [Sessions -> BOOLEAN] /\ connected \in [Sessions -> BOOLEAN]
    /\ enabled \in [Sessions -> BOOLEAN] /\ stopped \in [Sessions -> BOOLEAN]
    /\ starts \in 0..MaxStarts

LockTypes ==
    /\ networkMutex \in {Nobody, Update}
    /\ readerMutex \in [ReaderThreads -> ReaderThreads \cup {Nobody}]
    /\ \A r \in ReaderThreads : readerMutex[r] \in {r, Nobody}
    /\ handlerMutex \in [Sessions -> Threads \cup {Nobody}]

Pcs == Inside \cup {"idle", "end", "close", "remove", "look", "add", "register"}

ThreadTypes ==
    /\ at \in [Threads -> Pcs] /\ fd \in [Threads -> 0..MaxFd]
    /\ who \in [Threads -> Sessions \cup {"none"}]
    /\ batch \in [ReaderThreads -> SUBSET (Fds \X {"read", "hangup"})]

SocketTypes ==
    /\ listening \subseteq {1} /\ DOMAIN open \subseteq PeerFds
    /\ watched \subseteq Fds /\ edges \subseteq watched
    /\ unread \subseteq Peers /\ gone \subseteq Peers

PeerTypes ==
    /\ names \in Seq(Sessions) /\ Len(names) <= MaxPeers /\ backlog \in Seq(Peers)
    /\ \A f \in DOMAIN open : open[f] \in 1..Len(names)
    /\ \A i \in 1..Len(backlog) : backlog[i] \in 1..Len(names)

\* A lock is held exactly where the code is inside its scope.
Locked ==
    /\ networkMutex = Update <=> at[Update] = "register"
    /\ \A r \in ReaderThreads :
          /\ at[r] \in Inside => readerMutex[r] = r
          /\ readerMutex[r] = r => at[r] # "idle"
    /\ \A s \in Sessions, t \in Threads : handlerMutex[s] = t <=> at[t] = "close" /\ who[t] = s

\* What a thread has in hand: a connection is accepted by the reader thread of the
\* port, with its lock, which keeps the port open.
Placed ==
    /\ \A r \in ReaderThreads :
          /\ at[r] \in {"accept", "hand"} => r = Owner(1) /\ acceptor = 1 /\ 1 \in DOMAIN listeners
          /\ at[r] \in {"hand", "assign", "first", "reply"} => fd[r] \in PeerFds
          /\ at[r] \in {"assign", "first", "reply"} => who[r] \in Sessions
          /\ \A f \in Fds : <<f, "read">> \in batch[r] \/ <<f, "hangup">> \in batch[r] => Owner(f) = r
          /\ <<1, "hangup">> \notin batch[r]
    /\ \A t \in Threads : at[t] \in {"end", "close", "remove", "look", "add", "register"} => who[t] \in Sessions
    /\ \A t \in Threads : at[t] = "close" => fd[t] \in PeerFds
    /\ at[Update] = "register" => acceptor = 1 /\ fd[Update] = 1

\* The tables of Network and of the reader thread agree about the port, except while
\* addAcceptor is between them, and an Acceptor that is not empty has sessions.
Port ==
    /\ listening = {acceptor} \ {0}
    /\ at[Update] # "register" => DOMAIN listeners = listening
    /\ \A f \in DOMAIN listeners : listeners[f] # {}
    /\ \A f \in DOMAIN unknown : unknown[f] # 0 => unknown[f] \in DOMAIN listeners

\* A client has one connection, which waits in the backlog or has one descriptor.
OnePlace ==
    /\ \A f, g \in DOMAIN open : open[f] = open[g] => f = g
    /\ \A i, j \in 1..Len(backlog) : backlog[i] = backlog[j] => i = j
    /\ \A i \in 1..Len(backlog) : \A f \in DOMAIN open : open[f] # backlog[i]

PortInv ==
    /\ TableTypes /\ HandlerTypes /\ LockTypes /\ ThreadTypes /\ SocketTypes /\ PeerTypes
    /\ Locked /\ Placed /\ Port /\ OnePlace

\* There is a descriptor for every client: all but one are for connections, and the
\* client whose connection is accepted has none yet.
LEMMA FreeLeft ==
    ASSUME SocketTypes, PeerTypes, OnePlace, Len(backlog) > 0
    PROVE  FreeFds # {}
<1> SUFFICES ASSUME FreeFds = {} PROVE FALSE
  OBVIOUS
<1>1. DOMAIN open = PeerFds
  BY ThreadFacts DEF FreeFds, SocketTypes
<1> DEFINE all == 1..Len(names)  others == all \ {backlog[1]}
           place == [f \in PeerFds |-> open[f]]
<1>2. Len(names) \in Nat /\ Len(names) <= MaxPeers /\ backlog[1] \in all
  BY DEF PeerTypes
<1>3. \A f \in PeerFds : open[f] \in others
  BY <1>1, <1>2 DEF PeerTypes, OnePlace
<1>4. place \in Injection(PeerFds, others)
  BY <1>1, <1>3 DEF Injection, IsInjective, OnePlace
<1>5. IsFiniteSet(all) /\ Cardinality(all) = Len(names)
  <2>1. ASSUME NEW n \in Nat PROVE IsFiniteSet(1..n) /\ Cardinality(1..n) = n
    <3>1. IsFiniteSet(1..n)
      BY FS_Interval
    <3>2. Cardinality(1..n) = IF 1 > n THEN 0 ELSE n - 1 + 1
      BY FS_Interval
    <3>3. QED
      BY <3>1, <3>2
  <2>2. QED
    BY <1>2, <2>1
<1>6. IsFiniteSet(others) /\ Cardinality(others) = Len(names) - 1
  <2> HIDE DEF all
  <2>1. /\ IsFiniteSet(all \ {backlog[1]})
        /\ Cardinality(all \ {backlog[1]}) = IF backlog[1] \in all THEN Cardinality(all) - 1 ELSE Cardinality(all)
    BY <1>5, FS_RemoveElement
  <2>2. QED
    BY <1>2, <1>5, <2>1
<1>7. Cardinality(PeerFds) = MaxFd - 1
  BY FS_Interval DEF PeerFds
<1> HIDE DEF others, place
<1>8. Cardinality(PeerFds) <= Cardinality(others)
  BY <1>4, <1>6, FS_Injection
<1>9. QED
  BY <1>2, <1>6, <1>7, <1>8

\* Network::accept gets the descriptor of a connection, never the port's.
LEMMA AcceptedFd ==
    ASSUME SocketTypes, PeerTypes, OnePlace, Len(backlog) > 0, 1 \in listening
    PROVE  Min(FreeFds) \in PeerFds /\ Min(FreeFds) \notin DOMAIN open
<1>1. FreeFds \subseteq Nat /\ FreeFds \subseteq PeerFds
  BY ThreadFacts DEF FreeFds, Fds
<1>2. Min(FreeFds) \in FreeFds
  BY <1>1, FreeLeft, MinFree
<1>3. QED
  BY <1>1, <1>2 DEF FreeFds

\* The port is opened on the first descriptor.
LEMMA PortFd ==
    ASSUME SocketTypes, 1 \notin listening
    PROVE  Min(FreeFds) = 1
<1>1. FreeFds \subseteq Nat /\ 1 \in FreeFds /\ 0 \notin FreeFds
  BY ThreadFacts DEF FreeFds, Fds, SocketTypes
<1>2. PICK m \in FreeFds : m = Min(FreeFds) /\ m <= 1
  BY <1>1, MinFree
<1>3. m \in Nat /\ m # 0
  BY <1>1, <1>2
<1>4. QED
  BY <1>2, <1>3

-----------------------------------------------------------------------------
(* What the helpers do *)

USE DEF tables, handlers, sessions, locks, threads, sockets, peers

\* A thread that goes on leaves the others where they are.
LEMMA GoesFacts ==
    ASSUME ThreadTypes, NEW t \in Threads, NEW pc \in Pcs, NEW f \in 0..MaxFd,
           NEW s \in Sessions \cup {"none"}, Goes(t, pc, f, s)
    PROVE  /\ at' \in [Threads -> Pcs] /\ fd' \in [Threads -> 0..MaxFd]
           /\ who' \in [Threads -> Sessions \cup {"none"}]
           /\ at'[t] = pc /\ fd'[t] = f /\ who'[t] = s
           /\ \A u \in Threads : u # t => at'[u] = at[u] /\ fd'[u] = fd[u] /\ who'[u] = who[u]
  BY DEF ThreadTypes, Goes

\* Only the lock of the reader thread itself is ever its to release.
LEMMA ReleasedFacts ==
    ASSUME LockTypes, NEW t \in Threads, readerMutex' = Released(t)
    PROVE  /\ readerMutex' \in [ReaderThreads -> ReaderThreads \cup {Nobody}]
           /\ \A r \in ReaderThreads :
                 readerMutex'[r] = IF r = t THEN Nobody ELSE readerMutex[r]
  BY ThreadFacts DEF LockTypes, Released

\* What epoll_wait reports is taken by the thread it was reported to.
LEMMA TakesFacts ==
    ASSUME ThreadTypes, Placed, NEW r \in ReaderThreads, NEW f \in Fds,
           NEW k \in {"read", "hangup"}, Takes(r, f, k)
    PROVE  /\ at[r] = "idle" /\ Owner(f) = r /\ (k = "hangup" => f \in PeerFds)
           /\ batch' \in [ReaderThreads -> SUBSET (Fds \X {"read", "hangup"})]
           /\ batch'[r] = batch[r] \ {<<f, k>>}
           /\ \A q \in ReaderThreads : q # r => batch'[q] = batch[q]
           /\ \A q \in ReaderThreads : batch'[q] \subseteq batch[q]
<1>1. /\ batch' \in [ReaderThreads -> SUBSET (Fds \X {"read", "hangup"})]
      /\ batch'[r] = batch[r] \ {<<f, k>>}
      /\ \A q \in ReaderThreads : q # r => batch'[q] = batch[q]
  BY DEF ThreadTypes, Takes
<1>2. at[r] = "idle" /\ <<f, k>> \in batch[r]
  BY DEF Takes
<1>3. Owner(f) = r /\ (k = "hangup" => f \in PeerFds)
  BY <1>2, ThreadFacts DEF Placed
<1>4. QED
  BY <1>1, <1>2, <1>3

\* Closing the descriptor of a connection leaves the port and the other connections.
LEMMA CloseFacts ==
    ASSUME NEW f \in PeerFds, SocketTypes, CloseFd(f)
    PROVE  /\ listening' = listening /\ DOMAIN open' = DOMAIN open \ {f}
           /\ \A g \in DOMAIN open' : open'[g] = open[g]
           /\ watched' = watched \ {f} /\ edges' = edges \ {f}
  BY ThreadFacts DEF SocketTypes, CloseFd, Without, Restrict

\* ... as do the types of all, and that a client has one connection.
LEMMA CloseKeeps ==
    ASSUME NEW f \in PeerFds, SocketTypes, PeerTypes, OnePlace, CloseFd(f), UNCHANGED <<backlog, names, gone>>,
           unread' \subseteq unread
    PROVE  SocketTypes' /\ PeerTypes' /\ OnePlace'
<1>1. /\ listening' = listening /\ DOMAIN open' = DOMAIN open \ {f}
      /\ \A g \in DOMAIN open' : open'[g] = open[g]
      /\ watched' = watched \ {f} /\ edges' = edges \ {f}
  BY CloseFacts
<1>2. SocketTypes'
  BY <1>1 DEF SocketTypes
<1>3. PeerTypes'
  BY <1>1, SMTT(60) DEF PeerTypes
<1>4. OnePlace'
  BY <1>1, SMTT(60) DEF OnePlace
<1>5. QED
  BY <1>2, <1>3, <1>4

\* ReaderThread::disconnect of a connection leaves the port's tables.
LEMMA DisconnectKeeps ==
    ASSUME NEW f \in PeerFds, PortInv, Disconnect(f), UNCHANGED <<backlog, names, unread, gone>>
    PROVE  /\ TableTypes' /\ SocketTypes' /\ PeerTypes' /\ OnePlace'
           /\ valid' \in [Sessions -> BOOLEAN] /\ connected' \in [Sessions -> BOOLEAN]
           /\ acceptor' = acceptor /\ listeners' = listeners /\ listening' = listening
<1>1. SocketTypes' /\ PeerTypes' /\ OnePlace'
  BY CloseKeeps DEF PortInv, Disconnect
<1>2. listening' = listening
  BY CloseFacts DEF PortInv, Disconnect
<1>3. valid' \in [Sessions -> BOOLEAN] /\ connected' \in [Sessions -> BOOLEAN]
  BY DEF PortInv, HandlerTypes, Disconnect, Invalidate
<1>4. TableTypes'
  BY DEF PortInv, TableTypes, Disconnect, Without, Restrict
<1>5. QED
  BY <1>1, <1>2, <1>3, <1>4 DEF Disconnect

-----------------------------------------------------------------------------
(* Every action keeps the port *)

\* No port is open, and every lock is free.
LEMMA PortInit == Init => PortInv
<1> SUFFICES ASSUME Init PROVE PortInv
  OBVIOUS
<1>1. TableTypes /\ HandlerTypes /\ LockTypes /\ ThreadTypes
  <2>1. TableTypes /\ HandlerTypes
    BY DEF Init, TableTypes, HandlerTypes
  <2>2. LockTypes
    BY DEF Init, LockTypes
  <2>3. ThreadTypes
    <3>1. 0 \in 0..MaxFd
      OBVIOUS
    <3>2. {} \in SUBSET (Fds \X {"read", "hangup"})
      OBVIOUS
    <3>3. batch = [r \in ReaderThreads |-> {}]
      BY DEF Init
    <3>4. batch \in [ReaderThreads -> SUBSET (Fds \X {"read", "hangup"})]
      BY <3>2, <3>3
    <3>5. at \in [Threads -> Pcs] /\ fd \in [Threads -> 0..MaxFd]
      <4>1. at = [t \in Threads |-> "idle"] /\ fd = [t \in Threads |-> 0]
        BY DEF Init
      <4>2. at \in [Threads -> Pcs]
        BY <4>1 DEF Pcs
      <4>3. fd \in [Threads -> 0..MaxFd]
        BY <3>1, <4>1
      <4>4. QED
        BY <4>2, <4>3
    <3>6. who \in [Threads -> Sessions \cup {"none"}]
      BY DEF Init
    <3>7. QED
      BY <3>4, <3>5, <3>6 DEF ThreadTypes
  <2>4. QED
    BY <2>1, <2>2, <2>3
<1>2. SocketTypes /\ Port
  BY DEF Init, SocketTypes, Port
<1>3. PeerTypes /\ OnePlace
  BY DEF Init, PeerTypes, OnePlace
<1>4. Locked /\ Placed
  BY ThreadFacts DEF Init, Locked, Placed, Inside
<1>5. QED
  BY <1>1, <1>2, <1>3, <1>4 DEF PortInv

\* A step that changes only what clients do or what is read of it.
LEMMA PortOfPeers ==
    ASSUME PortInv, UNCHANGED <<tables, handlers, sessions, locks, threads, batch, listening>>
    PROVE  TableTypes' /\ HandlerTypes' /\ LockTypes' /\ ThreadTypes' /\ Locked' /\ Placed' /\ Port'
<1>1. TableTypes' /\ HandlerTypes' /\ LockTypes' /\ ThreadTypes'
  BY DEF PortInv, TableTypes, HandlerTypes, LockTypes, ThreadTypes
<1>2. Locked' /\ Placed' /\ Port'
  BY DEF PortInv, Locked, Placed, Port
<1>3. QED
  BY <1>1, <1>2

\* A connection waits in the backlog, and its client has no other.
LEMMA DialPort == ASSUME PortInv, Dial PROVE PortInv'
<1>1. TableTypes' /\ HandlerTypes' /\ LockTypes' /\ ThreadTypes' /\ Locked' /\ Placed' /\ Port'
  BY PortOfPeers DEF Dial
<1>2. SocketTypes'
  BY DEF Dial, PortInv, SocketTypes
<1> DEFINE n == Len(names)
<1>3. /\ n \in Nat /\ n < MaxPeers /\ n + 1 \in Peers
      /\ names' \in Seq(Sessions) /\ Len(names') = n + 1
  BY DEF Dial, PortInv, PeerTypes, Peers
<1>4. /\ backlog' \in Seq(Peers) /\ Len(backlog') = Len(backlog) + 1
      /\ backlog'[Len(backlog) + 1] = n + 1
      /\ \A i \in 1..Len(backlog) : backlog'[i] = backlog[i]
  BY <1>3 DEF Dial, PortInv, PeerTypes
<1>5. \A i \in 1..Len(backlog') : i = Len(backlog) + 1 \/ i \in 1..Len(backlog)
  BY <1>4 DEF PortInv, PeerTypes
<1>6. \A f \in DOMAIN open : open[f] \in 1..n
  BY DEF PortInv, PeerTypes
<1>7. \A i \in 1..Len(backlog) : backlog[i] \in 1..n
  BY DEF PortInv, PeerTypes
<1>8. open' = open
  BY DEF Dial
<1>9. PeerTypes'
  <2> HIDE DEF n
  <2>1. \A p \in 1..n : p \in 1..n + 1 /\ p # n + 1
    BY <1>3
  <2>2. n + 1 \in 1..n + 1
    BY <1>3
  <2>3. QED
    BY <1>3, <1>4, <1>5, <1>6, <1>7, <1>8, <2>1, <2>2 DEF PeerTypes
<1>10. OnePlace'
  <2> HIDE DEF n
  <2>1. \A p \in 1..n : p # n + 1
    BY <1>3
  <2>2. \A i \in 1..Len(backlog) : \A f \in DOMAIN open : open[f] # backlog[i]
    BY DEF PortInv, OnePlace
  <2>3. \A i, j \in 1..Len(backlog) : backlog[i] = backlog[j] => i = j
    BY DEF PortInv, OnePlace
  <2>4. \A i, j \in 1..Len(backlog') : backlog'[i] = backlog'[j] => i = j
    BY <1>4, <1>5, <1>7, <2>1, <2>3
  <2>5. \A i \in 1..Len(backlog') : \A f \in DOMAIN open : open[f] # backlog'[i]
    BY <1>4, <1>5, <1>6, <2>1, <2>2
  <2>6. QED
    BY <1>8, <2>4, <2>5 DEF PortInv, OnePlace
<1>11. QED
  BY <1>1, <1>2, <1>9, <1>10 DEF PortInv

\* What clients send or close changes no table.
LEMMA ClientPort ==
    ASSUME PortInv, NEW p \in Peers, Speak(p) \/ Leave(p) PROVE PortInv'
<1>1. TableTypes' /\ HandlerTypes' /\ LockTypes' /\ ThreadTypes' /\ Locked' /\ Placed' /\ Port'
  BY PortOfPeers DEF Speak, Leave
<1>2. SocketTypes'
  BY DEF Speak, Leave, Signals, PortInv, SocketTypes
<1>3. PeerTypes' /\ OnePlace'
  BY DEF Speak, Leave, PortInv, PeerTypes, OnePlace
<1>4. QED
  BY <1>1, <1>2, <1>3 DEF PortInv

\* epoll_wait reports to the reader thread that owns a descriptor.
LEMMA EpollWaitPort ==
    ASSUME PortInv, NEW r \in ReaderThreads, EpollWait(r) PROVE PortInv'
<1>1. TableTypes' /\ HandlerTypes' /\ LockTypes' /\ Locked' /\ Port'
  BY DEF EpollWait, PortInv, TableTypes, HandlerTypes, LockTypes, Locked, Port
<1>2. PeerTypes' /\ OnePlace' /\ SocketTypes'
  BY DEF EpollWait, PortInv, PeerTypes, OnePlace, SocketTypes
<1> DEFINE mine == {f \in edges : Owner(f) = r}  new == {<<f, Kind(f)>> : f \in mine}
<1>3. batch' = [batch EXCEPT ![r] = new]
  BY DEF EpollWait
<1>4. \A f \in mine : f \in Fds /\ Kind(f) \in {"read", "hangup"}
  BY DEF Kind, PortInv, SocketTypes
<1>5. new \in SUBSET (Fds \X {"read", "hangup"})
  BY <1>4
<1>6. \A f, k : <<f, k>> \in new => Owner(f) = r /\ (k = "hangup" => f # 1)
  <2>1. \A f \in mine : Kind(f) = "hangup" => f \in DOMAIN open
    BY DEF Kind
  <2>2. 1 \notin DOMAIN open
    BY ThreadFacts DEF PortInv, SocketTypes
  <2>3. QED
    BY <2>1, <2>2
<1> HIDE DEF new
<1>7. ThreadTypes'
  BY <1>3, <1>5 DEF EpollWait, PortInv, ThreadTypes
<1>8. Placed'
  <2>1. \A q \in ReaderThreads : batch'[q] = IF q = r THEN new ELSE batch[q]
    BY <1>3 DEF PortInv, ThreadTypes
  <2>2. \A q \in ReaderThreads : \A f \in Fds :
          <<f, "read">> \in batch'[q] \/ <<f, "hangup">> \in batch'[q] => Owner(f) = q
    BY <1>6, <2>1 DEF PortInv, Placed
  <2>3. \A q \in ReaderThreads : <<1, "hangup">> \notin batch'[q]
    BY <1>6, <2>1 DEF PortInv, Placed
  <2>4. UNCHANGED <<threads, acceptor, listeners>>
    BY DEF EpollWait
  <2>5. QED
    BY <2>2, <2>3, <2>4 DEF PortInv, Placed
<1>9. QED
  BY <1>1, <1>2, <1>7, <1>8 DEF PortInv


\* A hang-up closes a connection, never the port.
LEMMA HangUpPort ==
    ASSUME PortInv, NEW r \in ReaderThreads, NEW f \in Fds, HangUp(r, f) PROVE PortInv'
<1>1. /\ f \in PeerFds /\ batch' \in [ReaderThreads -> SUBSET (Fds \X {"read", "hangup"})]
      /\ \A q \in ReaderThreads : batch'[q] \subseteq batch[q]
  BY TakesFacts DEF HangUp, PortInv
<1>2. /\ TableTypes' /\ SocketTypes' /\ PeerTypes' /\ OnePlace'
      /\ valid' \in [Sessions -> BOOLEAN] /\ connected' \in [Sessions -> BOOLEAN]
      /\ acceptor' = acceptor /\ listeners' = listeners /\ listening' = listening
  BY <1>1, DisconnectKeeps DEF HangUp
<1>3. HandlerTypes' /\ LockTypes' /\ ThreadTypes'
  BY <1>1, <1>2 DEF HangUp, PortInv, HandlerTypes, LockTypes, ThreadTypes
<1>4. Locked' /\ Port'
  <2>1. \A g \in DOMAIN unknown' : g \in DOMAIN unknown /\ unknown'[g] = unknown[g]
    BY DEF HangUp, Disconnect, Without, Restrict
  <2>2. QED
    BY <1>2, <2>1 DEF HangUp, PortInv, Locked, Port
<1>5. Placed'
  BY <1>1, <1>2 DEF HangUp, PortInv, Placed
<1>6. QED
  BY <1>2, <1>3, <1>4, <1>5 DEF PortInv

\* A reader thread without a lock may let a session disconnect, or not.
LEMMA IdlePort ==
    ASSUME PortInv, NEW r \in ReaderThreads, at[r] = "idle", readerMutex[r] = Nobody,
           \/ Goes(r, "idle", 0, "none")
           \/ \E f \in DOMAIN known : Goes(r, "end", 0, known[f]),
           UNCHANGED <<tables, listening, locks>>
    PROVE  /\ at' \in [Threads -> Pcs] /\ fd' \in [Threads -> 0..MaxFd]
           /\ who' \in [Threads -> Sessions \cup {"none"}]
           /\ Locked' /\ Port' /\ (batch' = batch => Placed')
           /\ (\A q \in ReaderThreads : batch'[q] \subseteq batch[q]) => Placed'
<1>1. PICK pc \in {"idle", "end"}, s \in Sessions \cup {"none"} :
        Goes(r, pc, 0, s) /\ (pc = "end" => s \in Sessions)
  BY DEF PortInv, TableTypes
<1>2. pc \in Pcs /\ 0 \in 0..MaxFd /\ r \in Threads /\ r # Update
  BY ThreadFacts DEF Pcs
<1>3. /\ at' \in [Threads -> Pcs] /\ fd' \in [Threads -> 0..MaxFd]
      /\ who' \in [Threads -> Sessions \cup {"none"}]
      /\ at'[r] = pc /\ fd'[r] = 0 /\ who'[r] = s
      /\ \A u \in Threads : u # r => at'[u] = at[u] /\ fd'[u] = fd[u] /\ who'[u] = who[u]
  BY <1>1, <1>2, GoesFacts DEF PortInv
<1>4. r # Nobody /\ Update \in Threads
  BY ThreadFacts
<1>5. Locked'
  BY <1>1, <1>2, <1>3, <1>4, ThreadFacts DEF PortInv, Locked, Inside
<1>6. Port'
  BY <1>2, <1>3, <1>4 DEF PortInv, Port
<1>7. ASSUME \A q \in ReaderThreads : batch'[q] \subseteq batch[q] PROVE Placed'
  BY <1>1, <1>2, <1>3, <1>4, <1>7, ThreadFacts DEF PortInv, Placed
<1>8. QED
  BY <1>3, <1>5, <1>6, <1>7

\* What a session reads may make it disconnect ...
LEMMA ReadKnownPort ==
    ASSUME PortInv, NEW r \in ReaderThreads, NEW f \in Fds, ReadKnown(r, f) PROVE PortInv'
<1>1. /\ at[r] = "idle" /\ batch' \in [ReaderThreads -> SUBSET (Fds \X {"read", "hangup"})]
      /\ \A q \in ReaderThreads : batch'[q] \subseteq batch[q]
  BY TakesFacts DEF ReadKnown, PortInv
<1>2. /\ at' \in [Threads -> Pcs] /\ fd' \in [Threads -> 0..MaxFd]
      /\ who' \in [Threads -> Sessions \cup {"none"}]
      /\ Locked' /\ Port' /\ Placed'
  BY <1>1, IdlePort DEF ReadKnown
<1>3. TableTypes' /\ HandlerTypes' /\ LockTypes' /\ ThreadTypes'
  BY <1>1, <1>2 DEF ReadKnown, PortInv, TableTypes, HandlerTypes, LockTypes, ThreadTypes
<1>4. SocketTypes' /\ PeerTypes' /\ OnePlace'
  BY DEF ReadKnown, PortInv, SocketTypes, PeerTypes, OnePlace
<1>5. QED
  BY <1>2, <1>3, <1>4 DEF PortInv

\* ... and so may its update.
LEMMA TickPort ==
    ASSUME PortInv, NEW r \in ReaderThreads, Tick(r) PROVE PortInv'
<1>1. /\ at' \in [Threads -> Pcs] /\ fd' \in [Threads -> 0..MaxFd]
      /\ who' \in [Threads -> Sessions \cup {"none"}]
      /\ Locked' /\ Port' /\ Placed'
  BY IdlePort DEF Tick
<1>2. TableTypes' /\ HandlerTypes' /\ LockTypes' /\ ThreadTypes'
  BY <1>1 DEF Tick, PortInv, TableTypes, HandlerTypes, LockTypes, ThreadTypes
<1>3. SocketTypes' /\ PeerTypes' /\ OnePlace'
  BY DEF Tick, PortInv, SocketTypes, PeerTypes, OnePlace
<1>4. QED
  BY <1>1, <1>2, <1>3 DEF PortInv

\* An event of a descriptor that is in no table is dropped.
LEMMA ReadStrayPort ==
    ASSUME PortInv, NEW r \in ReaderThreads, NEW f \in Fds, ReadStray(r, f) PROVE PortInv'
<1>1. /\ batch' \in [ReaderThreads -> SUBSET (Fds \X {"read", "hangup"})]
      /\ \A q \in ReaderThreads : batch'[q] \subseteq batch[q]
  BY TakesFacts DEF ReadStray, PortInv
<1>2. TableTypes' /\ HandlerTypes' /\ LockTypes' /\ ThreadTypes'
  BY <1>1 DEF ReadStray, PortInv, TableTypes, HandlerTypes, LockTypes, ThreadTypes
<1>3. Locked' /\ Port'
  BY DEF ReadStray, PortInv, Locked, Port
<1>4. Placed'
  BY <1>1 DEF ReadStray, PortInv, Placed
<1>5. SocketTypes' /\ PeerTypes' /\ OnePlace'
  BY DEF ReadStray, PortInv, SocketTypes, PeerTypes, OnePlace
<1>6. QED
  BY <1>2, <1>3, <1>4, <1>5 DEF PortInv

\* The thread that accepts holds its own lock, and the port is open.
LEMMA ReadListenerPort ==
    ASSUME PortInv, NEW r \in ReaderThreads, NEW f \in Fds, ReadListener(r, f) PROVE PortInv'
<1>1. /\ at[r] = "idle" /\ Owner(f) = r
      /\ batch' \in [ReaderThreads -> SUBSET (Fds \X {"read", "hangup"})]
      /\ \A q \in ReaderThreads : batch'[q] \subseteq batch[q]
  BY TakesFacts DEF ReadListener, PortInv
<1>2. f = 1 /\ acceptor = 1
  BY DEF ReadListener, PortInv, TableTypes, Port, Placed
<1>3. "accept" \in Pcs /\ f \in 0..MaxFd /\ r \in Threads /\ r # Update /\ r # Nobody /\ Update \in Threads
  BY ThreadFacts DEF Pcs, Inside, Fds
<1>4. /\ at' \in [Threads -> Pcs] /\ fd' \in [Threads -> 0..MaxFd]
      /\ who' \in [Threads -> Sessions \cup {"none"}]
      /\ at'[r] = "accept" /\ fd'[r] = f /\ who'[r] = "none"
      /\ \A u \in Threads : u # r => at'[u] = at[u] /\ fd'[u] = fd[u] /\ who'[u] = who[u]
  BY <1>3, GoesFacts DEF ReadListener, PortInv
<1>5. /\ readerMutex' \in [ReaderThreads -> ReaderThreads \cup {Nobody}]
      /\ \A q \in ReaderThreads : readerMutex'[q] = IF q = r THEN r ELSE readerMutex[q]
  BY DEF ReadListener, PortInv, LockTypes
<1>6. TableTypes' /\ HandlerTypes' /\ ThreadTypes'
  BY <1>1, <1>4 DEF ReadListener, PortInv, TableTypes, HandlerTypes, ThreadTypes
<1>7. LockTypes'
  BY <1>5 DEF ReadListener, PortInv, LockTypes
<1>8. Locked'
  BY <1>1, <1>3, <1>4, <1>5, ThreadFacts DEF ReadListener, PortInv, Locked, Inside
<1>9. Port'
  BY <1>3, <1>4 DEF ReadListener, PortInv, Port
<1>10. Placed'
  BY <1>1, <1>2, <1>3, <1>4, ThreadFacts DEF ReadListener, PortInv, Placed
<1>11. SocketTypes' /\ PeerTypes' /\ OnePlace'
  BY DEF ReadListener, PortInv, SocketTypes, PeerTypes, OnePlace
<1>12. QED
  BY <1>6, <1>7, <1>8, <1>9, <1>10, <1>11 DEF PortInv

\* The descriptor of a new connection is free and not the port's.
LEMMA AcceptPort ==
    ASSUME PortInv, NEW r \in ReaderThreads, Accept(r) PROVE PortInv'
<1> DEFINE new == Min(FreeFds)
<1>1. r = Owner(1) /\ acceptor = 1 /\ readerMutex[r] = r /\ listening = {1}
  BY DEF Accept, PortInv, Placed, Locked, Inside, Port
<1>2. backlog \in Seq(Peers) /\ Len(backlog) > 0
  BY DEF Accept, PortInv, PeerTypes
<1>3. new \in PeerFds /\ new \notin DOMAIN open
  BY <1>1, <1>2, AcceptedFd DEF PortInv
<1>4. Goes(r, "hand", new, "none") /\ open' = With(open, new, backlog[1]) /\ backlog' = Tail(backlog)
  BY <1>2 DEF Accept
<1> HIDE DEF new
<1>5. "hand" \in Pcs /\ new \in 0..MaxFd /\ r \in Threads /\ r # Update /\ Update \in Threads
  BY <1>3, ThreadFacts DEF Pcs, Inside, PeerFds
<1>6. /\ at' \in [Threads -> Pcs] /\ fd' \in [Threads -> 0..MaxFd]
      /\ who' \in [Threads -> Sessions \cup {"none"}]
      /\ at'[r] = "hand" /\ fd'[r] = new /\ who'[r] = "none"
      /\ \A u \in Threads : u # r => at'[u] = at[u] /\ fd'[u] = fd[u] /\ who'[u] = who[u]
  BY <1>4, <1>5, GoesFacts DEF PortInv
<1>7. /\ DOMAIN open' = DOMAIN open \cup {new} /\ open'[new] = backlog[1]
      /\ \A g \in DOMAIN open : open'[g] = open[g]
  BY <1>3, <1>4 DEF With
<1>8. /\ backlog' \in Seq(Peers) /\ Len(backlog') = Len(backlog) - 1
      /\ \A i \in 1..Len(backlog') : i + 1 \in 1..Len(backlog) /\ backlog'[i] = backlog[i + 1]
  BY <1>2, <1>4
<1>9. 1 \in 1..Len(backlog) /\ \A i \in 1..Len(backlog') : i + 1 # 1
  BY <1>2, <1>8
<1>10. TableTypes' /\ HandlerTypes' /\ LockTypes' /\ ThreadTypes'
  BY <1>6 DEF Accept, PortInv, TableTypes, HandlerTypes, LockTypes, ThreadTypes
<1>11. SocketTypes'
  BY <1>3, <1>7 DEF Accept, PortInv, SocketTypes
<1>12. PeerTypes'
  BY <1>7, <1>8, <1>9 DEF Accept, PortInv, PeerTypes
<1>13. OnePlace'
  <2>1. /\ \A f, g \in DOMAIN open : open[f] = open[g] => f = g
        /\ \A i, j \in 1..Len(backlog) : backlog[i] = backlog[j] => i = j
        /\ \A i \in 1..Len(backlog) : \A f \in DOMAIN open : open[f] # backlog[i]
    BY DEF PortInv, OnePlace
  <2>2. \A f, g \in DOMAIN open' : open'[f] = open'[g] => f = g
    BY <1>7, <1>9, <2>1
  <2>3. \A i, j \in 1..Len(backlog') : backlog'[i] = backlog'[j] => i = j
    <3>1. ASSUME NEW i \in 1..Len(backlog'), NEW j \in 1..Len(backlog'), backlog'[i] = backlog'[j]
          PROVE  i = j
      <4>1. i + 1 = j + 1
        BY <1>8, <2>1, <3>1
      <4>2. QED
        BY <4>1
    <3>2. QED
      BY <3>1
  <2>4. \A i \in 1..Len(backlog') : \A f \in DOMAIN open' : open'[f] # backlog'[i]
    BY <1>7, <1>8, <1>9, <2>1
  <2>5. QED
    BY <2>2, <2>3, <2>4 DEF OnePlace
<1>14. Locked'
  <2>1. at[r] = "accept" /\ UNCHANGED <<networkMutex, readerMutex, handlerMutex>>
    BY DEF Accept
  <2>2. networkMutex' = Update <=> at'[Update] = "register"
    BY <1>5, <1>6, <2>1 DEF PortInv, Locked
  <2>3. \A q \in ReaderThreads :
          /\ at'[q] \in Inside => readerMutex'[q] = q
          /\ readerMutex'[q] = q => at'[q] # "idle"
    BY <1>1, <1>6, <2>1, ThreadFacts DEF PortInv, Locked
  <2>4. \A s \in Sessions, t \in Threads : handlerMutex'[s] = t <=> at'[t] = "close" /\ who'[t] = s
    BY <1>6, <2>1 DEF PortInv, Locked
  <2>5. QED
    BY <2>2, <2>3, <2>4 DEF Locked
<1>15. Port'
  BY <1>5, <1>6 DEF Accept, PortInv, Port
<1>16. Placed'
  BY <1>1, <1>3, <1>5, <1>6, ThreadFacts DEF Accept, PortInv, Placed
<1>17. QED
  BY <1>10, <1>11, <1>12, <1>13, <1>14, <1>15, <1>16 DEF PortInv


\* A step of a reader thread leaves the port as it is, if its own lock and what it has
\* in hand fit where it is.
LEMMA ReaderMoves ==
    ASSUME PortInv, NEW r \in ReaderThreads, at[r] # "close",
           NEW pc \in Inside \cup {"idle", "end"}, NEW f \in 0..MaxFd, NEW s \in Sessions \cup {"none"},
           Goes(r, pc, f, s),
           UNCHANGED <<acceptor, listeners, listening, networkMutex, handlerMutex>>,
           readerMutex' \in [ReaderThreads -> ReaderThreads \cup {Nobody}],
           \A q \in ReaderThreads : q # r => readerMutex'[q] = readerMutex[q],
           readerMutex'[r] \in {r, Nobody},
           pc \in Inside => readerMutex'[r] = r,
           readerMutex'[r] = r => pc # "idle",
           \A q \in ReaderThreads : batch'[q] \subseteq batch[q],
           batch' \in [ReaderThreads -> SUBSET (Fds \X {"read", "hangup"})],
           pc \in {"accept", "hand"} => r = Owner(1) /\ acceptor = 1 /\ 1 \in DOMAIN listeners,
           \A g \in DOMAIN unknown' : unknown'[g] # 0 => unknown'[g] \in DOMAIN listeners,
           pc \in {"hand", "assign", "first", "reply"} => f \in PeerFds,
           pc \in {"assign", "first", "reply", "end"} => s \in Sessions
    PROVE  LockTypes' /\ ThreadTypes' /\ Locked' /\ Placed' /\ Port'
<1>1. pc \in Pcs /\ r \in Threads /\ r # Update /\ r # Nobody /\ Update \in Threads /\ pc # "close"
  BY ThreadFacts DEF Pcs, Inside
<1>2. /\ at' \in [Threads -> Pcs] /\ fd' \in [Threads -> 0..MaxFd]
      /\ who' \in [Threads -> Sessions \cup {"none"}]
      /\ at'[r] = pc /\ fd'[r] = f /\ who'[r] = s
      /\ \A u \in Threads : u # r => at'[u] = at[u] /\ fd'[u] = fd[u] /\ who'[u] = who[u]
  BY <1>1, GoesFacts DEF PortInv
<1>3. LockTypes' /\ ThreadTypes'
  BY <1>2 DEF PortInv, LockTypes, ThreadTypes
<1>4. Locked'
  <2>1. networkMutex' = Update <=> at'[Update] = "register"
    BY <1>1, <1>2 DEF PortInv, Locked
  <2>2. \A q \in ReaderThreads :
          /\ at'[q] \in Inside => readerMutex'[q] = q
          /\ readerMutex'[q] = q => at'[q] # "idle"
    BY <1>1, <1>2, ThreadFacts DEF PortInv, Locked
  <2>3. \A z \in Sessions, t \in Threads : handlerMutex'[z] = t <=> at'[t] = "close" /\ who'[t] = z
    BY <1>1, <1>2 DEF PortInv, Locked
  <2>4. QED
    BY <2>1, <2>2, <2>3 DEF Locked
<1>5. Placed'
  <2>1. ASSUME NEW q \in ReaderThreads
        PROVE  /\ at'[q] \in {"accept", "hand"} => q = Owner(1) /\ acceptor' = 1 /\ 1 \in DOMAIN listeners'
               /\ at'[q] \in {"hand", "assign", "first", "reply"} => fd'[q] \in PeerFds
               /\ at'[q] \in {"assign", "first", "reply"} => who'[q] \in Sessions
    BY <1>2, ThreadFacts DEF PortInv, Placed
  <2>2. \A q \in ReaderThreads :
          /\ \A g \in Fds : <<g, "read">> \in batch'[q] \/ <<g, "hangup">> \in batch'[q] => Owner(g) = q
          /\ <<1, "hangup">> \notin batch'[q]
    BY DEF PortInv, Placed
  <2>3. \A t \in Threads : at'[t] \in {"end", "close", "remove", "look", "add", "register"} => who'[t] \in Sessions
    BY <1>1, <1>2 DEF PortInv, Placed, Inside
  <2>4. \A t \in Threads : at'[t] = "close" => fd'[t] \in PeerFds
    BY <1>1, <1>2 DEF PortInv, Placed
  <2>5. at'[Update] = "register" => acceptor' = 1 /\ fd'[Update] = 1
    BY <1>1, <1>2 DEF PortInv, Placed
  <2>6. QED
    BY <2>1, <2>2, <2>3, <2>4, <2>5 DEF Placed
<1>6. Port'
  BY <1>1, <1>2 DEF PortInv, Port
<1>7. QED
  BY <1>3, <1>4, <1>5, <1>6

\* The reader thread that owns the new descriptor gets it.
LEMMA HandOverPort ==
    ASSUME PortInv, NEW r \in ReaderThreads, HandOver(r) PROVE PortInv'
<1>1. fd[r] \in PeerFds /\ acceptor = 1 /\ at[r] = "hand"
  BY DEF HandOver, PortInv, Placed
<1>2. /\ readerMutex' \in [ReaderThreads -> ReaderThreads \cup {Nobody}]
      /\ \A q \in ReaderThreads : readerMutex'[q] = IF q = r THEN Nobody ELSE readerMutex[q]
  BY ReleasedFacts, ThreadFacts DEF HandOver, PortInv
<1>3. "idle" \in Inside \cup {"idle", "end"} /\ "idle" \notin Inside /\ 0 \in 0..MaxFd /\ r # Nobody
  BY ThreadFacts DEF Inside
<1>4. LockTypes' /\ ThreadTypes' /\ Locked' /\ Placed' /\ Port'
  <2>1. UNCHANGED <<acceptor, listeners, listening, networkMutex, handlerMutex, batch>> /\ Goes(r, "idle", 0, "none")
    BY DEF HandOver
  <2>2. batch' \in [ReaderThreads -> SUBSET (Fds \X {"read", "hangup"})]
    BY <2>1 DEF PortInv, ThreadTypes
  <2>3. \A g \in DOMAIN unknown' : unknown'[g] # 0 => unknown'[g] \in DOMAIN listeners
    BY <1>1 DEF HandOver, AddUnknown, With, PortInv, Port, Placed
  <2>4. QED
    BY <1>1, <1>2, <1>3, <2>1, <2>2, <2>3, ReaderMoves
<1>5. TableTypes'
  BY <1>1 DEF HandOver, AddUnknown, With, PortInv, TableTypes
<1>6. HandlerTypes' /\ PeerTypes' /\ OnePlace'
  BY DEF HandOver, PortInv, HandlerTypes, PeerTypes, OnePlace
<1>7. SocketTypes'
  BY <1>1, ThreadFacts DEF HandOver, Watch, PortInv, SocketTypes
<1>8. QED
  BY <1>4, <1>5, <1>6, <1>7 DEF PortInv

\* Whatever the first message says, the connection is no longer one without a session.
LEMMA ReadUnknownPort ==
    ASSUME PortInv, NEW r \in ReaderThreads, NEW f \in Fds, ReadUnknown(r, f) PROVE PortInv'
<1> DEFINE s == names[open[f]]
<1>1. /\ at[r] = "idle" /\ f \in PeerFds
      /\ batch' \in [ReaderThreads -> SUBSET (Fds \X {"read", "hangup"})]
      /\ \A q \in ReaderThreads : batch'[q] \subseteq batch[q]
  BY TakesFacts DEF ReadUnknown, PortInv, TableTypes
<1>2. /\ readerMutex[r] = Nobody /\ unread' \subseteq unread
      /\ UNCHANGED <<acceptor, listeners, known, handlers, sessions, networkMutex, handlerMutex, backlog, names, gone>>
  BY DEF ReadUnknown
<1>3. TableTypes'
  <2>1. unknown' = unknown \/ unknown' = Without(unknown, f)
    BY DEF ReadUnknown
  <2>2. QED
    BY <1>2, <2>1 DEF Without, Restrict, PortInv, TableTypes
<1>4. HandlerTypes'
  BY <1>2 DEF PortInv, HandlerTypes
<1>5. CASE UNCHANGED <<readerMutex, threads>>
  <2>1. SocketTypes' /\ PeerTypes' /\ OnePlace' /\ listening' = listening
    <3>1. CASE UNCHANGED sockets
      BY <1>2, <3>1 DEF PortInv, SocketTypes, PeerTypes, OnePlace
    <3>2. CASE CloseFd(f)
      BY <1>1, <1>2, <3>2, CloseKeeps, CloseFacts DEF PortInv
    <3>3. QED
      BY <3>1, <3>2 DEF ReadUnknown, Refuse
  <2>2. LockTypes' /\ ThreadTypes' /\ Locked' /\ Port'
    <3>1. unknown' = unknown \/ unknown' = Without(unknown, f)
      BY DEF ReadUnknown
    <3>2. \A g \in DOMAIN unknown' : g \in DOMAIN unknown /\ unknown'[g] = unknown[g]
      BY <3>1 DEF Without, Restrict
    <3>3. LockTypes' /\ ThreadTypes' /\ Locked'
      BY <1>1, <1>2, <1>5 DEF PortInv, LockTypes, ThreadTypes, Locked
    <3>4. QED
      BY <1>2, <1>5, <2>1, <3>2, <3>3 DEF PortInv, Port
  <2>3. Placed'
    BY <1>1, <1>2, <1>5 DEF PortInv, Placed
  <2>4. QED
    BY <1>3, <1>4, <2>1, <2>2, <2>3 DEF PortInv
<1>6. CASE ~UNCHANGED <<readerMutex, threads>>
  <2>1. /\ readerMutex' = [readerMutex EXCEPT ![r] = r] /\ Goes(r, "assign", f, s) /\ UNCHANGED sockets
        /\ unknown[f] # 0 /\ s \in listeners[unknown[f]] /\ f \in DOMAIN unknown
    BY <1>6 DEF ReadUnknown
  <2>2. s \in Sessions
    <3>1. unknown[f] \in DOMAIN listeners
      BY <2>1 DEF PortInv, Port
    <3>2. QED
      BY <2>1, <3>1 DEF PortInv, TableTypes
  <2> HIDE DEF s
  <2>3. /\ "assign" \in Inside \cup {"idle", "end"} /\ f \in 0..MaxFd /\ s \in Sessions \cup {"none"}
        /\ readerMutex' \in [ReaderThreads -> ReaderThreads \cup {Nobody}]
        /\ \A q \in ReaderThreads : readerMutex'[q] = IF q = r THEN r ELSE readerMutex[q]
    BY <2>1, <2>2 DEF PortInv, LockTypes, Inside, Fds
  <2>4. \A g \in DOMAIN unknown' : unknown'[g] # 0 => unknown'[g] \in DOMAIN listeners
    <3>1. unknown' = unknown \/ unknown' = Without(unknown, f)
      BY DEF ReadUnknown
    <3>2. QED
      BY <3>1 DEF Without, Restrict, PortInv, Port
  <2>5. LockTypes' /\ ThreadTypes' /\ Locked' /\ Placed' /\ Port'
    BY <1>1, <1>2, <2>1, <2>2, <2>3, <2>4, ReaderMoves
  <2>6. SocketTypes' /\ PeerTypes' /\ OnePlace'
    BY <1>2, <2>1 DEF PortInv, SocketTypes, PeerTypes, OnePlace
  <2>7. QED
    BY <1>3, <1>4, <2>5, <2>6 DEF PortInv
<1>7. QED
  BY <1>5, <1>6


\* AddConnection gives the session the descriptor of a connection.
LEMMA AssignPort ==
    ASSUME PortInv, NEW r \in ReaderThreads, Assign(r) PROVE PortInv'
<1>1. /\ at[r] = "assign" /\ fd[r] \in PeerFds /\ who[r] \in Sessions /\ readerMutex[r] = r
      /\ Goes(r, "first", fd[r], who[r])
      /\ UNCHANGED <<acceptor, listeners, unknown, sessions, locks, batch, sockets, peers>>
  BY DEF Assign, PortInv, Placed, Locked, Inside
<1>2. /\ "first" \in Inside \cup {"idle", "end"} /\ fd[r] \in 0..MaxFd
      /\ readerMutex' \in [ReaderThreads -> ReaderThreads \cup {Nobody}]
      /\ batch' \in [ReaderThreads -> SUBSET (Fds \X {"read", "hangup"})]
  BY <1>1, ThreadFacts DEF PortInv, LockTypes, ThreadTypes, Inside, PeerFds
<1>3. LockTypes' /\ ThreadTypes' /\ Locked' /\ Placed' /\ Port'
  <2>1. \A g \in DOMAIN unknown' : unknown'[g] # 0 => unknown'[g] \in DOMAIN listeners
    BY <1>1 DEF PortInv, Port
  <2>2. QED
    BY <1>1, <1>2, <2>1, ReaderMoves
<1>4. HandlerTypes'
  BY <1>1 DEF Assign, AddConnection, SetConnection, PortInv, HandlerTypes
<1>5. TableTypes'
  <2>1. known' = With(known, fd[r], who[r])
    BY DEF Assign, AddConnection
  <2>2. QED
    BY <1>1, <2>1 DEF With, PortInv, TableTypes
<1>6. SocketTypes' /\ PeerTypes' /\ OnePlace'
  BY <1>1 DEF PortInv, SocketTypes, PeerTypes, OnePlace
<1>7. QED
  BY <1>3, <1>4, <1>5, <1>6 DEF PortInv

\* Handling the first messages ends with the lock released, or in a disconnect.
LEMMA FirstPort ==
    ASSUME PortInv, NEW r \in ReaderThreads, First(r) \/ Reply(r) PROVE PortInv'
<1>1. /\ at[r] \in {"first", "reply"} /\ fd[r] \in PeerFds /\ who[r] \in Sessions /\ readerMutex[r] = r
      /\ UNCHANGED <<tables, handlers, sessions, networkMutex, handlerMutex, batch, sockets, peers>>
  BY DEF First, Reply, PortInv, Placed, Locked, Inside
<1>2. /\ {"idle", "end", "reply"} \subseteq Inside \cup {"idle", "end"}
      /\ "idle" \notin Inside /\ "end" \notin Inside /\ r # Nobody
      /\ fd[r] \in 0..MaxFd /\ 0 \in 0..MaxFd /\ r \in Threads
      /\ readerMutex \in [ReaderThreads -> ReaderThreads \cup {Nobody}]
      /\ batch' \in [ReaderThreads -> SUBSET (Fds \X {"read", "hangup"})]
  BY <1>1, ThreadFacts DEF PortInv, LockTypes, ThreadTypes, Inside, PeerFds
<1>3. \A g \in DOMAIN unknown' : unknown'[g] # 0 => unknown'[g] \in DOMAIN listeners
  BY <1>1 DEF PortInv, Port
<1>4. LockTypes' /\ ThreadTypes' /\ Locked' /\ Placed' /\ Port'
  <2>1. CASE Leaves(r)
    <3>1. /\ Goes(r, "idle", 0, "none")
          /\ readerMutex' \in [ReaderThreads -> ReaderThreads \cup {Nobody}]
          /\ \A q \in ReaderThreads : readerMutex'[q] = IF q = r THEN Nobody ELSE readerMutex[q]
      BY <1>2, <2>1, ReleasedFacts DEF Leaves, PortInv
    <3>2. QED
      BY <1>1, <1>2, <1>3, <3>1, ReaderMoves
  <2>2. CASE Ends(r)
    BY <1>1, <1>2, <1>3, <2>2, ReaderMoves DEF Ends
  <2>3. CASE Goes(r, "reply", fd[r], who[r]) /\ UNCHANGED readerMutex
    BY <1>1, <1>2, <1>3, <2>3, ReaderMoves
  <2>4. QED
    BY <2>1, <2>2, <2>3 DEF First, Reply
<1>5. TableTypes' /\ HandlerTypes'
  BY <1>1 DEF PortInv, TableTypes, HandlerTypes
<1>6. SocketTypes' /\ PeerTypes' /\ OnePlace'
  BY <1>1 DEF PortInv, SocketTypes, PeerTypes, OnePlace
<1>7. QED
  BY <1>4, <1>5, <1>6 DEF PortInv

\* The thread that disconnects a session releases what it held.
LEMMA EndedPort ==
    ASSUME PortInv, NEW t \in ReaderThreads \cup {App}, at[t] \in {"end", "close"}, Ended(t),
           UNCHANGED <<acceptor, listeners, listening, networkMutex, batch>>,
           handlerMutex' \in [Sessions -> Threads \cup {Nobody}],
           \A s \in Sessions : handlerMutex'[s] = IF handlerMutex[s] = t THEN Nobody ELSE handlerMutex[s],
           \A g \in DOMAIN unknown' : unknown'[g] # 0 => unknown'[g] \in DOMAIN listeners
    PROVE  LockTypes' /\ ThreadTypes' /\ Locked' /\ Placed' /\ Port'
<1>1. t \in Threads /\ t # Update /\ t # Nobody /\ Update \in Threads /\ who[t] \in Sessions
  BY ThreadFacts DEF PortInv, Placed
<1>2. PICK pc \in {"remove", "idle"}, s \in Sessions \cup {"none"} :
        Goes(t, pc, 0, s) /\ (pc = "remove" => s \in Sessions) /\ (t # App => pc = "idle")
  BY <1>1 DEF Ended
<1>3. pc \in Pcs /\ pc \notin Inside /\ 0 \in 0..MaxFd
  BY DEF Pcs, Inside
<1>4. /\ at' \in [Threads -> Pcs] /\ fd' \in [Threads -> 0..MaxFd]
      /\ who' \in [Threads -> Sessions \cup {"none"}]
      /\ at'[t] = pc /\ fd'[t] = 0 /\ who'[t] = s
      /\ \A u \in Threads : u # t => at'[u] = at[u] /\ fd'[u] = fd[u] /\ who'[u] = who[u]
  BY <1>1, <1>2, <1>3, GoesFacts DEF PortInv
<1>5. /\ readerMutex' \in [ReaderThreads -> ReaderThreads \cup {Nobody}]
      /\ \A q \in ReaderThreads : readerMutex'[q] = IF q = t THEN Nobody ELSE readerMutex[q]
  BY <1>1, ReleasedFacts DEF Ended, PortInv
<1>6. LockTypes' /\ ThreadTypes'
  BY <1>4, <1>5 DEF PortInv, LockTypes, ThreadTypes
<1>7. Locked'
  <2>1. networkMutex' = Update <=> at'[Update] = "register"
    BY <1>1, <1>4 DEF PortInv, Locked
  <2>2. \A q \in ReaderThreads :
          /\ at'[q] \in Inside => readerMutex'[q] = q
          /\ readerMutex'[q] = q => at'[q] # "idle"
    BY <1>1, <1>3, <1>4, <1>5, ThreadFacts DEF PortInv, Locked
  <2>3. \A z \in Sessions, u \in Threads : handlerMutex'[z] = u <=> at'[u] = "close" /\ who'[u] = z
    BY <1>1, <1>2, <1>4, ThreadFacts DEF PortInv, Locked
  <2>4. QED
    BY <2>1, <2>2, <2>3 DEF Locked
<1>8. Placed'
  BY <1>1, <1>2, <1>4, ThreadFacts DEF PortInv, Placed
<1>9. Port'
  BY <1>1, <1>4 DEF PortInv, Port
<1>10. QED
  BY <1>6, <1>7, <1>8, <1>9

\* disconnect takes the lock of a handler that has a valid connection.
LEMMA BeginEndPort ==
    ASSUME PortInv, NEW t \in ReaderThreads \cup {App}, BeginEnd(t) PROVE PortInv'
<1> DEFINE s == who[t]
<1>1. /\ at[t] = "end" /\ s \in Sessions /\ handlerMutex[s] = Nobody
      /\ UNCHANGED <<tables, valid, sessions, networkMutex, batch, sockets, peers>>
      /\ connected' = [connected EXCEPT ![s] = FALSE]
  BY ThreadFacts DEF BeginEnd, PortInv, Placed
<1>2. t \in Threads /\ t # Update /\ t # Nobody /\ Update \in Threads
  BY ThreadFacts
<1>3. TableTypes' /\ SocketTypes' /\ PeerTypes' /\ OnePlace'
  BY <1>1 DEF PortInv, TableTypes, SocketTypes, PeerTypes, OnePlace
<1>4. CASE handle[s] # 0 /\ valid[s]
  <2>1. /\ handlerMutex' = [handlerMutex EXCEPT ![s] = t] /\ Goes(t, "close", handle[s], s)
        /\ UNCHANGED <<handle, readerMutex>>
    BY <1>4 DEF BeginEnd
  <2>2. handle[s] \in PeerFds /\ handle[s] \in 0..MaxFd /\ "close" \in Pcs /\ "close" \notin Inside
    BY <1>1, <1>4 DEF PortInv, HandlerTypes, PeerFds, Pcs, Inside
  <2>3. /\ at' \in [Threads -> Pcs] /\ fd' \in [Threads -> 0..MaxFd]
        /\ who' \in [Threads -> Sessions \cup {"none"}]
        /\ at'[t] = "close" /\ fd'[t] = handle[s] /\ who'[t] = s
        /\ \A u \in Threads : u # t => at'[u] = at[u] /\ fd'[u] = fd[u] /\ who'[u] = who[u]
    BY <1>1, <1>2, <2>1, <2>2, GoesFacts DEF PortInv
  <2>4. /\ handlerMutex' \in [Sessions -> Threads \cup {Nobody}]
        /\ \A z \in Sessions : handlerMutex'[z] = IF z = s THEN t ELSE handlerMutex[z]
    BY <1>1, <1>2, <2>1 DEF PortInv, LockTypes
  <2> HIDE DEF s
  <2>5. HandlerTypes' /\ LockTypes' /\ ThreadTypes'
    BY <1>1, <2>1, <2>3, <2>4 DEF PortInv, HandlerTypes, LockTypes, ThreadTypes
  <2>6. Locked'
    <3>1. networkMutex' = Update <=> at'[Update] = "register"
      BY <1>1, <1>2, <2>3 DEF PortInv, Locked
    <3>2. \A q \in ReaderThreads :
            /\ at'[q] \in Inside => readerMutex'[q] = q
            /\ readerMutex'[q] = q => at'[q] # "idle"
      BY <1>2, <2>1, <2>2, <2>3, ThreadFacts DEF PortInv, Locked
    <3>3. \A z \in Sessions, u \in Threads : handlerMutex'[z] = u <=> at'[u] = "close" /\ who'[u] = z
      BY <1>1, <1>2, <2>3, <2>4, ThreadFacts DEF PortInv, Locked
    <3>4. QED
      BY <3>1, <3>2, <3>3 DEF Locked
  <2>7. Placed'
    BY <1>1, <1>2, <2>2, <2>3, ThreadFacts DEF PortInv, Placed
  <2>8. Port'
    BY <1>1, <1>2, <2>3 DEF PortInv, Port
  <2>9. QED
    BY <1>3, <2>5, <2>6, <2>7, <2>8 DEF PortInv
<1>5. CASE ~(handle[s] # 0 /\ valid[s])
  <2>1. handle' = [handle EXCEPT ![s] = 0] /\ Ended(t) /\ UNCHANGED handlerMutex
    BY <1>5 DEF BeginEnd
  <2>2. HandlerTypes'
    BY <1>1, <2>1 DEF PortInv, HandlerTypes
  <2>3. /\ handlerMutex' \in [Sessions -> Threads \cup {Nobody}]
        /\ \A z \in Sessions : handlerMutex'[z] = IF handlerMutex[z] = t THEN Nobody ELSE handlerMutex[z]
    BY <1>1, <1>2, <2>1 DEF PortInv, LockTypes, Locked
  <2>4. \A g \in DOMAIN unknown' : unknown'[g] # 0 => unknown'[g] \in DOMAIN listeners
    BY <1>1 DEF PortInv, Port
  <2>5. LockTypes' /\ ThreadTypes' /\ Locked' /\ Placed' /\ Port'
    BY <1>1, <2>1, <2>3, <2>4, EndedPort
  <2>6. QED
    BY <1>3, <2>2, <2>5 DEF PortInv
<1>6. QED
  BY <1>4, <1>5

\* What disconnect closes is the descriptor of a connection, whose it may be by now.
LEMMA EndClosePort ==
    ASSUME PortInv, NEW t \in ReaderThreads \cup {App}, EndClose(t) PROVE PortInv'
<1>1. /\ at[t] = "close" /\ fd[t] \in PeerFds /\ who[t] \in Sessions /\ Disconnect(fd[t]) /\ Ended(t)
      /\ UNCHANGED <<sessions, networkMutex, batch, peers>>
      /\ handle' = [handle EXCEPT ![who[t]] = 0]
      /\ handlerMutex' = [handlerMutex EXCEPT ![who[t]] = Nobody]
  BY ThreadFacts DEF EndClose, PortInv, Placed
<1>2. /\ TableTypes' /\ SocketTypes' /\ PeerTypes' /\ OnePlace'
      /\ valid' \in [Sessions -> BOOLEAN] /\ connected' \in [Sessions -> BOOLEAN]
      /\ acceptor' = acceptor /\ listeners' = listeners /\ listening' = listening
  BY <1>1, DisconnectKeeps
<1>3. HandlerTypes'
  BY <1>1, <1>2 DEF PortInv, HandlerTypes
<1>4. /\ handlerMutex' \in [Sessions -> Threads \cup {Nobody}]
      /\ \A z \in Sessions : handlerMutex'[z] = IF handlerMutex[z] = t THEN Nobody ELSE handlerMutex[z]
  BY <1>1, ThreadFacts DEF PortInv, LockTypes, Locked
<1>5. \A g \in DOMAIN unknown' : unknown'[g] # 0 => unknown'[g] \in DOMAIN listeners
  BY <1>1 DEF Disconnect, Without, Restrict, PortInv, Port
<1>6. LockTypes' /\ ThreadTypes' /\ Locked' /\ Placed' /\ Port'
  BY <1>1, <1>2, <1>4, <1>5, EndedPort
<1>7. QED
  BY <1>2, <1>3, <1>6 DEF PortInv


\* The application's thread and the update thread hold no reader's lock, and move
\* without one of a handler.
LEMMA OthersMove ==
    ASSUME PortInv, NEW t \in {Update, App}, at[t] # "close",
           NEW pc \in Pcs \ (Inside \cup {"close"}), NEW f \in 0..MaxFd, NEW s \in Sessions \cup {"none"},
           Goes(t, pc, f, s),
           UNCHANGED <<readerMutex, handlerMutex, batch>>,
           networkMutex' \in {Nobody, Update},
           networkMutex' = Update <=> at'[Update] = "register",
           pc = "idle" \/ s \in Sessions,
           t = Update /\ pc = "register" => acceptor' = 1 /\ f = 1,
           t = App => at[Update] # "register" \/ acceptor' = acceptor,
           \A r \in ReaderThreads : at[r] \in {"accept", "hand"} => acceptor' = 1 /\ 1 \in DOMAIN listeners'
    PROVE  LockTypes' /\ ThreadTypes' /\ Locked' /\ Placed'
<1>1. t \in Threads /\ t \notin ReaderThreads /\ App # Update /\ {App, Update} \subseteq Threads
  BY ThreadFacts
<1>2. /\ at' \in [Threads -> Pcs] /\ fd' \in [Threads -> 0..MaxFd]
      /\ who' \in [Threads -> Sessions \cup {"none"}]
      /\ at'[t] = pc /\ fd'[t] = f /\ who'[t] = s
      /\ \A u \in Threads : u # t => at'[u] = at[u] /\ fd'[u] = fd[u] /\ who'[u] = who[u]
  BY <1>1, GoesFacts DEF PortInv
<1>3. LockTypes' /\ ThreadTypes'
  BY <1>2 DEF PortInv, LockTypes, ThreadTypes
<1>4. Locked'
  <2>1. \A q \in ReaderThreads :
          /\ at'[q] \in Inside => readerMutex'[q] = q
          /\ readerMutex'[q] = q => at'[q] # "idle"
    BY <1>1, <1>2, ThreadFacts DEF PortInv, Locked
  <2>2. \A z \in Sessions, u \in Threads : handlerMutex'[z] = u <=> at'[u] = "close" /\ who'[u] = z
    BY <1>1, <1>2 DEF PortInv, Locked
  <2>3. QED
    BY <2>1, <2>2 DEF Locked
<1>5. Placed'
  <2>1. ASSUME NEW q \in ReaderThreads
        PROVE  /\ at'[q] \in {"accept", "hand"} => q = Owner(1) /\ acceptor' = 1 /\ 1 \in DOMAIN listeners'
               /\ at'[q] \in {"hand", "assign", "first", "reply"} => fd'[q] \in PeerFds
               /\ at'[q] \in {"assign", "first", "reply"} => who'[q] \in Sessions
    BY <1>1, <1>2, ThreadFacts DEF PortInv, Placed
  <2>2. \A q \in ReaderThreads :
          /\ \A g \in Fds : <<g, "read">> \in batch'[q] \/ <<g, "hangup">> \in batch'[q] => Owner(g) = q
          /\ <<1, "hangup">> \notin batch'[q]
    BY DEF PortInv, Placed
  <2>3. \A u \in Threads : at'[u] \in {"end", "close", "remove", "look", "add", "register"} => who'[u] \in Sessions
    BY <1>1, <1>2 DEF PortInv, Placed, Inside
  <2>4. \A u \in Threads : at'[u] = "close" => fd'[u] \in PeerFds
    BY <1>1, <1>2 DEF PortInv, Placed
  <2>5. at'[Update] = "register" => acceptor' = 1 /\ fd'[Update] = 1
    BY <1>1, <1>2 DEF PortInv, Placed
  <2>6. QED
    BY <2>1, <2>2, <2>3, <2>4, <2>5 DEF Placed
<1>6. QED
  BY <1>3, <1>4, <1>5

\* Sessions are stopped and started.
LEMMA StopPort ==
    ASSUME PortInv, NEW s \in Sessions, Stop(s) \/ Start(s) PROVE PortInv'
<1>1. TableTypes' /\ SocketTypes' /\ PeerTypes' /\ OnePlace'
  BY DEF Stop, Start, PortInv, TableTypes, SocketTypes, PeerTypes, OnePlace
<1>2. HandlerTypes'
  <2>1. CASE Stop(s)
    BY <2>1 DEF Stop, PortInv, HandlerTypes
  <2>2. CASE Start(s)
    <3>1. starts' \in 0..MaxStarts
      BY <2>2 DEF Start, PortInv, HandlerTypes
    <3>2. QED
      BY <2>2, <3>1 DEF Start, PortInv, HandlerTypes
  <2>3. QED
    BY <2>1, <2>2
<1>3. at[App] = "idle" /\ UNCHANGED <<tables, listening, locks, batch>>
  BY DEF Stop, Start
<1>4. CASE UNCHANGED threads
  BY <1>1, <1>2, <1>3, <1>4 DEF PortInv, LockTypes, ThreadTypes, Locked, Placed, Port
<1>5. CASE Goes(App, "end", 0, s)
  <2>1. "end" \in Pcs \ (Inside \cup {"close"}) /\ 0 \in 0..MaxFd /\ App \in Threads /\ Update \in Threads /\ App # Update
    BY ThreadFacts DEF Pcs, Inside
  <2>2. at'[Update] = at[Update]
    BY <1>5, <2>1, GoesFacts DEF PortInv
  <2>3. LockTypes' /\ ThreadTypes' /\ Locked' /\ Placed'
    <3>1. \A r \in ReaderThreads : at[r] \in {"accept", "hand"} => acceptor' = 1 /\ 1 \in DOMAIN listeners'
      BY <1>3 DEF PortInv, Placed
    <3>2. networkMutex' \in {Nobody, Update} /\ (networkMutex' = Update <=> at'[Update] = "register")
      BY <1>3, <2>2 DEF PortInv, LockTypes, Locked
    <3>3. QED
      BY <1>3, <1>5, <2>1, <3>1, <3>2, OthersMove
  <2>4. Port'
    BY <1>3, <2>2 DEF PortInv, Port
  <2>5. QED
    BY <1>1, <1>2, <2>3, <2>4 DEF PortInv
<1>6. QED
  BY <1>4, <1>5 DEF Stop, Start

\* hasAcceptor only looks.
LEMMA LookPort ==
    ASSUME PortInv, (\E s \in Sessions : Look(s)) \/ HasAcceptor PROVE PortInv'
<1>1. PICK pc \in {"idle", "look", "add"}, s \in Sessions \cup {"none"} :
        Goes(Update, pc, 0, s) /\ (pc = "idle" \/ s \in Sessions)
  BY ThreadFacts DEF Look, HasAcceptor, PortInv, Placed
<1>2. /\ at[Update] \in {"idle", "look"}
      /\ UNCHANGED <<tables, handlers, sessions, locks, batch, sockets, peers>>
  BY DEF Look, HasAcceptor
<1>3. pc \in Pcs \ (Inside \cup {"close"}) /\ 0 \in 0..MaxFd /\ Update \in Threads /\ App # Update
  BY ThreadFacts DEF Pcs, Inside
<1>4. at'[Update] = pc
  BY <1>1, <1>3, GoesFacts DEF PortInv
<1>5. LockTypes' /\ ThreadTypes' /\ Locked' /\ Placed'
  <2>1. \A r \in ReaderThreads : at[r] \in {"accept", "hand"} => acceptor' = 1 /\ 1 \in DOMAIN listeners'
    BY <1>2 DEF PortInv, Placed
  <2>2. networkMutex' \in {Nobody, Update} /\ (networkMutex' = Update <=> at'[Update] = "register")
    BY <1>2, <1>4 DEF PortInv, LockTypes, Locked
  <2>3. QED
    BY <1>1, <1>2, <1>3, <2>1, <2>2, OthersMove
<1>6. Port'
  BY <1>2, <1>4 DEF PortInv, Port
<1>7. TableTypes' /\ HandlerTypes' /\ SocketTypes' /\ PeerTypes' /\ OnePlace'
  BY <1>2 DEF PortInv, TableTypes, HandlerTypes, SocketTypes, PeerTypes, OnePlace
<1>8. QED
  BY <1>5, <1>6, <1>7 DEF PortInv

\* The port is closed when no connection is being accepted.
LEMMA RemovePort ==
    ASSUME PortInv, RemoveAcceptor(App) PROVE PortInv'
<1>1. /\ at[App] = "remove" /\ networkMutex = Nobody /\ Goes(App, "idle", 0, "none")
      /\ UNCHANGED <<handlers, sessions, locks, batch, names, unread, gone>>
  BY DEF RemoveAcceptor
<1>2. at[Update] # "register" /\ DOMAIN listeners = listening /\ listening = {acceptor} \ {0}
  BY <1>1, ThreadFacts DEF PortInv, Locked, Port
<1>3. "idle" \in Pcs \ (Inside \cup {"close"}) /\ 0 \in 0..MaxFd /\ App \in Threads /\ Update \in Threads /\ App # Update
  BY ThreadFacts DEF Pcs, Inside
<1>4. at'[Update] = at[Update]
  BY <1>1, <1>3, GoesFacts DEF PortInv
<1>5. HandlerTypes'
  BY <1>1 DEF PortInv, HandlerTypes
<1>6. ASSUME \A r \in ReaderThreads : at[r] \in {"accept", "hand"} => acceptor' = 1 /\ 1 \in DOMAIN listeners'
      PROVE  LockTypes' /\ ThreadTypes' /\ Locked' /\ Placed'
  <2>1. networkMutex' \in {Nobody, Update} /\ (networkMutex' = Update <=> at'[Update] = "register")
    BY <1>1, <1>4 DEF PortInv, LockTypes, Locked
  <2>2. QED
    BY <1>1, <1>2, <1>3, <1>6, <2>1, OthersMove
<1>7. CASE acceptor = 0
  <2>1. UNCHANGED <<tables, sockets, backlog>>
    BY <1>7 DEF RemoveAcceptor
  <2>2. \A r \in ReaderThreads : at[r] \in {"accept", "hand"} => acceptor' = 1 /\ 1 \in DOMAIN listeners'
    BY <2>1 DEF PortInv, Placed
  <2>3. TableTypes' /\ SocketTypes' /\ PeerTypes' /\ OnePlace' /\ Port'
    BY <1>1, <1>4, <2>1 DEF PortInv, TableTypes, SocketTypes, PeerTypes, OnePlace, Port
  <2>4. QED
    BY <1>5, <1>6, <2>2, <2>3 DEF PortInv
<1>8. CASE acceptor # 0
  <2>1. acceptor = 1 /\ readerMutex[Owner(1)] = Nobody /\ known' = known
        /\ DOMAIN listeners = {1} /\ listening = {1}
    BY <1>2, <1>8 DEF RemoveAcceptor, PortInv, TableTypes
  <2>2. \A r \in ReaderThreads : at[r] \notin {"accept", "hand"}
    BY <2>1, ThreadFacts DEF PortInv, Placed, Locked, Inside
  <2>3. LockTypes' /\ ThreadTypes' /\ Locked' /\ Placed'
    BY <1>6, <2>2
  <2>4. CASE ClosePort
    <3>1. /\ acceptor' = 0 /\ backlog' = <<>> /\ DOMAIN listeners' = {} /\ listening' = {}
          /\ DOMAIN unknown' = DOMAIN unknown /\ \A g \in DOMAIN unknown' : unknown'[g] = 0
          /\ open' = Without(open, 1) /\ watched' = watched \ {1} /\ edges' = edges \ {1}
      BY <2>1, <2>4 DEF ClosePort, CloseFd, Without, Restrict
    <3>2. DOMAIN open' = DOMAIN open /\ \A f \in DOMAIN open : open'[f] = open[f]
      BY <3>1, ThreadFacts DEF Without, Restrict, PortInv, SocketTypes
    <3>3. TableTypes' /\ Port'
      BY <2>1, <3>1 DEF PortInv, TableTypes, Port
    <3>4. SocketTypes'
      BY <1>1, <3>1, <3>2 DEF PortInv, SocketTypes
    <3>5. PeerTypes' /\ OnePlace'
      BY <1>1, <3>1, <3>2 DEF PortInv, PeerTypes, OnePlace
    <3>6. QED
      BY <1>5, <2>3, <3>3, <3>4, <3>5 DEF PortInv
  <2>5. CASE ~IsLast(who[App])
    <3>1. /\ listeners' = [listeners EXCEPT ![1] = @ \ {who[App]}] /\ ~(listeners[1] \subseteq {who[App]})
          /\ UNCHANGED <<acceptor, unknown, sockets, backlog>>
      BY <1>8, <2>1, <2>5 DEF RemoveAcceptor, RemoveListener, IsLast
    <3>2. DOMAIN listeners' = {1} /\ listeners'[1] = listeners[1] \ {who[App]} /\ listeners'[1] # {}
      BY <2>1, <3>1
    <3>3. TableTypes' /\ Port'
      BY <1>4, <2>1, <3>1, <3>2 DEF PortInv, TableTypes, Port
    <3>4. SocketTypes' /\ PeerTypes' /\ OnePlace'
      BY <1>1, <3>1 DEF PortInv, SocketTypes, PeerTypes, OnePlace
    <3>5. QED
      BY <1>5, <2>3, <3>3, <3>4 DEF PortInv
  <2>6. QED
    BY <1>8, <2>4, <2>5 DEF RemoveAcceptor
<1>9. QED
  BY <1>7, <1>8

\* The first session of the port opens it, on the lowest descriptor.
LEMMA ListenPort ==
    ASSUME PortInv, Listen PROVE PortInv'
<1>1. /\ at[Update] = "add" /\ networkMutex = Nobody /\ networkMutex' = Update
      /\ Goes(Update, "register", acceptor', who[Update]) /\ who[Update] \in Sessions
      /\ UNCHANGED <<listeners, unknown, known, handlers, sessions, readerMutex, handlerMutex, batch,
                     open, watched, edges, peers>>
  BY ThreadFacts DEF Listen, PortInv, Placed
<1>2. acceptor' = 1 /\ listening' = {1}
  <2>1. CASE acceptor = 0
    BY <2>1, PortFd DEF Listen, PortInv, Port
  <2>2. CASE acceptor = 1
    BY <2>2 DEF Listen, PortInv, Port
  <2>3. QED
    BY <2>1, <2>2 DEF PortInv, TableTypes
<1>3. "register" \in Pcs \ (Inside \cup {"close"}) /\ 1 \in 0..MaxFd /\ Update \in Threads /\ App # Update
  BY ThreadFacts DEF Pcs, Inside
<1>4. at'[Update] = "register"
  BY <1>1, <1>2, <1>3, GoesFacts DEF PortInv
<1>5. LockTypes' /\ ThreadTypes' /\ Locked' /\ Placed'
  <2>1. \A r \in ReaderThreads : at[r] \in {"accept", "hand"} => acceptor' = 1 /\ 1 \in DOMAIN listeners'
    BY <1>1, <1>2 DEF PortInv, Placed
  <2>2. QED
    BY <1>1, <1>2, <1>3, <1>4, <2>1, OthersMove
<1>6. TableTypes' /\ HandlerTypes' /\ Port'
  BY <1>1, <1>2, <1>4 DEF PortInv, TableTypes, HandlerTypes, Port
<1>7. SocketTypes' /\ PeerTypes' /\ OnePlace'
  BY <1>1, <1>2 DEF PortInv, SocketTypes, PeerTypes, OnePlace
<1>8. QED
  BY <1>5, <1>6, <1>7 DEF PortInv

\* ... and the reader thread learns of it.
LEMMA RegisterPort ==
    ASSUME PortInv, Register PROVE PortInv'
<1>1. /\ at[Update] = "register" /\ networkMutex' = Nobody /\ Goes(Update, "idle", 0, "none")
      /\ fd[Update] = 1 /\ acceptor = 1 /\ who[Update] \in Sessions /\ listening = {1}
      /\ UNCHANGED <<acceptor, unknown, known, handlers, sessions, readerMutex, handlerMutex, batch,
                     listening, open, peers>>
  BY ThreadFacts DEF Register, PortInv, Placed, Port
<1>2. /\ DOMAIN listeners' = {1} /\ who[Update] \in listeners'[1] /\ listeners'[1] \subseteq Sessions
  BY <1>1 DEF Register, AddListener, With, PortInv, TableTypes
<1>3. "idle" \in Pcs \ (Inside \cup {"close"}) /\ 0 \in 0..MaxFd /\ Update \in Threads /\ App # Update /\ Update # Nobody
  BY ThreadFacts DEF Pcs, Inside
<1>4. at'[Update] = "idle"
  BY <1>1, <1>3, GoesFacts DEF PortInv
<1>5. LockTypes' /\ ThreadTypes' /\ Locked' /\ Placed'
  <2>1. \A r \in ReaderThreads : at[r] \in {"accept", "hand"} => acceptor' = 1 /\ 1 \in DOMAIN listeners'
    BY <1>1, <1>2
  <2>2. QED
    BY <1>1, <1>3, <1>4, <2>1, OthersMove
<1>6. TableTypes' /\ HandlerTypes' /\ Port'
  BY <1>1, <1>2, <1>4 DEF PortInv, TableTypes, HandlerTypes, Port
<1>7. SocketTypes'
  <2>1. \/ UNCHANGED <<watched, edges>>
        \/ watched' = watched \cup {1} /\ (edges' = edges \cup {1} \/ edges' = edges)
    BY <1>1 DEF Register, Watch
  <2>2. QED
    BY <1>1, <2>1, ThreadFacts DEF PortInv, SocketTypes
<1>8. PeerTypes' /\ OnePlace'
  BY <1>1 DEF PortInv, PeerTypes, OnePlace
<1>9. QED
  BY <1>5, <1>6, <1>7, <1>8 DEF PortInv

\* Every step keeps the port.
LEMMA PortStep == PortInv /\ [Next]_vars => PortInv'
<1> SUFFICES ASSUME PortInv, [Next]_vars PROVE PortInv'
  OBVIOUS
<1>1. ASSUME NEW r \in ReaderThreads, EpollWait(r) \/ Tick(r) \/ Handle(r) PROVE PortInv'
  <2>1. r \in ReaderThreads \cup {App}
    OBVIOUS
  <2>2. QED
    BY <1>1, <2>1, EpollWaitPort, TickPort, HangUpPort, ReadKnownPort, ReadListenerPort, ReadUnknownPort,
       ReadStrayPort, AcceptPort, HandOverPort, AssignPort, FirstPort, BeginEndPort, EndClosePort DEF Handle
<1>2. CASE Applies \/ Updates
  BY <1>2, BeginEndPort, EndClosePort, RemovePort, LookPort, ListenPort, RegisterPort DEF Applies, Updates
<1>3. CASE UNCHANGED vars
  <2>1. UNCHANGED <<tables, handlers, sessions, locks, threads, batch, listening, sockets, peers>>
    BY <1>3 DEF vars
  <2>2. SocketTypes' /\ PeerTypes' /\ OnePlace'
    BY <2>1 DEF PortInv, SocketTypes, PeerTypes, OnePlace
  <2>3. QED
    BY <2>1, <2>2, PortOfPeers DEF PortInv
<1>4. QED
  BY <1>1, <1>2, <1>3, DialPort, ClientPort, StopPort, LookPort DEF Next

\* The port in every state that is reached.
LEMMA PortInvariant == Spec => []PortInv
<1>1. QED
  BY PortInit, PortStep, PTL DEF Spec

\* addAcceptor and removeAcceptor of any number of sessions, on any threads and with any
\* reader threads, leave the tables of Network and of the reader thread in agreement.
THEOREM PortAgreed == Spec => []ListenersAgree
<1>1. PortInv => ListenersAgree
  <2> SUFFICES ASSUME PortInv, networkMutex = Nobody
               PROVE  /\ DOMAIN listeners = {acceptor} \ {0} /\ listening = {acceptor} \ {0}
                      /\ \A f \in DOMAIN listeners : listeners[f] # {}
    BY DEF ListenersAgree
  <2>1. at[Update] # "register"
    BY ThreadFacts DEF PortInv, Locked
  <2>2. QED
    BY <2>1 DEF PortInv, Port
<1>2. QED
  BY <1>1, PortInvariant, PTL

-----------------------------------------------------------------------------
(***************************************************************************)
(* With one reader thread, which is what InputThreads says unless it is     *)
(* set: for any number of sessions, descriptors, clients and restarts, and  *)
(* whatever the application's and the update thread do meanwhile.           *)
(***************************************************************************)

\* The reader thread, which owns every descriptor.
LEMMA OneReader ==
    ASSUME Readers = 1
    PROVE  ReaderThreads = {0} /\ \A f \in Fds : Owner(f) = 0
  BY DEF ReaderThreads, Fds, Owner

-----------------------------------------------------------------------------
(* The connections *)

\* An open connection is in one of the tables, and watched, unless it is being handed
\* over or assigned; and what is in a table or watched is open.
Entered ==
    /\ DOMAIN known \cap DOMAIN unknown = {}
    /\ DOMAIN known \subseteq DOMAIN open /\ DOMAIN unknown \subseteq DOMAIN open
    /\ watched \subseteq listening \cup DOMAIN open
    /\ at[0] \in {"hand", "assign"} =>
          fd[0] \in DOMAIN open /\ fd[0] \notin DOMAIN known /\ fd[0] \notin DOMAIN unknown
    /\ at[0] = "hand" => fd[0] \notin watched
    /\ \A f \in DOMAIN open :
          /\ f \in DOMAIN known \/ f \in DOMAIN unknown \/ (at[0] \in {"hand", "assign"} /\ fd[0] = f)
          /\ f \in watched \/ (at[0] = "hand" /\ fd[0] = f)

\* A connection of a session is the one its handler has.  The session says that it is
\* connected until its handler's lock is taken to close it, so isConnected, read before
\* that lock is taken, is still right when the next connection is assigned.
Held ==
    /\ \A f \in DOMAIN known :
          /\ handle[known[f]] = f /\ valid[known[f]] /\ names[open[f]] = known[f]
          /\ connected[known[f]] \/ handlerMutex[known[f]] # Nobody
    /\ at[0] = "assign" =>
          /\ names[open[fd[0]]] = who[0]
          /\ \A f \in DOMAIN known : known[f] = who[0] => handlerMutex[who[0]] # Nobody
    /\ \A t \in Threads : at[t] = "close" => handle[who[t]] = fd[t]

\* Data and ends of a watched connection are edges, or reported and not yet handled:
\* an end as a hang-up.
Signalled ==
    \A f \in DOMAIN open : f \in watched =>
        /\ open[f] \in gone => f \in edges \/ <<f, "hangup">> \in batch[0]
        /\ open[f] \in unread => f \in edges \/ <<f, "hangup">> \in batch[0] \/ <<f, "read">> \in batch[0]

ReaderInv == Entered /\ Held /\ Signalled

\* Nothing of what the properties of one reader thread depend on.
Quiet == <<known, unknown, open, watched, listening, handle, valid, connected, handlerMutex,
           names, unread, gone, edges, batch>>

\* A thread that is nowhere near a table changes nothing by going elsewhere.
LEMMA MoveHeld ==
    ASSUME Readers = 1, PortInv, ReaderInv, NEW t \in Threads, at[t] \notin {"hand", "assign", "close"},
           NEW pc \in Pcs \ {"hand", "assign", "close"}, NEW f \in 0..MaxFd, NEW s \in Sessions \cup {"none"},
           Goes(t, pc, f, s)
    PROVE  /\ at'[0] \in {"hand", "assign"} => at[0] = at'[0] /\ fd[0] = fd'[0] /\ who[0] = who'[0]
           /\ at[0] \in {"hand", "assign"} => at[0] = at'[0] /\ fd[0] = fd'[0] /\ who[0] = who'[0]
           /\ \A u \in Threads : at'[u] = "close" => at[u] = "close" /\ fd'[u] = fd[u] /\ who'[u] = who[u]
<1>1. 0 \in Threads
  BY OneReader, ThreadFacts
<1>2. QED
  BY <1>1, GoesFacts DEF PortInv

\* A step that touches no connection, no table and no event keeps what one reader relies on.
LEMMA QuietReader ==
    ASSUME Readers = 1, PortInv, ReaderInv, NEW t \in Threads, at[t] \notin {"hand", "assign", "close"},
           NEW pc \in Pcs \ {"hand", "assign", "close"}, NEW f \in 0..MaxFd, NEW s \in Sessions \cup {"none"},
           Goes(t, pc, f, s), UNCHANGED Quiet
    PROVE  ReaderInv'
<1>1. UNCHANGED <<known, unknown, open, watched, listening, handle, valid, connected, handlerMutex,
                  names, unread, gone, edges, batch>>
  BY DEF Quiet
<1>2. Entered'
  BY <1>1, MoveHeld DEF ReaderInv, Entered
<1>3. Held'
  BY <1>1, MoveHeld DEF ReaderInv, Held
<1>4. Signalled'
  BY <1>1 DEF ReaderInv, Signalled
<1>5. QED
  BY <1>2, <1>3, <1>4 DEF ReaderInv

-----------------------------------------------------------------------------
(* Clients *)

\* A new process has no connections.
LEMMA ReaderInit == Readers = 1 /\ Init => ReaderInv
<1> SUFFICES ASSUME Readers = 1, Init PROVE ReaderInv
  OBVIOUS
<1>1. \A t \in Threads : at[t] = "idle"
  BY DEF Init
<1>2. at[0] = "idle"
  BY <1>1, OneReader, ThreadFacts
<1>3. DOMAIN known = {} /\ DOMAIN unknown = {} /\ DOMAIN open = {} /\ watched = {}
  BY DEF Init
<1>4. QED
  BY <1>1, <1>2, <1>3 DEF ReaderInv, Entered, Held, Signalled

\* A connection in the backlog is not open yet.
LEMMA DialReader ==
    ASSUME Readers = 1, PortInv, ReaderInv, Dial PROVE ReaderInv'
<1>1. /\ UNCHANGED <<tables, handlers, locks, threads, batch, listening, open, watched, unread, gone>>
      /\ edges \subseteq edges'
  BY DEF Dial
<1>2. \A f \in DOMAIN open : names'[open[f]] = names[open[f]]
  <2>1. PICK s \in Sessions : names' = Append(names, s)
    BY DEF Dial
  <2>2. names \in Seq(Sessions) /\ \A f \in DOMAIN open : open[f] \in 1..Len(names)
    BY DEF PortInv, PeerTypes
  <2>3. QED
    BY <2>1, <2>2
<1>3. Entered' /\ Signalled'
  BY <1>1 DEF ReaderInv, Entered, Signalled
<1>4. Held'
  BY <1>1, <1>2 DEF ReaderInv, Entered, Held
<1>5. QED
  BY <1>3, <1>4 DEF ReaderInv

\* What a client sends, and its leaving, are events of its descriptor.
LEMMA ClientReader ==
    ASSUME Readers = 1, PortInv, ReaderInv, NEW p \in Peers, Speak(p) \/ Leave(p) PROVE ReaderInv'
<1>1. /\ UNCHANGED <<tables, handlers, locks, threads, batch, listening, open, watched, names>>
      /\ edges' = edges \cup Signals(p) /\ unread' \subseteq unread \cup {p} /\ gone' \subseteq gone \cup {p}
  BY DEF Speak, Leave
<1>2. Entered' /\ Held'
  BY <1>1 DEF ReaderInv, Entered, Held
<1>3. Signalled'
  BY <1>1 DEF ReaderInv, Signalled, Signals
<1>4. QED
  BY <1>2, <1>3 DEF ReaderInv

-----------------------------------------------------------------------------
(* The reader thread *)

\* What epoll_wait returns has one event for each descriptor that had one.
LEMMA EpollWaitReader ==
    ASSUME Readers = 1, PortInv, ReaderInv, EpollWait(0) PROVE ReaderInv'
<1>1. /\ UNCHANGED <<tables, handlers, locks, threads, listening, open, watched, peers>>
      /\ batch[0] = {}
  BY DEF EpollWait
<1>2. \A f \in edges : <<f, Kind(f)>> \in batch'[0]
  <2>1. edges \subseteq Fds /\ batch[0] = {} /\ 0 \in ReaderThreads
    BY <1>1, OneReader DEF PortInv, SocketTypes
  <2>2. {f \in edges : Owner(f) = 0} = edges
    BY <2>1, OneReader
  <2>3. batch' = [batch EXCEPT ![0] = {<<f, Kind(f)>> : f \in edges}]
    BY <2>2 DEF EpollWait
  <2>4. QED
    BY <2>1, <2>3 DEF PortInv, ThreadTypes
<1>3. Entered' /\ Held'
  BY <1>1 DEF ReaderInv, Entered, Held
<1>4. Signalled'
  <2>1. \A f \in DOMAIN open : Kind(f) = IF open[f] \in gone THEN "hangup" ELSE "read"
    BY DEF Kind
  <2>2. QED
    BY <1>1, <1>2, <2>1 DEF ReaderInv, Signalled
<1>5. QED
  BY <1>3, <1>4 DEF ReaderInv

\* disconnect takes the entry of a session that no other descriptor has.
LEMMA DisconnectReader ==
    ASSUME Readers = 1, PortInv, ReaderInv, NEW f \in PeerFds, Disconnect(f)
    PROVE  /\ DOMAIN known' = DOMAIN known \ {f} /\ DOMAIN unknown' = DOMAIN unknown \ {f}
           /\ DOMAIN open' = DOMAIN open \ {f} /\ listening' = listening
           /\ watched' = watched \ {f} /\ edges' = edges \ {f}
           /\ \A g \in DOMAIN known' : known'[g] = known[g]
           /\ \A g \in DOMAIN open' : open'[g] = open[g]
           /\ \A g \in DOMAIN known' : valid'[known[g]] /\ connected'[known[g]] = connected[known[g]]
<1>1. /\ DOMAIN open' = DOMAIN open \ {f} /\ listening' = listening
      /\ watched' = watched \ {f} /\ edges' = edges \ {f}
      /\ \A g \in DOMAIN open' : open'[g] = open[g]
  BY CloseFacts DEF Disconnect, PortInv
<1>2. /\ DOMAIN known' = DOMAIN known \ {f} /\ \A g \in DOMAIN known' : known'[g] = known[g]
  BY DEF Disconnect, Without, Restrict
<1>3. DOMAIN unknown' = DOMAIN unknown \ {f}
  <2>1. CASE f \in DOMAIN known
    BY <2>1 DEF Disconnect, ReaderInv, Entered
  <2>2. CASE f \notin DOMAIN known
    BY <2>2 DEF Disconnect, Without, Restrict
  <2>3. QED
    BY <2>1, <2>2
<1>4. ASSUME NEW g \in DOMAIN known'
      PROVE  valid'[known[g]] /\ connected'[known[g]] = connected[known[g]]
  <2> DEFINE s == known[g]
  <2>1. g \in DOMAIN known /\ g # f /\ s \in Sessions /\ handle[s] = g /\ valid[s]
    BY <1>2 DEF PortInv, TableTypes, ReaderInv, Held
  <2>2. f \notin DOMAIN known \/ known[f] # s
    BY <2>1 DEF ReaderInv, Held
  <2>3. /\ valid' = [z \in Sessions |-> valid[z] /\ (f \notin DOMAIN known \/ known[f] # z)]
        /\ connected' = [z \in Sessions |-> connected[z] /\ (f \notin DOMAIN known \/ known[f] # z)]
    BY DEF Disconnect, Invalidate
  <2> HIDE DEF s
  <2>4. QED
    BY <2>1, <2>2, <2>3 DEF PortInv, HandlerTypes, s
<1>5. QED
  BY <1>1, <1>2, <1>3, <1>4

\* A reported event that is taken leaves those of the other descriptors.
LEMMA HangUpReader ==
    ASSUME Readers = 1, PortInv, ReaderInv, NEW f \in Fds, HangUp(0, f) PROVE ReaderInv'
<1>1. /\ at[0] = "idle" /\ f \in PeerFds /\ batch'[0] = batch[0] \ {<<f, "hangup">>}
  BY TakesFacts, OneReader DEF HangUp, PortInv
<1>2. Disconnect(f) /\ UNCHANGED <<handle, sessions, locks, threads, peers>>
  BY DEF HangUp
<1>3. /\ DOMAIN known' = DOMAIN known \ {f} /\ DOMAIN unknown' = DOMAIN unknown \ {f}
      /\ DOMAIN open' = DOMAIN open \ {f} /\ listening' = listening
      /\ watched' = watched \ {f} /\ edges' = edges \ {f}
      /\ \A g \in DOMAIN known' : known'[g] = known[g]
      /\ \A g \in DOMAIN open' : open'[g] = open[g]
      /\ \A g \in DOMAIN known' : valid'[known[g]] /\ connected'[known[g]] = connected[known[g]]
  BY <1>1, <1>2, DisconnectReader
<1>4. Entered'
  BY <1>1, <1>2, <1>3 DEF ReaderInv, Entered
<1>5. Held'
  BY <1>1, <1>2, <1>3 DEF ReaderInv, Entered, Held
<1>6. Signalled'
  BY <1>1, <1>2, <1>3 DEF ReaderInv, Signalled
<1>7. QED
  BY <1>4, <1>5, <1>6 DEF ReaderInv

\* Reading what a connection's event announced handles it.
LEMMA ReadKnownReader ==
    ASSUME Readers = 1, PortInv, ReaderInv, NEW f \in Fds, ReadKnown(0, f) PROVE ReaderInv'
<1>1. /\ at[0] = "idle" /\ batch'[0] = batch[0] \ {<<f, "read">>} /\ 0 \in Threads
  BY TakesFacts, OneReader, ThreadFacts DEF ReadKnown, PortInv
<1>2. UNCHANGED <<tables, handlers, sessions, locks, sockets, backlog, names, gone>>
  BY DEF ReadKnown
<1>3. PICK pc \in {"idle", "end"}, s \in Sessions \cup {"none"} : Goes(0, pc, 0, s)
  BY DEF ReadKnown, PortInv, TableTypes
<1>4. pc \in Pcs \ {"hand", "assign", "close"} /\ 0 \in 0..MaxFd
  BY DEF Pcs, Inside
<1>5. /\ at'[0] \notin {"hand", "assign"}
      /\ \A u \in Threads : at'[u] = "close" => at[u] = "close" /\ fd'[u] = fd[u] /\ who'[u] = who[u]
  BY <1>1, <1>3, <1>4, MoveHeld
<1>6. Entered' /\ Held'
  BY <1>1, <1>2, <1>5 DEF ReaderInv, Entered, Held
<1>7. Signalled'
  <2>1. unread' \subseteq unread /\ (f \in DOMAIN open => open[f] \notin unread')
    BY DEF ReadKnown
  <2>2. QED
    BY <1>1, <1>2, <2>1 DEF ReaderInv, Signalled
<1>8. QED
  BY <1>6, <1>7 DEF ReaderInv

\* The update of a connected session at the end of a round may begin to end it.
LEMMA TickReader ==
    ASSUME Readers = 1, PortInv, ReaderInv, Tick(0) PROVE ReaderInv'
<1>1. PICK s \in Sessions : Goes(0, "end", 0, s)
  BY DEF Tick, PortInv, TableTypes
<1>2. "end" \in Pcs \ {"hand", "assign", "close"} /\ 0 \in 0..MaxFd /\ 0 \in Threads
  BY OneReader, ThreadFacts DEF Pcs, Inside
<1>3. at[0] = "idle" /\ UNCHANGED Quiet
  BY DEF Tick, Quiet
<1>4. QED
  BY <1>1, <1>2, <1>3, QuietReader

\* An open connection is in a table while the thread is idle.
LEMMA ReadStrayReader ==
    ASSUME Readers = 1, PortInv, ReaderInv, NEW f \in Fds, ReadStray(0, f) PROVE ReaderInv'
<1>1. /\ at[0] = "idle" /\ batch'[0] = batch[0] \ {<<f, "read">>}
  BY TakesFacts, OneReader DEF ReadStray, PortInv
<1>2. UNCHANGED <<tables, handlers, sessions, locks, threads, sockets, peers>>
  BY DEF ReadStray
<1>3. f \notin DOMAIN open
  BY <1>1 DEF ReadStray, ReaderInv, Entered
<1>4. Entered' /\ Held'
  BY <1>2 DEF ReaderInv, Entered, Held
<1>5. Signalled'
  BY <1>1, <1>2, <1>3 DEF ReaderInv, Signalled
<1>6. QED
  BY <1>4, <1>5 DEF ReaderInv

\* An event of the listening socket is not one of a connection.
LEMMA ReadListenerReader ==
    ASSUME Readers = 1, PortInv, ReaderInv, NEW f \in Fds, ReadListener(0, f) PROVE ReaderInv'
<1>1. /\ at[0] = "idle" /\ batch'[0] = batch[0] \ {<<f, "read">>} /\ 0 \in Threads
  BY TakesFacts, OneReader, ThreadFacts DEF ReadListener, PortInv
<1>2. UNCHANGED <<tables, handlers, sessions, handlerMutex, sockets, peers>>
  BY DEF ReadListener
<1>3. f \notin DOMAIN open /\ f \in 0..MaxFd
  BY ThreadFacts DEF ReadListener, PortInv, TableTypes, SocketTypes, Fds
<1>4. /\ at'[0] \notin {"hand", "assign"}
      /\ \A u \in Threads : at'[u] = "close" => at[u] = "close" /\ fd'[u] = fd[u] /\ who'[u] = who[u]
  <2>1. "accept" \in Pcs \ {"hand", "assign", "close"}
    BY DEF Pcs, Inside
  <2>2. QED
    BY <1>1, <1>3, <2>1, MoveHeld DEF ReadListener
<1>5. Entered' /\ Held'
  BY <1>1, <1>2, <1>4 DEF ReaderInv, Entered, Held
<1>6. Signalled'
  BY <1>1, <1>2, <1>3 DEF ReaderInv, Signalled
<1>7. QED
  BY <1>5, <1>6 DEF ReaderInv


\* The new descriptor is in no table, and not watched: it was free.
LEMMA AcceptReader ==
    ASSUME Readers = 1, PortInv, ReaderInv, Accept(0) PROVE ReaderInv'
<1> DEFINE new == Min(FreeFds)
<1>1. /\ at[0] = "accept" /\ Goes(0, "hand", new, "none") /\ open' = With(open, new, Head(backlog))
      /\ UNCHANGED <<tables, handlers, sessions, locks, batch, listening, watched, edges, names, unread, gone>>
  BY DEF Accept
<1>2. new \in PeerFds /\ new \notin DOMAIN open
  <2>1. 0 \in ReaderThreads
    BY OneReader
  <2>2. listening = {1} /\ Len(backlog) > 0
    BY <2>1 DEF Accept, PortInv, Placed, Port, PeerTypes
  <2>3. QED
    BY <2>2, AcceptedFd DEF PortInv
<1> HIDE DEF new
<1>3. "hand" \in Pcs /\ new \in 0..MaxFd /\ 0 \in Threads /\ listening \subseteq {1} /\ 1 \notin PeerFds
  BY <1>2, OneReader, ThreadFacts DEF Pcs, Inside, PeerFds, PortInv, SocketTypes
<1>4. /\ at'[0] = "hand" /\ fd'[0] = new
      /\ \A u \in Threads : u # 0 => at'[u] = at[u] /\ fd'[u] = fd[u] /\ who'[u] = who[u]
  BY <1>1, <1>3, GoesFacts DEF PortInv
<1>5. /\ DOMAIN open' = DOMAIN open \cup {new}
      /\ \A g \in DOMAIN open : open'[g] = open[g]
  BY <1>1, <1>2 DEF With
<1>6. Entered'
  <2>1. new \notin DOMAIN known /\ new \notin DOMAIN unknown /\ new \notin watched
    BY <1>2, <1>3 DEF ReaderInv, Entered
  <2>2. QED
    BY <1>1, <1>4, <1>5, <2>1 DEF ReaderInv, Entered
<1>7. Held'
  BY <1>1, <1>4, <1>5 DEF ReaderInv, Entered, Held
<1>8. Signalled'
  <2>1. new \notin watched
    BY <1>2, <1>3 DEF ReaderInv, Entered
  <2>2. QED
    BY <1>1, <1>5, <2>1 DEF ReaderInv, Signalled
<1>9. QED
  BY <1>6, <1>7, <1>8 DEF ReaderInv

\* Whatever came or went before the registration is an event of it.
LEMMA HandOverReader ==
    ASSUME Readers = 1, PortInv, ReaderInv, HandOver(0) PROVE ReaderInv'
<1> DEFINE f == fd[0]
<1>1. /\ at[0] = "hand" /\ Goes(0, "idle", 0, "none") /\ Watch(f) /\ unknown' = With(unknown, f, acceptor)
      /\ UNCHANGED <<known, handlers, sessions, handlerMutex, batch, listening, open, peers>>
  BY DEF HandOver, AddUnknown
<1>2. "idle" \in Pcs /\ 0 \in 0..MaxFd /\ 0 \in Threads
  BY OneReader, ThreadFacts DEF Pcs
<1>3. /\ at'[0] = "idle"
      /\ \A u \in Threads : u # 0 => at'[u] = at[u] /\ fd'[u] = fd[u] /\ who'[u] = who[u]
  BY <1>1, <1>2, GoesFacts DEF PortInv
<1>4. f \in DOMAIN open /\ f \notin DOMAIN known /\ f \notin DOMAIN unknown
  BY <1>1 DEF ReaderInv, Entered
<1>5. /\ DOMAIN unknown' = DOMAIN unknown \cup {f} /\ watched' = watched \cup {f} /\ edges \subseteq edges'
      /\ open[f] \in gone \/ open[f] \in unread => f \in edges'
  BY <1>1, <1>4 DEF With, Watch, HasEvent
<1>6. Entered'
  BY <1>1, <1>3, <1>4, <1>5 DEF ReaderInv, Entered
<1>7. Held'
  BY <1>1, <1>3 DEF ReaderInv, Held
<1>8. Signalled'
  BY <1>1, <1>5 DEF ReaderInv, Signalled
<1>9. QED
  BY <1>6, <1>7, <1>8 DEF ReaderInv

\* A session that was found not connected has no connection, or its handler's lock is held.
LEMMA ReadUnknownReader ==
    ASSUME Readers = 1, PortInv, ReaderInv, NEW f \in Fds, ReadUnknown(0, f) PROVE ReaderInv'
<1> DEFINE s == names[open[f]]
<1>1. /\ at[0] = "idle" /\ batch'[0] = batch[0] \ {<<f, "read">>} /\ 0 \in Threads
  BY TakesFacts, OneReader, ThreadFacts DEF ReadUnknown, PortInv
<1>2. /\ f \in DOMAIN unknown /\ f \notin DOMAIN known /\ f \in DOMAIN open /\ f \in PeerFds
      /\ UNCHANGED <<known, handlers, sessions, handlerMutex, names, gone>>
  BY DEF ReadUnknown, PortInv, TableTypes, ReaderInv, Entered
<1>3. CASE open[f] \notin unread
  <2>1. UNCHANGED <<unknown, unread, threads, sockets>>
    BY <1>3 DEF ReadUnknown
  <2>2. Entered' /\ Held'
    BY <1>2, <2>1 DEF ReaderInv, Entered, Held
  <2>3. Signalled'
    BY <1>1, <1>2, <1>3, <2>1 DEF ReaderInv, Signalled
  <2>4. QED
    BY <2>2, <2>3 DEF ReaderInv
<1>4. CASE open[f] \in unread
  <2>1. DOMAIN unknown' = DOMAIN unknown \ {f} /\ unread' = unread \ {open[f]}
    BY <1>4 DEF ReadUnknown, Without, Restrict
  <2>2. CASE Goes(0, "assign", f, s) /\ UNCHANGED sockets /\ ~connected[s]
    <3>1. "assign" \in Pcs /\ f \in 0..MaxFd /\ s \in Sessions \cup {"none"}
      <4>1. open[f] \in 1..Len(names) /\ names \in Seq(Sessions)
        BY <1>2 DEF PortInv, PeerTypes
      <4>2. s \in Sessions
        BY <4>1
      <4>3. QED
        BY <4>2 DEF Pcs, Inside, Fds
    <3>2. /\ at'[0] = "assign" /\ fd'[0] = f /\ who'[0] = s
          /\ \A u \in Threads : u # 0 => at'[u] = at[u] /\ fd'[u] = fd[u] /\ who'[u] = who[u]
      BY <1>1, <2>2, <3>1, GoesFacts DEF PortInv
    <3>3. Entered'
      BY <1>1, <1>2, <2>1, <2>2, <3>2 DEF ReaderInv, Entered
    <3>4. Held'
      <4>1. \A g \in DOMAIN known : known[g] = s => handlerMutex[s] # Nobody
        BY <2>2 DEF ReaderInv, Held
      <4>2. open' = open
        BY <2>2
      <4>3. QED
        BY <1>2, <3>2, <4>1, <4>2 DEF ReaderInv, Held
    <3>5. Signalled'
      BY <1>1, <1>2, <2>1, <2>2 DEF ReaderInv, Signalled
    <3>6. QED
      BY <3>3, <3>4, <3>5 DEF ReaderInv
  <2>3. CASE CloseFd(f) /\ UNCHANGED threads
    <3>1. /\ DOMAIN open' = DOMAIN open \ {f} /\ listening' = listening
          /\ watched' = watched \ {f} /\ edges' = edges \ {f}
          /\ \A g \in DOMAIN open' : open'[g] = open[g]
      BY <1>2, <2>3, CloseFacts DEF PortInv
    <3>2. Entered'
      BY <1>1, <1>2, <2>1, <2>3, <3>1 DEF ReaderInv, Entered
    <3>3. Held'
      BY <1>1, <1>2, <2>3, <3>1 DEF ReaderInv, Entered, Held
    <3>4. Signalled'
      BY <1>1, <1>2, <2>1, <3>1 DEF ReaderInv, Signalled
    <3>5. QED
      BY <3>2, <3>3, <3>4 DEF ReaderInv
  <2>4. QED
    BY <1>4, <2>2, <2>3 DEF ReadUnknown, Refuse
<1>5. QED
  BY <1>3, <1>4

\* Its lock is free when the connection is assigned, so it has none then.
LEMMA AssignReader ==
    ASSUME Readers = 1, PortInv, ReaderInv, Assign(0) PROVE ReaderInv'
<1> DEFINE f == fd[0]  s == who[0]
<1>1. /\ at[0] = "assign" /\ handlerMutex[s] = Nobody /\ Goes(0, "first", f, s)
      /\ known' = With(known, f, s)
      /\ handle' = [handle EXCEPT ![s] = f]
      /\ valid' = [valid EXCEPT ![s] = TRUE] /\ connected' = [connected EXCEPT ![s] = TRUE]
      /\ UNCHANGED <<unknown, handlerMutex, batch, sockets, peers>>
  BY DEF Assign, AddConnection, SetConnection
<1>2. /\ "first" \in Pcs /\ 0 \in Threads /\ f \in 0..MaxFd /\ s \in Sessions
      /\ \A g \in DOMAIN known : known[g] \in Sessions
  BY <1>1, OneReader, ThreadFacts DEF Pcs, Inside, PortInv, Placed, ThreadTypes, TableTypes
<1>3. /\ at'[0] = "first" /\ fd'[0] = f /\ who'[0] = s
      /\ \A u \in Threads : u # 0 => at'[u] = at[u] /\ fd'[u] = fd[u] /\ who'[u] = who[u]
  BY <1>1, <1>2, GoesFacts DEF PortInv
<1>4. /\ f \in DOMAIN open /\ f \notin DOMAIN known /\ f \notin DOMAIN unknown
      /\ names[open[f]] = s /\ \A g \in DOMAIN known : known[g] # s
  BY <1>1 DEF ReaderInv, Entered, Held
<1>5. /\ DOMAIN known' = DOMAIN known \cup {f} /\ known'[f] = s
      /\ \A g \in DOMAIN known : known'[g] = known[g]
  BY <1>1, <1>4 DEF With
<1>6. /\ handle'[s] = f /\ valid'[s] /\ connected'[s]
      /\ \A z \in Sessions : z # s => handle'[z] = handle[z] /\ valid'[z] = valid[z] /\ connected'[z] = connected[z]
  BY <1>1, <1>2 DEF PortInv, HandlerTypes
<1> HIDE DEF f, s
<1>7. Entered'
  BY <1>1, <1>3, <1>4, <1>5 DEF ReaderInv, Entered, f
<1>8. Held'
  <2>1. \A g \in DOMAIN known' : /\ handle'[known'[g]] = g /\ valid'[known'[g]] /\ names[open[g]] = known'[g]
                                 /\ connected'[known'[g]] \/ handlerMutex[known'[g]] # Nobody
    BY <1>2, <1>4, <1>5, <1>6 DEF ReaderInv, Held
  <2>2. ASSUME NEW u \in Threads, at'[u] = "close" PROVE handle'[who'[u]] = fd'[u]
    <3>1. at[u] = "close" /\ fd'[u] = fd[u] /\ who'[u] = who[u]
      BY <1>3, <2>2
    <3>2. who[u] \in Sessions /\ handlerMutex[who[u]] = u /\ u # Nobody
      BY <3>1, ThreadFacts DEF PortInv, Placed, Locked
    <3>3. QED
      BY <1>1, <1>6, <3>1, <3>2 DEF ReaderInv, Held
  <2>3. QED
    BY <1>1, <1>3, <2>1, <2>2 DEF Held
<1>9. Signalled'
  BY <1>1 DEF ReaderInv, Signalled
<1>10. QED
  BY <1>7, <1>8, <1>9 DEF ReaderInv

\* The first messages of a connection that is assigned already touch no table.
LEMMA FirstReader ==
    ASSUME Readers = 1, PortInv, ReaderInv, First(0) \/ Reply(0) PROVE ReaderInv'
<1>1. at[0] \in {"first", "reply"} /\ UNCHANGED Quiet
  BY DEF First, Reply, Quiet
<1>2. PICK pc \in {"idle", "end", "reply"}, f \in {0, fd[0]}, s \in {"none", who[0]} : Goes(0, pc, f, s)
  BY DEF First, Reply, Leaves, Ends
<1>3. /\ pc \in Pcs \ {"hand", "assign", "close"} /\ f \in 0..MaxFd /\ 0 \in Threads
      /\ s \in Sessions \cup {"none"}
  BY OneReader, ThreadFacts DEF Pcs, Inside, PortInv, ThreadTypes
<1>4. QED
  BY <1>1, <1>2, <1>3, QuietReader

-----------------------------------------------------------------------------
(* Disconnecting a session, by the reader thread or by the application *)

\* A session whose connection is not valid any more has no entry.
LEMMA BeginEndReader ==
    ASSUME Readers = 1, PortInv, ReaderInv, NEW t \in {0, App}, BeginEnd(t) PROVE ReaderInv'
<1> DEFINE s == who[t]
<1>1. /\ at[t] = "end" /\ handlerMutex[s] = Nobody /\ connected' = [connected EXCEPT ![s] = FALSE]
      /\ UNCHANGED <<tables, valid, batch, sockets, peers>>
  BY DEF BeginEnd
<1>2. t \in Threads /\ t # Nobody /\ s \in Sessions /\ 0 \in 0..MaxFd
      /\ \A g \in DOMAIN known : known[g] \in Sessions /\ g # 0
  BY <1>1, OneReader, ThreadFacts DEF PortInv, Placed, TableTypes
<1>3. \A z \in Sessions : z # s => connected'[z] = connected[z]
  BY <1>1, <1>2 DEF PortInv, HandlerTypes
<1>4. Signalled'
  BY <1>1 DEF ReaderInv, Signalled
<1>5. CASE handle[s] # 0 /\ valid[s]
  <2>1. /\ handlerMutex' = [handlerMutex EXCEPT ![s] = t] /\ Goes(t, "close", handle[s], s) /\ UNCHANGED handle
    BY <1>5 DEF BeginEnd
  <2>2. "close" \in Pcs /\ handle[s] \in 0..MaxFd /\ s \in Sessions \cup {"none"}
    BY <1>2 DEF Pcs, PortInv, HandlerTypes, PeerFds
  <2>3. /\ at'[t] = "close" /\ fd'[t] = handle[s] /\ who'[t] = s
        /\ \A u \in Threads : u # t => at'[u] = at[u] /\ fd'[u] = fd[u] /\ who'[u] = who[u]
    BY <1>2, <2>1, <2>2, GoesFacts DEF PortInv
  <2>4. \A z \in Sessions : handlerMutex'[z] = IF z = s THEN t ELSE handlerMutex[z]
    BY <1>2, <2>1 DEF PortInv, LockTypes
  <2>5. /\ at'[0] \in {"hand", "assign"} => at'[0] = at[0] /\ fd'[0] = fd[0] /\ who'[0] = who[0]
        /\ at[0] \in {"hand", "assign"} => at'[0] = at[0] /\ fd'[0] = fd[0] /\ who'[0] = who[0]
    BY <1>1, <2>3, OneReader, ThreadFacts
  <2> HIDE DEF s
  <2>6. Entered'
    BY <1>1, <2>5 DEF ReaderInv, Entered
  <2>7. Held'
    <3>1. \A g \in DOMAIN known : connected'[known[g]] \/ handlerMutex'[known[g]] # Nobody
      BY <1>2, <1>3, <2>4 DEF ReaderInv, Held
    <3>2. at'[0] = "assign" => /\ names[open[fd[0]]] = who[0] /\ who[0] \in Sessions
                               /\ \A g \in DOMAIN known : known[g] = who[0] => handlerMutex'[who[0]] # Nobody
      <4>1. at[0] = "assign" => who[0] \in Sessions
        BY OneReader DEF PortInv, Placed
      <4>2. QED
        BY <1>2, <2>4, <2>5, <4>1 DEF ReaderInv, Held
    <3>3. \A u \in Threads : at'[u] = "close" => handle[who'[u]] = fd'[u]
      BY <1>2, <2>3 DEF ReaderInv, Held
    <3>4. QED
      BY <1>1, <2>1, <2>5, <3>1, <3>2, <3>3 DEF ReaderInv, Held
  <2>8. QED
    BY <1>4, <2>6, <2>7 DEF ReaderInv
<1>6. CASE ~(handle[s] # 0 /\ valid[s])
  <2>1. handle' = [handle EXCEPT ![s] = 0] /\ Ended(t) /\ UNCHANGED handlerMutex
    BY <1>6 DEF BeginEnd
  <2>2. PICK pc \in {"remove", "idle"}, f \in {0}, z \in Sessions \cup {"none"} : Goes(t, pc, f, z)
    BY <1>2, <2>1 DEF Ended
  <2>3. pc \in Pcs \ {"hand", "assign", "close"}
    BY DEF Pcs, Inside
  <2>4. /\ at'[0] \in {"hand", "assign"} => at[0] = at'[0] /\ fd[0] = fd'[0] /\ who[0] = who'[0]
        /\ at[0] \in {"hand", "assign"} => at[0] = at'[0] /\ fd[0] = fd'[0] /\ who[0] = who'[0]
        /\ \A u \in Threads : at'[u] = "close" => at[u] = "close" /\ fd'[u] = fd[u] /\ who'[u] = who[u]
    BY <1>1, <1>2, <2>2, <2>3, MoveHeld
  <2>5. \A z1 \in Sessions : z1 # s => handle'[z1] = handle[z1]
    BY <1>2, <2>1 DEF PortInv, HandlerTypes
  <2>6. \A g \in DOMAIN known : known[g] # s
    BY <1>2, <1>6 DEF ReaderInv, Held
  <2>7. \A u \in Threads : at[u] = "close" => who[u] \in Sessions /\ who[u] # s
    BY <1>1, ThreadFacts DEF PortInv, Placed, Locked
  <2> HIDE DEF s
  <2>8. Entered'
    BY <1>1, <2>4 DEF ReaderInv, Entered
  <2>9. Held'
    <3>1. \A g \in DOMAIN known : /\ handle'[known[g]] = g /\ valid[known[g]] /\ names[open[g]] = known[g]
                                  /\ connected'[known[g]] \/ handlerMutex[known[g]] # Nobody
      BY <1>2, <1>3, <2>5, <2>6 DEF ReaderInv, Held
    <3>2. \A u \in Threads : at'[u] = "close" => handle'[who'[u]] = fd'[u]
      BY <2>4, <2>5, <2>7 DEF ReaderInv, Held
    <3>3. QED
      BY <1>1, <2>1, <2>4, <3>1, <3>2 DEF ReaderInv, Held
  <2>10. QED
    BY <1>4, <2>8, <2>9 DEF ReaderInv
<1>7. QED
  BY <1>5, <1>6

\* The reader's lock is held, so no connection is being accepted or assigned; whoever
\* has the descriptor by now loses its entry with it.
LEMMA EndCloseReader ==
    ASSUME Readers = 1, PortInv, ReaderInv, NEW t \in {0, App}, EndClose(t) PROVE ReaderInv'
<1> DEFINE f == fd[t]  s == who[t]
<1>1. /\ at[t] = "close" /\ Lockable(t, f) /\ Disconnect(f) /\ Ended(t)
      /\ handle' = [handle EXCEPT ![s] = 0] /\ handlerMutex' = [handlerMutex EXCEPT ![s] = Nobody]
      /\ UNCHANGED <<batch, peers>>
  BY DEF EndClose
<1>2. t \in Threads /\ s \in Sessions /\ f \in PeerFds /\ f \in Fds /\ 0 \in ReaderThreads
  BY <1>1, OneReader, ThreadFacts DEF PortInv, Placed
<1>3. t = 0 \/ at[0] \notin {"hand", "assign"}
  <2>1. readerMutex[0] \in {Nobody, t}
    BY <1>1, <1>2, OneReader DEF Lockable
  <2>2. QED
    BY <1>2, <2>1, ThreadFacts DEF PortInv, Locked, Inside, LockTypes
<1>4. PICK pc \in {"remove", "idle"}, z \in Sessions \cup {"none"} : Goes(t, pc, 0, z)
  BY <1>1, <1>2 DEF Ended
<1>5. /\ at'[t] = pc
      /\ \A u \in Threads : u # t => at'[u] = at[u] /\ fd'[u] = fd[u] /\ who'[u] = who[u]
  <2>1. pc \in Pcs /\ 0 \in 0..MaxFd
    BY DEF Pcs
  <2>2. QED
    BY <1>2, <1>4, <2>1, GoesFacts DEF PortInv
<1>6. at'[0] \notin {"hand", "assign"}
  BY <1>2, <1>3, <1>5, ThreadFacts
<1>7. /\ DOMAIN known' = DOMAIN known \ {f} /\ DOMAIN unknown' = DOMAIN unknown \ {f}
      /\ DOMAIN open' = DOMAIN open \ {f} /\ listening' = listening
      /\ watched' = watched \ {f} /\ edges' = edges \ {f}
      /\ \A g \in DOMAIN known' : known'[g] = known[g]
      /\ \A g \in DOMAIN open' : open'[g] = open[g]
      /\ \A g \in DOMAIN known' : valid'[known[g]] /\ connected'[known[g]] = connected[known[g]]
  BY <1>1, <1>2, DisconnectReader
<1>8. /\ \A z1 \in Sessions : z1 # s => handle'[z1] = handle[z1] /\ handlerMutex'[z1] = handlerMutex[z1]
      /\ \A g \in DOMAIN known : known[g] \in Sessions
  BY <1>1, <1>2 DEF PortInv, HandlerTypes, LockTypes, TableTypes
<1>9. \A g \in DOMAIN known' : g \in DOMAIN known /\ known[g] # s
  BY <1>1, <1>2, <1>7 DEF ReaderInv, Held
<1>10. \A u \in Threads : u # t /\ at[u] = "close" => who[u] \in Sessions /\ who[u] # s
  BY <1>1, <1>2, ThreadFacts DEF PortInv, Placed, Locked
<1> HIDE DEF f, s
<1>11. Entered'
  <2>1. \A g \in DOMAIN open' : g \in DOMAIN known \/ g \in DOMAIN unknown
    BY <1>1, <1>2, <1>3, <1>7 DEF ReaderInv, Entered
  <2>2. \A g \in DOMAIN open' : g \in watched
    BY <1>1, <1>2, <1>3, <1>7 DEF ReaderInv, Entered
  <2>3. QED
    BY <1>6, <1>7, <2>1, <2>2 DEF ReaderInv, Entered
<1>12. Held'
  <2>1. \A g \in DOMAIN known' : /\ handle'[known'[g]] = g /\ valid'[known'[g]] /\ names'[open'[g]] = known'[g]
                                 /\ connected'[known'[g]] \/ handlerMutex'[known'[g]] # Nobody
    <3>1. names' = names /\ \A g \in DOMAIN known' : open'[g] = open[g]
      BY <1>1, <1>7 DEF ReaderInv, Entered
    <3>2. QED
      BY <1>7, <1>8, <1>9, <3>1 DEF ReaderInv, Held
  <2>2. \A u \in Threads : at'[u] = "close" => handle'[who'[u]] = fd'[u]
    BY <1>5, <1>8, <1>10 DEF ReaderInv, Held
  <2>3. QED
    BY <1>6, <2>1, <2>2 DEF Held
<1>13. Signalled'
  BY <1>1, <1>7 DEF ReaderInv, Signalled
<1>14. QED
  BY <1>11, <1>12, <1>13 DEF ReaderInv

-----------------------------------------------------------------------------
(* The application and the update thread *)

\* Session::stop begins with the session's own flag, and start takes it back.
LEMMA StopReader ==
    ASSUME Readers = 1, PortInv, ReaderInv, NEW s \in Sessions, Stop(s) \/ Start(s) PROVE ReaderInv'
<1>1. at[App] = "idle" /\ UNCHANGED Quiet
  BY DEF Stop, Start, Quiet
<1>2. CASE UNCHANGED threads
  BY <1>1, <1>2 DEF Quiet, ReaderInv, Entered, Held, Signalled
<1>3. CASE Goes(App, "end", 0, s)
  <2>1. "end" \in Pcs \ {"hand", "assign", "close"} /\ 0 \in 0..MaxFd /\ App \in Threads
    BY ThreadFacts DEF Pcs, Inside
  <2>2. QED
    BY <1>1, <1>3, <2>1, QuietReader
<1>4. QED
  BY <1>2, <1>3 DEF Stop, Start

\* Closing the port closes no connection.
LEMMA RemoveReader ==
    ASSUME Readers = 1, PortInv, ReaderInv, RemoveAcceptor(App) PROVE ReaderInv'
<1>1. /\ at[App] = "remove" /\ Goes(App, "idle", 0, "none") /\ known' = known
      /\ UNCHANGED <<handlers, handlerMutex, batch, names, unread, gone>>
  BY DEF RemoveAcceptor
<1>2. "idle" \in Pcs \ {"hand", "assign", "close"} /\ 0 \in 0..MaxFd /\ App \in Threads
  BY ThreadFacts DEF Pcs
<1>3. /\ at'[0] \in {"hand", "assign"} => at[0] = at'[0] /\ fd[0] = fd'[0] /\ who[0] = who'[0]
      /\ at[0] \in {"hand", "assign"} => at[0] = at'[0] /\ fd[0] = fd'[0] /\ who[0] = who'[0]
      /\ \A u \in Threads : at'[u] = "close" => at[u] = "close" /\ fd'[u] = fd[u] /\ who'[u] = who[u]
  BY <1>1, <1>2, MoveHeld
<1>4. CASE ClosePort /\ acceptor # 0
  <2>1. acceptor = 1 /\ 1 \notin DOMAIN open
    BY <1>4, ThreadFacts DEF PortInv, TableTypes, SocketTypes
  <2>2. /\ DOMAIN unknown' = DOMAIN unknown /\ open' = Without(open, 1) /\ listening' = listening \ {1}
        /\ watched' = watched \ {1} /\ edges' = edges \ {1}
    BY <1>4, <2>1 DEF ClosePort, CloseFd
  <2>3. DOMAIN open' = DOMAIN open /\ \A g \in DOMAIN open : open'[g] = open[g]
    BY <2>1, <2>2 DEF Without, Restrict
  <2>4. Entered'
    BY <1>1, <1>3, <2>1, <2>2, <2>3 DEF ReaderInv, Entered
  <2>5. Held'
    BY <1>1, <1>3, <2>3 DEF ReaderInv, Entered, Held
  <2>6. Signalled'
    BY <1>1, <2>1, <2>2, <2>3 DEF ReaderInv, Signalled
  <2>7. QED
    BY <2>4, <2>5, <2>6 DEF ReaderInv
<1>5. CASE UNCHANGED <<unknown, sockets>>
  <2>1. UNCHANGED Quiet
    BY <1>1, <1>5 DEF Quiet
  <2>2. QED
    BY <1>1, <1>2, <2>1, QuietReader
<1>6. QED
  BY <1>4, <1>5 DEF RemoveAcceptor

\* The update of an unconnected acceptor session only looks at the port.
LEMMA LookReader ==
    ASSUME Readers = 1, PortInv, ReaderInv, (\E s \in Sessions : Look(s)) \/ HasAcceptor PROVE ReaderInv'
<1>1. at[Update] \in {"idle", "look"} /\ UNCHANGED Quiet
  BY DEF Look, HasAcceptor, Quiet
<1>2. PICK pc \in {"idle", "look", "add"}, s \in Sessions \cup {"none"} : Goes(Update, pc, 0, s)
  BY <1>1, ThreadFacts DEF Look, HasAcceptor, PortInv, ThreadTypes
<1>3. pc \in Pcs \ {"hand", "assign", "close"} /\ 0 \in 0..MaxFd /\ Update \in Threads
  BY ThreadFacts DEF Pcs, Inside
<1>4. QED
  BY <1>1, <1>2, <1>3, QuietReader

\* Opening the port touches no connection.
LEMMA ListenReader ==
    ASSUME Readers = 1, PortInv, ReaderInv, PortInv', Listen \/ Register PROVE ReaderInv'
<1>1. /\ at[Update] \in {"add", "register"} /\ listening \subseteq listening'
      /\ UNCHANGED <<unknown, known, handlers, handlerMutex, batch, open, peers>>
  BY DEF Listen, Register
<1>2. PICK pc \in {"idle", "register"}, f \in {0, 1}, s \in Sessions \cup {"none"} : Goes(Update, pc, f, s)
  <2>1. who[Update] \in Sessions \cup {"none"}
    BY ThreadFacts DEF PortInv, ThreadTypes
  <2>2. acceptor' \in {0, 1}
    BY DEF PortInv, TableTypes
  <2>3. QED
    BY <2>1, <2>2 DEF Listen, Register
<1>3. pc \in Pcs \ {"hand", "assign", "close"} /\ f \in 0..MaxFd /\ Update \in Threads
  BY ThreadFacts DEF Pcs, Inside
<1>4. /\ at'[0] \in {"hand", "assign"} => at[0] = at'[0] /\ fd[0] = fd'[0] /\ who[0] = who'[0]
      /\ at[0] \in {"hand", "assign"} => at[0] = at'[0] /\ fd[0] = fd'[0] /\ who[0] = who'[0]
      /\ \A u \in Threads : at'[u] = "close" => at[u] = "close" /\ fd'[u] = fd[u] /\ who'[u] = who[u]
  BY <1>1, <1>2, <1>3, MoveHeld
<1>5. /\ watched \subseteq watched' /\ watched' \subseteq watched \cup listening' /\ edges \subseteq edges'
      /\ listening' \cap DOMAIN open = {}
  <2>1. CASE Listen
    BY <2>1, ThreadFacts DEF Listen, PortInv, SocketTypes
  <2>2. CASE Register
    <3>1. fd[Update] = 1 /\ listening = {1} /\ listening' = listening /\ 1 \notin DOMAIN open
      BY <2>2, ThreadFacts DEF Register, PortInv, Placed, Port, SocketTypes
    <3>2. QED
      BY <2>2, <3>1 DEF Register, Watch
  <2>3. QED
    BY <2>1, <2>2
<1>6. Entered'
  BY <1>1, <1>4, <1>5 DEF ReaderInv, Entered
<1>7. Held'
  BY <1>1, <1>4 DEF ReaderInv, Held
<1>8. Signalled'
  <2>1. \A f1 \in DOMAIN open : f1 \in watched' => f1 \in watched
    BY <1>5
  <2>2. QED
    BY <1>1, <1>5, <2>1 DEF ReaderInv, Signalled
<1>9. QED
  BY <1>6, <1>7, <1>8 DEF ReaderInv

\* With one reader thread every step keeps every connection where it should be.
LEMMA ReaderStep ==
    Readers = 1 /\ PortInv /\ PortInv' /\ ReaderInv /\ [Next]_vars => ReaderInv'
<1> SUFFICES ASSUME Readers = 1, PortInv, PortInv', ReaderInv, [Next]_vars PROVE ReaderInv'
  OBVIOUS
<1>1. ASSUME NEW r \in ReaderThreads, EpollWait(r) \/ Tick(r) \/ Handle(r) PROVE ReaderInv'
  <2>1. r = 0 /\ r \in {0, App}
    BY OneReader
  <2>2. QED
    BY <1>1, <2>1, EpollWaitReader, TickReader, HangUpReader, ReadKnownReader, ReadListenerReader,
       ReadUnknownReader, ReadStrayReader, AcceptReader, HandOverReader, AssignReader, FirstReader,
       BeginEndReader, EndCloseReader DEF Handle
<1>2. CASE Applies \/ Updates
  BY <1>2, BeginEndReader, EndCloseReader, RemoveReader, LookReader, ListenReader DEF Applies, Updates
<1>3. CASE UNCHANGED vars
  BY <1>3 DEF vars, ReaderInv, Entered, Held, Signalled
<1>4. QED
  BY <1>1, <1>2, <1>3, DialReader, ClientReader, StopReader, LookReader DEF Next

-----------------------------------------------------------------------------
(* What it comes to *)

\* Every connection is where it should be, in every state that is reached.
LEMMA ReaderInvariant ==
    ASSUME Readers = 1
    PROVE  Spec => [](PortInv /\ ReaderInv)
<1>1. Init => ReaderInv
  BY ReaderInit
<1>2. PortInv /\ PortInv' /\ ReaderInv /\ [Next]_vars => ReaderInv'
  BY ReaderStep
<1>3. QED
  BY <1>1, <1>2, PortInvariant, PTL DEF Spec

\* The locks are held exactly where the code is in their scope, and only sockets that
\* are open are watched, whatever is closed meanwhile and its descriptor used again.
THEOREM TypeCorrect ==
    ASSUME Readers = 1
    PROVE  Spec => []TypeOK
<1>1. PortInv /\ ReaderInv => TypeOK
  <2> SUFFICES ASSUME PortInv, ReaderInv PROVE TypeOK
    OBVIOUS
  <2>1. /\ acceptor \in 0..MaxFd /\ DOMAIN listeners \subseteq Fds
        /\ \A f \in DOMAIN listeners : listeners[f] \subseteq Sessions
    BY ThreadFacts DEF PortInv, TableTypes
  <2>2. /\ DOMAIN unknown \subseteq Fds /\ \A f \in DOMAIN unknown : unknown[f] \in 0..MaxFd
        /\ DOMAIN known \subseteq Fds /\ \A f \in DOMAIN known : known[f] \in Sessions
    BY ThreadFacts DEF PortInv, TableTypes
  <2>3. /\ handle \in [Sessions -> 0..MaxFd]
        /\ {valid, connected, enabled, stopped} \subseteq [Sessions -> BOOLEAN]
        /\ starts \in 0..MaxStarts
    <3>1. {0} \cup PeerFds \subseteq 0..MaxFd
      BY DEF PeerFds
    <3>2. QED
      BY <3>1 DEF PortInv, HandlerTypes
  <2>4. Locked
    BY DEF PortInv
  <2>5. \A r \in ReaderThreads : batch[r] \subseteq Fds \X {"read", "hangup"}
    BY DEF PortInv, ThreadTypes
  <2>6. /\ listening \subseteq Fds /\ DOMAIN open \subseteq Fds \ listening
        /\ edges \subseteq watched /\ watched \subseteq listening \cup DOMAIN open
    BY ThreadFacts DEF PortInv, SocketTypes, ReaderInv, Entered
  <2>7. /\ backlog \in Seq(Peers) /\ names \in Seq(Sessions)
        /\ unread \cup gone \subseteq Peers
    BY DEF PortInv, PeerTypes, SocketTypes
  <2>8. QED
    BY <2>1, <2>2, <2>3, <2>4, <2>5, <2>6, <2>7 DEF TypeOK, Locked
<1>2. QED
  BY <1>1, ReaderInvariant, PTL

\* A second logon of a session is refused whatever stops, closes and starts it
\* meanwhile: between isConnected and addConnection the session cannot get another
\* connection, and the one it has is what its handler would close.
THEOREM ConnectsOnce ==
    ASSUME Readers = 1
    PROVE  Spec => []OneConnection
<1>1. PortInv /\ ReaderInv => OneConnection
  BY DEF ReaderInv, Entered, Held, OneConnection
<1>2. QED
  BY <1>1, ReaderInvariant, PTL

\* An accepted connection is served or closed: it has an entry, and every datum and end
\* that was not handled is an event that epoll has reported or will.
THEOREM ForgetsNothing ==
    ASSUME Readers = 1
    PROVE  Spec => []NothingForgotten
<1>1. PortInv /\ ReaderInv => NothingForgotten
  <2> SUFFICES ASSUME PortInv, ReaderInv, NEW f \in DOMAIN open
               PROVE  /\ f \in DOMAIN known \cup DOMAIN unknown \/ InHand(f)
                      /\ open[f] \in unread \cup gone => Reported(f) \/ InHand(f)
    BY DEF NothingForgotten
  <2>1. 0 \in ReaderThreads
    BY OneReader
  <2>2. at[0] \in {"hand", "assign"} /\ fd[0] = f => InHand(f)
    BY <2>1 DEF InHand, Inside
  <2>3. \A k : <<f, k>> \in batch[0] => Reported(f)
    <3>1. ASSUME NEW k, <<f, k>> \in batch[0] PROVE f \in {e[1] : e \in batch[0]}
      BY <3>1
    <3>2. QED
      BY <2>1, <3>1 DEF Reported
  <2>4. f \in edges => Reported(f)
    BY DEF Reported
  <2>5. QED
    BY <2>2, <2>3, <2>4 DEF ReaderInv, Entered, Signalled
<1>2. QED
  BY <1>1, ReaderInvariant, PTL

================================================================================
