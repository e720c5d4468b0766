-------------------------- MODULE ServerPollProofs --------------------------
(* What a dispatch of a server never does, for any number of peers, whatever  *)
(* its callbacks add and remove, and however deep they dispatch again.        *)
EXTENDS ServerPoll, TLAPS

Fds == Clients \cup {Invalid}
PollFd == [fd : Fds, revents : SUBSET {"IN", "HUP"}]

(* A peer has one place: in the backlog, or in m_clients.                     *)
PeersInv ==
    /\ \A i \in DOMAIN backlog : backlog[i] \in met
    /\ \A i \in DOMAIN clients : clients[i] \in met \cup {Invalid}
    /\ \A i, j \in DOMAIN backlog : i # j => backlog[i] # backlog[j]
    /\ \A i, j \in DOMAIN clients : i # j /\ clients[i] # Invalid => clients[i] # clients[j]
    /\ \A i \in DOMAIN backlog, j \in DOMAIN clients : backlog[i] # clients[j]

(* All dispatches but the innermost are in a callback.                        *)
Suspended == \A k \in 1..(Len(stack) - 1) : stack[k].at = "called"

(* What m_pollfds says is ready from place k on is ready.                     *)
Ready(k) == "IN" \in pollfds[k].revents
FreshFrom(k) == \A j \in DOMAIN pollfds : j >= k /\ Ready(j) => Readable(clients[j])

(* A pass that found nothing leaves m_pollfds without anything ready: the     *)
(* dispatch that it interrupted has nothing stale to go on with.              *)
FreshInv ==
    stack # <<>> =>
        /\ Top.at = "pass" =>
            /\ FreshFrom(Top.i)
            /\ ~Top.hadAny => \A j \in DOMAIN pollfds : j < Top.i => ~Ready(j)
        /\ Top.at \in {"called", "after"} => FreshFrom(Top.i + 1)

PassInv == Suspended /\ Aligned /\ FreshInv

(* Peers that send no descriptors have said everything when they are dropped: *)
(* whoever was found hung up was also found readable, and the read took all.  *)
BytesOnly == \A c \in Clients : unread[c] \in Seq({"bytes"})
HangupsInv ==
    \A j \in DOMAIN pollfds :
        "HUP" \in pollfds[j].revents => Ready(j) /\ pollfds[j].fd \in hungup
DrainedInv ==
    stack # <<>> /\ Top.at \in {"called", "after"} /\ Top.i \in DOMAIN pollfds =>
        ("HUP" \in pollfds[Top.i].revents => unread[clients[Top.i]] = <<>>)
WordsInv == BytesOnly /\ HangupsInv /\ DrainedInv /\ LastWordsRead

-----------------------------------------------------------------------------
(* Lemmas about the sequences.                                                *)

(* Appending keeps the elements and adds one behind them.                     *)
LEMMA AppendShape ==
    ASSUME NEW S, NEW s \in Seq(S), NEW x \in S
    PROVE  /\ Append(s, x) \in Seq(S)
           /\ Append(s, x) # <<>>
           /\ DOMAIN s = 1..Len(s) /\ Len(s) \in Nat
           /\ Len(Append(s, x)) = Len(s) + 1
           /\ DOMAIN Append(s, x) = 1..(Len(s) + 1)
           /\ \A i \in DOMAIN s : Append(s, x)[i] = s[i]
           /\ Append(s, x)[Len(s) + 1] = x
  OBVIOUS

(* Removing an element moves those behind it one place to the front.          *)
LEMMA RemoveShape ==
    ASSUME NEW S, NEW s \in Seq(S), NEW i \in DOMAIN s
    PROVE  /\ RemoveAt(s, i) \in Seq(S)
           /\ DOMAIN s = 1..Len(s) /\ Len(s) \in Nat
           /\ DOMAIN RemoveAt(s, i) = 1..(Len(s) - 1)
           /\ \A j \in 1..(Len(s) - 1) : RemoveAt(s, i)[j] = IF j < i THEN s[j] ELSE s[j + 1]
<1> DEFINE before == SubSeq(s, 1, i - 1)
           after == SubSeq(s, i + 1, Len(s))
<1>1. /\ before \in Seq(S) /\ Len(before) = i - 1
      /\ after \in Seq(S) /\ Len(after) = Len(s) - i
      /\ \A j \in 1..(i - 1) : before[j] = s[j]
      /\ \A j \in 1..(Len(s) - i) : after[j] = s[j + i]
  OBVIOUS
<1>2. RemoveAt(s, i) = before \o after
  BY DEF RemoveAt
<1>3. /\ before \o after \in Seq(S) /\ Len(before \o after) = Len(s) - 1
      /\ \A j \in 1..(Len(s) - 1) :
            (before \o after)[j] = IF j <= i - 1 THEN before[j] ELSE after[j - (i - 1)]
  <2> HIDE DEF before, after
  <2> QED BY <1>1, SMTT(30)
<1>4. ASSUME NEW j \in 1..(Len(s) - 1), j >= i
      PROVE  after[j - (i - 1)] = s[j + 1]
  <2>1. j - (i - 1) \in 1..(Len(s) - i) /\ j - (i - 1) + i = j + 1
    BY <1>4
  <2> HIDE DEF before, after
  <2> QED BY <2>1, <1>1
<1>5. ASSUME NEW j \in 1..(Len(s) - 1)
      PROVE  RemoveAt(s, i)[j] = IF j < i THEN s[j] ELSE s[j + 1]
  <2> HIDE DEF before, after
  <2>1. CASE j < i
    BY <2>1, <1>1, <1>2, <1>3
  <2>2. CASE j >= i
    BY <2>2, <1>2, <1>3, <1>4
  <2> QED BY <2>1, <2>2
<1>6. DOMAIN s = 1..Len(s) /\ Len(s) \in Nat
  OBVIOUS
<1>7. RemoveAt(s, i) \in Seq(S) /\ DOMAIN RemoveAt(s, i) = 1..(Len(s) - 1)
  <2> HIDE DEF before, after
  <2> QED BY <1>2, <1>3
<1> QED BY <1>5, <1>6, <1>7

(* A function on 1..n is a sequence of length n.                              *)
LEMMA TableShape ==
    ASSUME NEW S, NEW n \in Nat, NEW f \in [1..n -> S]
    PROVE  f \in Seq(S) /\ Len(f) = n /\ DOMAIN f = 1..n
  OBVIOUS

(* recheckPollFds: as long as m_clients, the same descriptors, nothing ready. *)
LEMMA RebuiltShape ==
    ASSUME NEW list \in Seq(Fds)
    PROVE  /\ RecheckPollFds(list) \in Seq(PollFd)
           /\ Len(RecheckPollFds(list)) = Len(list)
           /\ DOMAIN RecheckPollFds(list) = DOMAIN list
           /\ \A j \in DOMAIN list : RecheckPollFds(list)[j] = [fd |-> list[j], revents |-> {}]
<1>1. RecheckPollFds(list) \in [1..Len(list) -> PollFd]
  BY DEF RecheckPollFds, PollFd
<1>2. Len(list) \in Nat /\ DOMAIN list = 1..Len(list)
  OBVIOUS
<1> QED BY <1>1, <1>2, TableShape DEF RecheckPollFds

(* poll() sets what is ready and leaves the descriptors.                      *)
LEMMA PolledShape ==
    ASSUME NEW fds \in Seq(PollFd)
    PROVE  /\ Polled(fds) \in Seq(PollFd)
           /\ Len(Polled(fds)) = Len(fds)
           /\ DOMAIN Polled(fds) = DOMAIN fds
           /\ \A j \in DOMAIN fds :
                 Polled(fds)[j].fd = fds[j].fd /\ Polled(fds)[j].revents = Revents(fds[j].fd)
<1>1. Len(fds) \in Nat /\ DOMAIN fds = 1..Len(fds)
  OBVIOUS
<1>2. ASSUME NEW j \in 1..Len(fds)
      PROVE  /\ [fds[j] EXCEPT !.revents = Revents(fds[j].fd)] \in PollFd
             /\ Polled(fds)[j].fd = fds[j].fd /\ Polled(fds)[j].revents = Revents(fds[j].fd)
  <2>1. fds[j] \in PollFd
    OBVIOUS
  <2>2. Revents(fds[j].fd) \in SUBSET {"IN", "HUP"}
    BY DEF Revents
  <2>3. Polled(fds)[j] = [fds[j] EXCEPT !.revents = Revents(fds[j].fd)]
    BY DEF Polled
  <2> HIDE DEF Revents
  <2> QED BY <2>1, <2>2, <2>3 DEF PollFd
<1>3. Polled(fds) \in [1..Len(fds) -> PollFd]
  BY <1>2 DEF Polled
<1> QED BY <1>1, <1>2, <1>3, TableShape

(* The innermost dispatch changes its place, the others stay.                 *)
LEMMA WithTopShape ==
    ASSUME stack \in Seq(Frame), stack # <<>>, NEW frame \in Frame
    PROVE  /\ WithTop(frame) \in Seq(Frame) /\ WithTop(frame) # <<>>
           /\ Len(WithTop(frame)) = Len(stack) /\ Len(stack) \in Nat \ {0}
           /\ WithTop(frame)[Len(stack)] = frame
           /\ \A k \in 1..(Len(stack) - 1) : WithTop(frame)[k] = stack[k]
  BY DEF WithTop

LEMMA FrontShape ==
    ASSUME NEW S, NEW s \in Seq(S), NEW i \in DOMAIN s
    PROVE  /\ SubSeq(s, 1, i - 1) \in Seq(S) /\ Len(SubSeq(s, 1, i - 1)) = i - 1
           /\ \A k \in 1..(i - 1) : SubSeq(s, 1, i - 1)[k] = s[k]
  OBVIOUS

(* A dispatch that returns uncovers the one it interrupted.                   *)
LEMMA PopShape ==
    ASSUME stack \in Seq(Frame), stack # <<>>
    PROVE  /\ Pop \in Seq(Frame) /\ Len(Pop) = Len(stack) - 1
           /\ Len(stack) \in Nat \ {0}
           /\ \A k \in 1..(Len(stack) - 1) : Pop[k] = stack[k]
           /\ Pop # <<>> => Len(Pop) \in 1..(Len(stack) - 1)
<1>1. /\ Pop \in Seq(Frame) /\ Len(Pop) = Len(stack) - 1
      /\ Len(stack) \in Nat \ {0}
      /\ \A k \in 1..(Len(stack) - 1) : Pop[k] = stack[k]
  <2>1. Len(stack) \in DOMAIN stack /\ Len(stack) \in Nat \ {0}
    OBVIOUS
  <2> QED BY <2>1, FrontShape DEF Pop
<1> HIDE DEF Pop
<1>2. Pop # <<>> => Len(Pop) # 0
  BY <1>1
<1> QED BY <1>1, <1>2

(* What the innermost dispatch is.                                            *)
LEMMA TopShape ==
    ASSUME stack \in Seq(Frame), stack # <<>>
    PROVE  /\ Top \in Frame /\ Begin \in Frame
           /\ Len(stack) \in 1..Len(stack)
           /\ Top.i \in Nat \ {0} /\ Top.client \in Fds
           /\ Top.hadAny \in BOOLEAN /\ Top.recheck \in BOOLEAN
           /\ Top.at \in {"poll", "pass", "called", "after", "erase"}
<1>1. Len(stack) \in 1..Len(stack)
  OBVIOUS
<1>2. Top \in Frame
  BY <1>1 DEF Top
<1>3. Begin \in Frame
  BY DEF Begin, Frame
<1> QED BY <1>1, <1>2, <1>3 DEF Frame, Fds

(* A frame whose place changes is a frame.                                    *)
LEMMA FrameMoves ==
    ASSUME NEW f \in Frame, NEW at \in {"poll", "pass", "called", "after", "erase"}
    PROVE  /\ [f EXCEPT !.at = at] \in Frame
           /\ \A c \in Fds : [f EXCEPT !.at = at, !.client = c] \in Frame
           /\ \A i \in Nat \ {0} : [f EXCEPT !.i = i] \in Frame
           /\ \A i \in Nat \ {0}, b \in BOOLEAN :
                [f EXCEPT !.at = at, !.i = i, !.hadAny = TRUE, !.recheck = b] \in Frame
<1>1. [f EXCEPT !.at = at] \in Frame
  BY DEF Frame
<1>2. ASSUME NEW c \in Fds PROVE [f EXCEPT !.at = at, !.client = c] \in Frame
  BY DEF Frame, Fds
<1>3. ASSUME NEW i \in Nat \ {0} PROVE [f EXCEPT !.i = i] \in Frame
  BY DEF Frame
<1>4. ASSUME NEW i \in Nat \ {0}, NEW b \in BOOLEAN
      PROVE  [f EXCEPT !.at = at, !.i = i, !.hadAny = TRUE, !.recheck = b] \in Frame
  BY DEF Frame
<1> QED BY <1>1, <1>2, <1>3, <1>4

-----------------------------------------------------------------------------
(* Type correctness.                                                          *)

LEMMA PollStarts == ServerPollInit => ServerPollTypeOK
<1>1. \A S : <<>> \in Seq(S)
  OBVIOUS
<1> QED BY <1>1 DEF ServerPollInit, ServerPollTypeOK

LEMMA EnvironmentType ==
    ASSUME ServerPollTypeOK, Environment
    PROVE  ServerPollTypeOK'
<1> USE DEF ServerPollTypeOK, listVars, errorVars
<1>1. ASSUME NEW c \in Clients, PeerConnects(c) PROVE ServerPollTypeOK'
  BY <1>1 DEF PeerConnects
<1>2. ASSUME NEW c \in Clients, PeerHangsUp(c) PROVE ServerPollTypeOK'
  BY <1>2 DEF PeerHangsUp
<1>3. ASSUME NEW c \in Clients, NEW chunk \in {"bytes", "fds"}, PeerSends(c, chunk)
      PROVE  ServerPollTypeOK'
  <2>1. Append(unread[c], chunk) \in Seq({"bytes", "fds"})
    OBVIOUS
  <2> QED BY <1>3, <2>1 DEF PeerSends
<1>4. CASE DescriptorsRunOut
  BY <1>4 DEF DescriptorsRunOut
<1> QED BY <1>1, <1>2, <1>3, <1>4 DEF Environment

LEMMA ApplicationType ==
    ASSUME ServerPollTypeOK, Application
    PROVE  ServerPollTypeOK'
<1> USE DEF ServerPollTypeOK, socketVars, listVars, errorVars
<1>1. ASSUME NEW c \in Clients, AddClient(c) PROVE ServerPollTypeOK'
  <2>1. clients' \in Seq(Fds)
    BY <1>1 DEF AddClient, Fds
  <2>2. pollfds' \in Seq(PollFd)
    BY <1>1, <2>1, RebuiltShape DEF AddClient
  <2> QED BY <1>1, <2>1, <2>2 DEF AddClient, Fds, PollFd
<1>2. ASSUME NEW c \in Clients, RemoveClient(c) PROVE ServerPollTypeOK'
  <2>1. PICK i \in DOMAIN clients : clients' = RemoveAt(clients, i)
    BY <1>2 DEF RemoveClient
  <2>2. clients' \in Seq(Fds)
    BY <2>1, RemoveShape DEF Fds
  <2>3. pollfds' \in Seq(PollFd)
    BY <1>2, <2>2, RebuiltShape DEF RemoveClient
  <2> QED BY <1>2, <2>2, <2>3 DEF RemoveClient, Fds, PollFd
<1>3. CASE DispatchEvents
  <2>1. Begin \in Frame
    BY DEF Begin, Frame
  <2> QED BY <1>3, <2>1, AppendShape DEF DispatchEvents
<1>4. CASE CallbackReturns \/ CallbackFails
  <2>1. stack # <<>> /\ stack' = WithTop([Top EXCEPT !.at = "after"])
    BY <1>4 DEF CallbackReturns, CallbackFails, In
  <2>2. [Top EXCEPT !.at = "after"] \in Frame
    BY <2>1, TopShape DEF Frame
  <2>3. stack' \in Seq(Frame) /\ Top.client \in Fds
    BY <2>1, <2>2, WithTopShape, TopShape
  <2> QED BY <1>4, <2>3 DEF CallbackReturns, CallbackFails, Fds
<1> QED BY <1>1, <1>2, <1>3, <1>4 DEF Application

(* What a read leaves of a socket.                                            *)
LEMMA AfterReadType ==
    ASSUME NEW chunks \in Seq({"bytes", "fds"})
    PROVE  AfterRead(chunks) \in Seq({"bytes", "fds"})
<1>1. CASE \E k \in DOMAIN chunks : FirstFds(chunks, k)
  <2> DEFINE k == CHOOSE k \in DOMAIN chunks : FirstFds(chunks, k)
  <2>1. k \in DOMAIN chunks
    BY <1>1
  <2>2. AfterRead(chunks) = SubSeq(chunks, k + 1, Len(chunks))
    BY <1>1 DEF AfterRead
  <2> HIDE DEF k
  <2> QED BY <2>1, <2>2
<1>2. CASE ~\E k \in DOMAIN chunks : FirstFds(chunks, k)
  BY <1>2 DEF AfterRead
<1> QED BY <1>1, <1>2

LEMMA LibraryType ==
    ASSUME ServerPollTypeOK, Library
    PROVE  ServerPollTypeOK'
<1> USE DEF ServerPollTypeOK, socketVars, listVars, errorVars
<1>1. ASSUME NEW fd \in Fds, Accepts(fd) PROVE clients' \in Seq(Fds) /\ pollfds' \in Seq(PollFd)
  <2>1. clients' \in Seq(Fds)
    BY <1>1 DEF Accepts, Fds
  <2> QED BY <1>1, <2>1, RebuiltShape DEF Accepts
<1>2. CASE Accept
  <2>1. Head(backlog) \in Clients /\ Tail(backlog) \in Seq(Clients)
    BY <1>2 DEF Accept
  <2>2. clients' \in Seq(Fds) /\ pollfds' \in Seq(PollFd)
    BY <1>1, <1>2, <2>1 DEF Accept, Fds
  <2> QED BY <1>2, <2>1, <2>2 DEF Accept, Accepts, Fds, PollFd
<1>3. CASE AcceptFails
  <2>1. clients' \in Seq(Fds) /\ pollfds' \in Seq(PollFd)
    BY <1>1, <1>3 DEF AcceptFails, Fds
  <2> QED BY <1>3, <2>1 DEF AcceptFails, Accepts, Fds, PollFd
<1>4. CASE Poll
  <2>1. stack # <<>>
    BY <1>4 DEF Poll, In
  <2>2. [Begin EXCEPT !.at = "pass"] \in Frame
    BY <2>1, TopShape, FrameMoves
  <2>3. stack' \in Seq(Frame)
    BY <1>4, <2>1, <2>2, WithTopShape DEF Poll
  <2>4. pollfds' \in Seq(PollFd)
    BY <1>4, PolledShape DEF Poll, PollFd, Fds
  <2> QED BY <1>4, <2>3, <2>4 DEF Poll, PollFd, Fds
<1>5. CASE PassesOver
  <2>1. stack # <<>>
    BY <1>5 DEF PassesOver, Looks, In
  <2>2. ASSUME NEW i, i = Top.i + 1 PROVE [Top EXCEPT !.i = i] \in Frame
    <3>1. Top \in Frame /\ i \in Nat \ {0}
      BY <2>1, <2>2, TopShape
    <3> QED BY <3>1, FrameMoves
  <2>3. stack' \in Seq(Frame)
    BY <1>5, <2>1, <2>2, WithTopShape DEF PassesOver
  <2> QED BY <1>5, <2>3 DEF PassesOver
<1>6. ASSUME NEW place \in {"called", "after"}, Reads(place)
      PROVE  /\ stack' \in Seq(Frame) /\ unread' \in [Clients -> Seq({"bytes", "fds"})]
             /\ found' \subseteq Clients /\ clients[Top.i] \in Clients
  <2>1. stack # <<>> /\ Top.i <= Len(clients)
    BY <1>6 DEF Reads, Looks, In
  <2>2. clients[Top.i] \in Fds /\ clients[Top.i] # Invalid
    BY <1>6, <2>1, TopShape DEF Reads, Fds
  <2>3. [Top EXCEPT !.at = place, !.client = clients[Top.i]] \in Frame
    BY <2>1, <2>2, TopShape DEF Frame, Fds
  <2>4. stack' \in Seq(Frame)
    BY <1>6, <2>1, <2>3, WithTopShape DEF Reads
  <2>5. clients[Top.i] \in Clients
    BY <2>2 DEF Fds
  <2>6. AfterRead(unread[clients[Top.i]]) \in Seq({"bytes", "fds"})
    BY <2>5, AfterReadType
  <2>7. unread' \in [Clients -> Seq({"bytes", "fds"})]
    BY <1>6, <2>6 DEF Reads
  <2> QED BY <1>6, <2>4, <2>5, <2>7 DEF Reads
<1>7. CASE DispatchClient \/ DispatchMalformed
  BY <1>6, <1>7 DEF DispatchClient, DispatchMalformed, Reads
<1>8. CASE DispatchEmpty
  <2>1. stack # <<>> /\ Top.i <= Len(clients)
    BY <1>8 DEF DispatchEmpty, Looks, In
  <2>2. clients[Top.i] \in Fds
    BY <2>1, TopShape DEF Fds
  <2>3. [Top EXCEPT !.at = "after", !.client = clients[Top.i]] \in Frame
    BY <2>1, <2>2, TopShape DEF Frame, Fds
  <2>4. stack' \in Seq(Frame)
    BY <1>8, <2>1, <2>3, WithTopShape DEF DispatchEmpty
  <2> QED BY <1>8, <2>4 DEF DispatchEmpty
<1>9. CASE NextClient
  <2> DEFINE hup == "HUP" \in pollfds[Top.i].revents
  <2>1. stack # <<>> /\ Top.i <= Len(clients)
    BY <1>9, TopShape DEF NextClient, In, Throws
  <2>2. clients[Top.i] \in Fds
    BY <2>1, TopShape DEF Fds
  <2>3. ASSUME NEW i, NEW b, i = Top.i + 1, b = (Top.recheck \/ hup)
        PROVE  [Top EXCEPT !.at = "pass", !.i = i, !.hadAny = TRUE, !.recheck = b] \in Frame
    <3>1. Top \in Frame /\ i \in Nat \ {0} /\ b \in BOOLEAN
      BY <2>1, <2>3, TopShape
    <3> QED BY <3>1, FrameMoves
  <2>4. [Top EXCEPT !.at = "pass", !.i = @ + 1, !.hadAny = TRUE, !.recheck = @ \/ hup] \in Frame
    BY <2>3
  <2>6. stack' \in Seq(Frame)
    BY <1>9, <2>1, <2>4, WithTopShape DEF NextClient
  <2>5. dropped' \subseteq Fds
    BY <1>9, <2>2 DEF NextClient, Fds
  <2> QED BY <1>9, <2>5, <2>6 DEF NextClient, Fds
<1>10. CASE OutOfRange
  BY <1>10 DEF OutOfRange
<1>11. ASSUME stack # <<>> PROVE AfterPass \in Seq(Frame) /\ WithTop([Top EXCEPT !.at = "erase"]) \in Seq(Frame)
  <2>1. [Top EXCEPT !.at = "erase"] \in Frame /\ Begin \in Frame
    BY <1>11, TopShape DEF Frame
  <2> QED BY <1>11, <2>1, WithTopShape, PopShape DEF AfterPass
<1>12. CASE EndPass
  <2>1. stack # <<>>
    BY <1>12 DEF EndPass, In
  <2> QED BY <1>11, <1>12, <2>1 DEF EndPass
<1>13. CASE EraseOne
  <2>1. PICK i \in DOMAIN clients : clients' = RemoveAt(clients, i)
    BY <1>13 DEF EraseOne
  <2>2. clients' \in Seq(Fds)
    BY <2>1, RemoveShape DEF Fds
  <2> QED BY <1>13, <2>2 DEF EraseOne, Fds
<1>14. CASE EraseDone
  <2>1. stack # <<>>
    BY <1>14 DEF EraseDone, In
  <2>2. pollfds' \in Seq(PollFd)
    BY <1>14, RebuiltShape DEF EraseDone, Fds
  <2> QED BY <1>11, <1>14, <2>1, <2>2 DEF EraseDone, PollFd, Fds
<1> QED
  BY <1>2, <1>3, <1>4, <1>5, <1>7, <1>8, <1>9, <1>10, <1>12, <1>13, <1>14 DEF Library

(* Every variable keeps its range, however the dispatches are nested.         *)
THEOREM ServerPollTypeCorrect == ServerPollSpec => []ServerPollTypeOK
<1>1. ServerPollTypeOK /\ [ServerPollNext]_serverPollVars => ServerPollTypeOK'
  <2> SUFFICES ASSUME ServerPollTypeOK, [ServerPollNext]_serverPollVars PROVE ServerPollTypeOK'
    OBVIOUS
  <2>1. CASE UNCHANGED serverPollVars
    BY <2>1 DEF ServerPollTypeOK, serverPollVars, socketVars, listVars, errorVars
  <2> QED BY <2>1, LibraryType, ApplicationType, EnvironmentType DEF ServerPollNext
<1> QED BY <1>1, PollStarts, PTL DEF ServerPollSpec

-----------------------------------------------------------------------------
(* A peer has one place.                                                      *)

LEMMA PeersRemoved ==
    ASSUME ServerPollTypeOK, PeersInv, NEW i \in DOMAIN clients, clients' = RemoveAt(clients, i),
           UNCHANGED <<backlog, met>>
    PROVE  PeersInv'
<1>1. clients \in Seq(Fds)
  BY DEF ServerPollTypeOK, Fds
<1>2. /\ DOMAIN clients = 1..Len(clients) /\ Len(clients) \in Nat
      /\ DOMAIN clients' = 1..(Len(clients) - 1)
      /\ \A j \in 1..(Len(clients) - 1) : clients'[j] = IF j < i THEN clients[j] ELSE clients[j + 1]
  BY <1>1, RemoveShape
<1>3. ASSUME NEW j \in DOMAIN clients'
      PROVE  clients'[j] \in met' \cup {Invalid} /\ \A k \in DOMAIN backlog' : backlog'[k] # clients'[j]
  BY <1>2, <1>3 DEF PeersInv
<1>4. ASSUME NEW j \in DOMAIN clients', NEW k \in DOMAIN clients', j # k, clients'[j] # Invalid
      PROVE  clients'[j] # clients'[k]
  <2>1. PICK a \in DOMAIN clients : a = (IF j < i THEN j ELSE j + 1) /\ clients'[j] = clients[a]
    BY <1>2
  <2>2. PICK b \in DOMAIN clients : b = (IF k < i THEN k ELSE k + 1) /\ clients'[k] = clients[b]
    BY <1>2
  <2>3. a # b
    BY <1>2, <1>4, <2>1, <2>2
  <2> QED BY <1>4, <2>1, <2>2, <2>3 DEF PeersInv
<1> QED BY <1>3, <1>4 DEF PeersInv

(* A shift keeps places apart.                                                *)
LEMMA ShiftedApart ==
    ASSUME NEW a \in Nat, NEW b \in Nat, NEW i \in Nat, NEW j \in Nat,
           NEW m \in Nat, NEW n \in Nat, a - i = m - n, b - j = m - n, i # j
    PROVE  a # b
  OBVIOUS

LEMMA PeersAppended ==
    ASSUME ServerPollTypeOK, PeersInv, NEW fd \in Fds, clients' = Append(clients, fd),
           met \subseteq met', fd \in met' \cup {Invalid},
           fd # Invalid => \A i \in DOMAIN clients : clients[i] # fd,
           DOMAIN backlog' \subseteq Nat,
           \A i \in DOMAIN backlog' : \E k \in DOMAIN backlog :
                backlog'[i] = backlog[k] /\ k - i = Len(backlog) - Len(backlog') /\ backlog[k] # fd,
           Len(backlog') \in Nat, Len(backlog) \in Nat
    PROVE  PeersInv'
<1>1. clients \in Seq(Fds) /\ backlog \in Seq(Clients)
  BY DEF ServerPollTypeOK, Fds
<1>2. /\ DOMAIN clients = 1..Len(clients) /\ Len(clients) \in Nat
      /\ DOMAIN clients' = 1..(Len(clients) + 1)
      /\ \A j \in DOMAIN clients : clients'[j] = clients[j]
      /\ clients'[Len(clients) + 1] = fd
  BY <1>1, AppendShape
<1>3. ASSUME NEW i \in DOMAIN backlog' PROVE backlog'[i] \in met'
  BY <1>3 DEF PeersInv
<1>4. ASSUME NEW j \in DOMAIN clients'
      PROVE  clients'[j] \in met' \cup {Invalid} /\ \A i \in DOMAIN backlog' : backlog'[i] # clients'[j]
  BY <1>2, <1>4 DEF PeersInv
<1>5. ASSUME NEW i \in DOMAIN backlog', NEW j \in DOMAIN backlog', i # j
      PROVE  backlog'[i] # backlog'[j]
  <2>1. PICK a \in DOMAIN backlog : backlog'[i] = backlog[a] /\ a - i = Len(backlog) - Len(backlog')
    OBVIOUS
  <2>2. PICK b \in DOMAIN backlog : backlog'[j] = backlog[b] /\ b - j = Len(backlog) - Len(backlog')
    OBVIOUS
  <2>3. a \in Nat /\ b \in Nat /\ i \in Nat /\ j \in Nat
    BY <1>1, SMTT(30)
  <2>4. a # b
    BY ONLY <1>5, <2>1, <2>2, <2>3, ShiftedApart, Len(backlog) \in Nat, Len(backlog') \in Nat
  <2> QED BY <2>1, <2>2, <2>4 DEF PeersInv
<1>6. ASSUME NEW j \in DOMAIN clients', NEW k \in DOMAIN clients', j # k, clients'[j] # Invalid
      PROVE  clients'[j] # clients'[k]
  BY <1>2, <1>6 DEF PeersInv
<1> QED BY <1>3, <1>4, <1>5, <1>6 DEF PeersInv

LEMMA PeersStep ==
    ASSUME ServerPollTypeOK, PeersInv, [ServerPollNext]_serverPollVars
    PROVE  PeersInv'
<1> USE DEF socketVars, listVars, errorVars
<1>1. backlog \in Seq(Clients) /\ clients \in Seq(Fds) /\ Len(backlog) \in Nat
      /\ DOMAIN backlog = 1..Len(backlog)
  BY DEF ServerPollTypeOK, Fds
<1>2. CASE UNCHANGED <<backlog, met, clients>>
  BY <1>2 DEF PeersInv
<1>3. ASSUME NEW c \in Clients, PeerConnects(c) PROVE PeersInv'
  <2>1. /\ DOMAIN backlog' = 1..(Len(backlog) + 1)
        /\ \A i \in DOMAIN backlog : backlog'[i] = backlog[i]
        /\ backlog'[Len(backlog) + 1] = c
    BY <1>1, <1>3, AppendShape DEF PeerConnects
  <2>2. c # Invalid /\ c \notin met /\ c \in met' /\ met \subseteq met' /\ clients' = clients
    BY <1>3, NoPeerIsInvalid DEF PeerConnects
  <2> QED BY <1>1, <2>1, <2>2 DEF PeersInv
<1>4. ASSUME NEW c \in Clients, AddClient(c) PROVE PeersInv'
  <2>1. /\ clients' = Append(clients, c) /\ met \subseteq met' /\ c \in met' /\ c \notin met
        /\ backlog' = backlog /\ c \in Fds /\ c # Invalid
    BY <1>4, NoPeerIsInvalid DEF AddClient, Fds
  <2>2. /\ \A i \in DOMAIN clients : clients[i] # c
        /\ \A i \in DOMAIN backlog : backlog[i] # c
    BY <2>1 DEF PeersInv
  <2> QED BY <1>1, <2>1, <2>2, PeersAppended
<1>5. ASSUME NEW c \in Clients, RemoveClient(c) PROVE PeersInv'
  BY <1>5, PeersRemoved DEF RemoveClient
<1>6. CASE EraseOne
  BY <1>6, PeersRemoved DEF EraseOne
<1>7. CASE Accept
  <2>1. /\ backlog # <<>> /\ backlog' = Tail(backlog) /\ clients' = Append(clients, Head(backlog))
        /\ met' = met
    BY <1>7 DEF Accept, Accepts
  <2>2. /\ Head(backlog) = backlog[1] /\ 1 \in DOMAIN backlog /\ Len(backlog') = Len(backlog) - 1
        /\ Len(backlog') \in Nat
        /\ DOMAIN backlog' = 1..(Len(backlog) - 1)
        /\ \A i \in DOMAIN backlog' : backlog'[i] = backlog[i + 1] /\ i + 1 \in DOMAIN backlog
    BY <1>1, <2>1
  <2>3. Head(backlog) \in Fds /\ Head(backlog) # Invalid /\ Head(backlog) \in met
    BY <1>1, <2>2, NoPeerIsInvalid DEF Fds, PeersInv
  <2>4. \A i \in DOMAIN clients : clients[i] # Head(backlog)
    BY <2>2 DEF PeersInv
  <2>5. \A i \in DOMAIN backlog' : \E k \in DOMAIN backlog :
            /\ backlog'[i] = backlog[k] /\ k - i = Len(backlog) - Len(backlog')
            /\ backlog[k] # Head(backlog)
    BY <1>1, <2>2 DEF PeersInv
  <2> QED BY <1>1, <2>1, <2>2, <2>3, <2>4, <2>5, PeersAppended
<1>8. CASE AcceptFails
  <2>1. /\ backlog' = backlog /\ clients' = Append(clients, Invalid) /\ met' = met
    BY <1>8 DEF AcceptFails, Accepts
  <2>2. \A i \in DOMAIN backlog : backlog[i] # Invalid
    BY <1>1, NoPeerIsInvalid
  <2> QED BY <1>1, <2>1, <2>2, PeersAppended DEF Fds
<1>9. CASE Environment
  BY <1>2, <1>3, <1>9 DEF Environment, PeerHangsUp, PeerSends, DescriptorsRunOut
<1>10. CASE Application
  BY <1>2, <1>4, <1>5, <1>10 DEF Application, DispatchEvents, CallbackReturns, CallbackFails
<1>11. CASE Library
  BY <1>2, <1>6, <1>7, <1>8, <1>11 DEF Library, Poll, PassesOver, DispatchClient, DispatchMalformed,
     Reads, DispatchEmpty, NextClient, OutOfRange, EndPass, EraseDone
<1>12. CASE UNCHANGED serverPollVars
  BY <1>2, <1>12 DEF serverPollVars
<1> QED BY <1>9, <1>10, <1>11, <1>12 DEF ServerPollNext

-----------------------------------------------------------------------------
(* The two vectors during a pass.                                             *)

(* Only the innermost dispatch moves.                                         *)
LEMMA TopMoves ==
    ASSUME ServerPollTypeOK, Suspended, stack # <<>>, NEW frame \in Frame, stack' = WithTop(frame)
    PROVE  Suspended' /\ stack' # <<>> /\ Top' = frame
<1>1. stack \in Seq(Frame)
  BY DEF ServerPollTypeOK
<1> QED BY <1>1, WithTopShape DEF Suspended, Top

(* What it returns to is in a callback.                                       *)
LEMMA TopReturns ==
    ASSUME ServerPollTypeOK, Suspended, stack # <<>>, stack' = Pop
    PROVE  Suspended' /\ (stack' # <<>> => Top'.at = "called")
<1>1. stack \in Seq(Frame)
  BY DEF ServerPollTypeOK
<1> QED BY <1>1, PopShape DEF Suspended, Top

(* m_pollfds as recheckPollFds leaves it fits m_clients and reports nothing.  *)
LEMMA Rebuilt ==
    ASSUME clients' \in Seq(Fds), pollfds' = RecheckPollFds(clients')
    PROVE  /\ Aligned' /\ \A j \in DOMAIN pollfds' : ~Ready(j)'
<1>1. /\ Len(pollfds') = Len(clients') /\ DOMAIN pollfds' = DOMAIN clients'
      /\ \A j \in DOMAIN clients' : pollfds'[j] = [fd |-> clients'[j], revents |-> {}]
  BY RebuiltShape
<1> QED BY <1>1 DEF Aligned, Ready

LEMMA PassEnvironment ==
    ASSUME ServerPollTypeOK, PassInv, Environment
    PROVE  PassInv'
<1>1. UNCHANGED <<stack, clients, pollfds>>
  BY DEF Environment, PeerConnects, PeerHangsUp, PeerSends, DescriptorsRunOut, listVars
<1>2. hungup \subseteq hungup' /\ \A c \in Clients : unread[c] # <<>> => unread'[c] # <<>>
  <2>1. CASE UNCHANGED unread
    BY <2>1 DEF Environment, PeerConnects, PeerHangsUp, PeerSends, DescriptorsRunOut
  <2>2. ASSUME NEW c \in Clients, NEW chunk \in {"bytes", "fds"}, PeerSends(c, chunk)
        PROVE  hungup' = hungup /\ \A d \in Clients : unread[d] # <<>> => unread'[d] # <<>>
    <3>1. unread[c] \in Seq({"bytes", "fds"}) /\ unread \in [Clients -> Seq({"bytes", "fds"})]
      BY DEF ServerPollTypeOK
    <3>2. Append(unread[c], chunk) # <<>>
      BY <3>1, AppendShape
    <3> QED BY <2>2, <3>1, <3>2 DEF PeerSends
  <2> QED BY <2>1, <2>2 DEF Environment, PeerConnects, PeerHangsUp, DescriptorsRunOut
<1>3. \A j \in DOMAIN pollfds : j \in DOMAIN clients => clients[j] \in Fds
  BY DEF ServerPollTypeOK, Fds
<1>4. \A c \in Fds : Readable(c) => Readable(c)'
  BY <1>2 DEF Readable, Fds
<1>5. Suspended' /\ Aligned'
  BY <1>1 DEF PassInv, Suspended, Aligned, Top
<1>6. ASSUME stack # <<>>, Top.at # "erase", NEW k \in Nat, FreshFrom(k) PROVE FreshFrom(k)'
  <2>1. \A j \in DOMAIN pollfds : clients[j] \in Fds
    <3>1. clients \in Seq(Fds) /\ pollfds \in Seq(PollFd)
      BY DEF ServerPollTypeOK, Fds, PollFd
    <3>2. DOMAIN pollfds = DOMAIN clients
      BY <1>6, <3>1 DEF PassInv, Aligned
    <3> QED BY <3>1, <3>2
  <2> QED BY <1>1, <1>4, <1>6, <2>1 DEF FreshFrom, Ready
<1>7. Top' = Top
  BY <1>1 DEF Top
<1>8. FreshInv'
  <2> SUFFICES ASSUME stack # <<>> PROVE FreshInv'
    BY <1>1 DEF FreshInv
  <2>1. Top.i \in Nat /\ Top.i + 1 \in Nat
    BY TopShape DEF ServerPollTypeOK
  <2>2. CASE Top.at = "pass"
    BY <1>1, <1>6, <1>7, <2>1, <2>2 DEF PassInv, FreshInv, Ready
  <2>3. CASE Top.at \in {"called", "after"}
    BY <1>1, <1>6, <1>7, <2>1, <2>3 DEF PassInv, FreshInv
  <2>4. CASE Top.at \notin {"pass", "called", "after"}
    BY <1>7, <2>4 DEF FreshInv
  <2> QED BY <2>2, <2>3, <2>4
<1> QED BY <1>5, <1>8 DEF PassInv

LEMMA PassApplication ==
    ASSUME ServerPollTypeOK, ServerPollTypeOK', PassInv, Application
    PROVE  PassInv'
<1> USE DEF socketVars, listVars, errorVars
<1>1. clients' \in Seq(Fds) /\ stack \in Seq(Frame)
  BY DEF ServerPollTypeOK, Fds
<1>2. ASSUME pollfds' = RecheckPollFds(clients'), stack' = stack PROVE PassInv'
  <2>1. Aligned' /\ FreshInv'
    BY <1>1, <1>2, Rebuilt DEF FreshInv, FreshFrom, Ready
  <2> QED BY <1>2, <2>1 DEF PassInv, Suspended
<1>3. CASE DispatchEvents
  <2>1. /\ Begin \in Frame /\ stack' = Append(stack, Begin) /\ UNCHANGED <<clients, pollfds>>
        /\ stack # <<>> => Top.at = "called"
    BY <1>3 DEF DispatchEvents, InControl, In, Begin, Frame
  <2>2. /\ Len(stack) \in Nat /\ DOMAIN stack = 1..Len(stack)
        /\ Len(stack') = Len(stack) + 1
        /\ stack'[Len(stack) + 1] = Begin /\ \A k \in 1..Len(stack) : stack'[k] = stack[k]
    BY <1>1, <2>1, AppendShape
  <2>3. Top' = Begin /\ Top'.at = "poll"
    BY <2>2 DEF Top, Begin
  <2>4. ASSUME NEW k \in 1..(Len(stack') - 1) PROVE stack'[k].at = "called"
    <3>1. CASE k = Len(stack)
      <4>1. stack # <<>>
        BY <1>1, <2>2, <3>1
      <4> QED BY <2>1, <2>2, <3>1, <4>1 DEF Top
    <3>2. CASE k # Len(stack)
      BY <2>2, <2>4, <3>2 DEF PassInv, Suspended
    <3> QED BY <3>1, <3>2
  <2>5. Aligned'
    BY <2>1, <2>3 DEF PassInv, Aligned
  <2> QED BY <2>3, <2>4, <2>5 DEF PassInv, Suspended, FreshInv
<1>4. CASE CallbackReturns \/ CallbackFails
  <2>1. /\ stack # <<>> /\ Top.at = "called" /\ stack' = WithTop([Top EXCEPT !.at = "after"])
        /\ UNCHANGED <<clients, pollfds, unread, hungup>>
    BY <1>4 DEF CallbackReturns, CallbackFails, In
  <2>2. [Top EXCEPT !.at = "after"] \in Frame
    BY <1>1, <2>1, TopShape, FrameMoves
  <2>3. Suspended' /\ stack' # <<>> /\ Top' = [Top EXCEPT !.at = "after"]
    BY <2>1, <2>2, TopMoves DEF PassInv
  <2>4. Top'.at = "after" /\ Top'.i = Top.i
    BY <1>1, <2>1, <2>3, TopShape DEF Frame
  <2>5. Aligned'
    BY <2>1, <2>4 DEF PassInv, Aligned
  <2>6. FreshFrom(Top.i + 1)'
    BY <2>1, <2>4 DEF PassInv, FreshInv, FreshFrom, Ready, Readable
  <2> QED BY <2>3, <2>4, <2>5, <2>6 DEF PassInv, FreshInv
<1>5. ASSUME NEW c \in Clients, AddClient(c) \/ RemoveClient(c) PROVE PassInv'
  BY <1>2, <1>5 DEF AddClient, RemoveClient
<1> QED BY <1>3, <1>4, <1>5 DEF Application

(* A read takes from one socket; the others stay as ready as they were, and   *)
(* no other place of the vectors is for the same one.                         *)
LEMMA PassReads ==
    ASSUME ServerPollTypeOK, PeersInv, PassInv, NEW place \in {"called", "after"}, Reads(place)
    PROVE  PassInv'
<1> DEFINE c == clients[Top.i]
           frame == [Top EXCEPT !.at = place, !.client = c]
<1>1. /\ stack \in Seq(Frame) /\ clients \in Seq(Fds) /\ unread \in [Clients -> Seq({"bytes", "fds"})]
      /\ stack # <<>> /\ Top.at = "pass" /\ Top.i <= Len(clients) /\ stack' = WithTop(frame)
      /\ c # Invalid /\ unread' = [unread EXCEPT ![c] = AfterRead(@)]
      /\ UNCHANGED <<clients, pollfds, hungup>>
  BY DEF Reads, Looks, In, ServerPollTypeOK, Fds, listVars
<1>2. Top \in Frame /\ Top.i \in 1..Len(clients) /\ c \in Fds
  BY <1>1, TopShape
<1>3. frame \in Frame
  BY <1>2, FrameMoves
<1>4. Suspended' /\ stack' # <<>> /\ Top' = frame
  BY <1>1, <1>3, TopMoves DEF PassInv
<1>5. Top'.at = place /\ Top'.i = Top.i
  BY <1>2, <1>4 DEF Frame
<1>6. Aligned'
  BY <1>1, <1>5 DEF PassInv, Aligned
<1>7. ASSUME NEW j \in DOMAIN pollfds, j >= Top.i + 1, Ready(j)
      PROVE  Readable(clients[j])'
  <2>1. Len(pollfds) = Len(clients) /\ pollfds \in Seq(PollFd)
    BY <1>1 DEF PassInv, Aligned, ServerPollTypeOK, PollFd, Fds
  <2>2. j \in DOMAIN clients /\ j # Top.i /\ j >= Top.i
    BY <1>1, <1>2, <1>7, <2>1
  <2>3. Readable(clients[j])
    BY <1>1, <1>7, <2>2 DEF PassInv, FreshInv, FreshFrom
  <2>4. clients[j] # c
    BY <1>1, <1>2, <2>2 DEF PeersInv
  <2>5. clients[j] \in Clients
    BY <1>1, <2>2, <2>3 DEF Readable, Fds
  <2>6. unread'[clients[j]] = unread[clients[j]]
    BY <1>1, <2>4, <2>5
  <2> QED BY <1>1, <2>3, <2>6 DEF Readable
<1>8. FreshFrom(Top.i + 1)'
  BY <1>1, <1>5, <1>7 DEF FreshFrom, Ready
<1> QED BY <1>4, <1>5, <1>6, <1>8 DEF PassInv, FreshInv

(* A dispatch returns only from a pass in which nothing was ready.            *)
LEMMA PassEnds ==
    ASSUME ServerPollTypeOK, ServerPollTypeOK', PassInv, EndPass
    PROVE  PassInv'
<1>1. /\ stack \in Seq(Frame) /\ pollfds \in Seq(PollFd)
      /\ stack # <<>> /\ Top.at = "pass" /\ Top.i > Len(pollfds)
      /\ UNCHANGED <<clients, pollfds, unread, hungup>>
  BY DEF EndPass, In, ServerPollTypeOK, PollFd, Fds, listVars, socketVars
<1>2. Top \in Frame /\ Begin \in Frame /\ [Top EXCEPT !.at = "erase"] \in Frame
  BY <1>1, TopShape, FrameMoves
<1>3. CASE Top.recheck
  <2>1. stack' = WithTop([Top EXCEPT !.at = "erase"])
    BY <1>3 DEF EndPass
  <2>2. Suspended' /\ stack' # <<>> /\ Top' = [Top EXCEPT !.at = "erase"]
    BY <1>1, <1>2, <2>1, TopMoves DEF PassInv
  <2>3. Top'.at = "erase"
    BY <1>2, <2>2 DEF Frame
  <2> QED BY <2>2, <2>3 DEF PassInv, Aligned, FreshInv
<1>4. CASE ~Top.recheck /\ Top.hadAny
  <2>1. stack' = WithTop(Begin)
    BY <1>4 DEF EndPass, AfterPass
  <2>2. Suspended' /\ stack' # <<>> /\ Top' = Begin
    BY <1>1, <1>2, <2>1, TopMoves DEF PassInv
  <2>3. Top'.at = "poll"
    BY <2>2 DEF Begin
  <2>4. Aligned'
    BY <1>1, <2>3 DEF PassInv, Aligned
  <2> QED BY <2>2, <2>3, <2>4 DEF PassInv, FreshInv
<1>5. CASE ~Top.recheck /\ ~Top.hadAny
  <2>1. stack' = Pop
    BY <1>5 DEF EndPass, AfterPass
  <2>2. Suspended' /\ (stack' # <<>> => Top'.at = "called")
    BY <1>1, <2>1, TopReturns DEF PassInv
  <2>3. Aligned'
    BY <1>1 DEF PassInv, Aligned
  <2>4. \A j \in DOMAIN pollfds : ~Ready(j)
    <3>1. \A j \in DOMAIN pollfds : j < Top.i
      BY <1>1, TopShape
    <3> QED BY <1>1, <1>5, <3>1 DEF PassInv, FreshInv
  <2>5. FreshInv'
    BY <1>1, <2>2, <2>4 DEF FreshInv, FreshFrom, Ready
  <2> QED BY <2>2, <2>3, <2>5 DEF PassInv
<1> QED BY <1>3, <1>4, <1>5

LEMMA PassLibrary ==
    ASSUME ServerPollTypeOK, ServerPollTypeOK', PeersInv, PassInv, Library
    PROVE  PassInv'
<1> USE DEF socketVars, listVars, errorVars
<1>1. /\ stack \in Seq(Frame) /\ clients' \in Seq(Fds) /\ clients \in Seq(Fds)
      /\ pollfds \in Seq(PollFd)
  BY DEF ServerPollTypeOK, Fds, PollFd
<1>2. CASE Accept \/ AcceptFails
  <2>1. stack' = stack /\ pollfds' = RecheckPollFds(clients')
    BY <1>2 DEF Accept, AcceptFails, Accepts
  <2> QED BY <1>1, <2>1, Rebuilt DEF PassInv, Suspended, FreshInv, FreshFrom
<1>3. CASE Poll
  <2>1. /\ stack # <<>> /\ Top.at = "poll" /\ pollfds' = Polled(pollfds)
        /\ stack' = WithTop([Begin EXCEPT !.at = "pass"])
        /\ UNCHANGED <<clients, unread, hungup>>
    BY <1>3 DEF Poll, In
  <2>2. [Begin EXCEPT !.at = "pass"] \in Frame
    BY <1>1, <2>1, TopShape, FrameMoves
  <2>3. Suspended' /\ stack' # <<>> /\ Top' = [Begin EXCEPT !.at = "pass"]
    BY <2>1, <2>2, TopMoves DEF PassInv
  <2>4. Top'.at = "pass" /\ Top'.i = 1
    BY <2>3 DEF Begin
  <2>5. /\ Len(pollfds) = Len(clients) /\ \A j \in DOMAIN clients : pollfds[j].fd = clients[j]
        /\ DOMAIN pollfds = DOMAIN clients
    <3>1. Len(pollfds) = Len(clients) /\ \A j \in DOMAIN clients : pollfds[j].fd = clients[j]
      BY <2>1 DEF PassInv, Aligned
    <3> QED BY <1>1, <3>1
  <2>6. /\ Len(pollfds') = Len(pollfds) /\ DOMAIN pollfds' = DOMAIN pollfds
        /\ \A j \in DOMAIN pollfds :
              pollfds'[j].fd = clients[j] /\ pollfds'[j].revents = Revents(clients[j])
    BY <1>1, <2>1, <2>5, PolledShape
  <2>7. Aligned'
    BY <2>1, <2>5, <2>6 DEF Aligned
  <2>8. \A j \in DOMAIN pollfds' : Ready(j)' => Readable(clients[j])'
    BY <2>1, <2>6 DEF Ready, Revents, Readable
  <2>9. \A j \in DOMAIN pollfds' : ~(j < Top'.i)
    BY <1>1, <2>4, <2>6
  <2> QED BY <2>3, <2>4, <2>7, <2>8, <2>9 DEF PassInv, FreshInv, FreshFrom
<1>4. CASE PassesOver
  <2>1. /\ stack # <<>> /\ Top.at = "pass" /\ ~Ready(Top.i)
        /\ stack' = WithTop([Top EXCEPT !.i = @ + 1])
        /\ UNCHANGED <<clients, pollfds, unread, hungup>>
    BY <1>4 DEF PassesOver, Looks, In, Ready
  <2>2. Top \in Frame /\ Top.i \in Nat \ {0}
    BY <1>1, <2>1, TopShape
  <2>3. ASSUME NEW i, i = Top.i + 1
        PROVE  /\ [Top EXCEPT !.i = i] \in Frame
               /\ [Top EXCEPT !.i = i].at = "pass" /\ [Top EXCEPT !.i = i].i = i
               /\ [Top EXCEPT !.i = i].hadAny = Top.hadAny
    <3>1. i \in Nat \ {0}
      BY <2>2, <2>3
    <3>2. [Top EXCEPT !.i = i] \in Frame
      BY <2>2, <3>1, FrameMoves
    <3> QED BY <2>1, <2>2, <3>2 DEF Frame
  <2>4. Suspended' /\ stack' # <<>> /\ Top' = [Top EXCEPT !.i = @ + 1]
    BY <2>1, <2>3, TopMoves DEF PassInv
  <2>5. Top'.at = "pass" /\ Top'.i = Top.i + 1 /\ Top'.hadAny = Top.hadAny
    BY <2>3, <2>4
  <2>6. Aligned'
    BY <2>1, <2>5 DEF PassInv, Aligned
  <2>7. FreshFrom(Top.i)'
    BY <1>1, <2>1, <2>2, <2>5 DEF PassInv, FreshInv, FreshFrom, Ready, Readable
  <2>8. ~Top'.hadAny => \A j \in DOMAIN pollfds' : j < Top'.i => ~Ready(j)'
    <3>1. \A j \in DOMAIN pollfds : j < Top.i + 1 => j < Top.i \/ j = Top.i
      BY <1>1, <2>2
    <3> QED BY <2>1, <2>5, <3>1 DEF PassInv, FreshInv, Ready
  <2> QED BY <2>4, <2>5, <2>6, <2>7, <2>8 DEF PassInv, FreshInv
<1>5. CASE DispatchClient \/ DispatchMalformed
  BY <1>5, PassReads DEF DispatchClient, DispatchMalformed
<1>6. CASE DispatchEmpty
  <2> DEFINE frame == [Top EXCEPT !.at = "after", !.client = clients[Top.i]]
  <2>1. /\ stack # <<>> /\ Top.at = "pass" /\ Top.i <= Len(clients) /\ stack' = WithTop(frame)
        /\ UNCHANGED <<clients, pollfds, unread, hungup>>
    BY <1>6 DEF DispatchEmpty, Looks, In
  <2>2. Top \in Frame /\ Top.i \in Nat \ {0} /\ clients[Top.i] \in Fds
    BY <1>1, <2>1, TopShape
  <2>3. frame \in Frame
    BY <2>2, FrameMoves
  <2>4. Suspended' /\ stack' # <<>> /\ Top' = frame
    BY <2>1, <2>3, TopMoves DEF PassInv
  <2>5. Top'.at = "after" /\ Top'.i = Top.i
    BY <2>2, <2>4 DEF Frame
  <2>6. Aligned'
    BY <2>1, <2>5 DEF PassInv, Aligned
  <2>7. FreshFrom(Top.i + 1)'
    BY <1>1, <2>1, <2>2, <2>5 DEF PassInv, FreshInv, FreshFrom, Ready, Readable
  <2> QED BY <2>4, <2>5, <2>6, <2>7 DEF PassInv, FreshInv
<1>7. CASE NextClient
  <2> DEFINE hup == "HUP" \in pollfds[Top.i].revents
  <2>1. /\ stack # <<>> /\ Top.at = "after"
        /\ stack' = WithTop([Top EXCEPT !.at = "pass", !.i = @ + 1, !.hadAny = TRUE, !.recheck = @ \/ hup])
        /\ UNCHANGED <<clients, pollfds, unread, hungup>>
    BY <1>7 DEF NextClient, In
  <2>2. ASSUME NEW i, NEW b, i = Top.i + 1, b = (Top.recheck \/ hup)
        PROVE  LET frame == [Top EXCEPT !.at = "pass", !.i = i, !.hadAny = TRUE, !.recheck = b]
               IN frame \in Frame /\ frame.at = "pass" /\ frame.i = i /\ frame.hadAny
    <3>1. Top \in Frame /\ i \in Nat \ {0} /\ b \in BOOLEAN
      BY <1>1, <2>1, <2>2, TopShape
    <3>2. [Top EXCEPT !.at = "pass", !.i = i, !.hadAny = TRUE, !.recheck = b] \in Frame
      BY <3>1, FrameMoves
    <3> QED BY <3>1, <3>2 DEF Frame
  <2>3. PICK frame \in Frame :
            stack' = WithTop(frame) /\ frame.at = "pass" /\ frame.i = Top.i + 1 /\ frame.hadAny
    BY <2>1, <2>2
  <2>4. Suspended' /\ stack' # <<>> /\ Top' = frame
    BY <2>1, <2>3, TopMoves DEF PassInv
  <2>5. Aligned'
    BY <2>1, <2>3, <2>4 DEF PassInv, Aligned
  <2>6. FreshFrom(Top.i)'
    BY <2>1, <2>3, <2>4 DEF PassInv, FreshInv, FreshFrom, Ready, Readable
  <2> QED BY <2>3, <2>4, <2>5, <2>6 DEF PassInv, FreshInv
<1>8. CASE OutOfRange
  BY <1>8 DEF OutOfRange, PassInv, Suspended, Aligned, FreshInv, FreshFrom, Ready, Readable, Top
<1>9. CASE EndPass
  BY <1>9, PassEnds
<1>10. CASE EraseOne
  <2>1. stack' = stack /\ stack # <<>> /\ Top.at = "erase"
    BY <1>10 DEF EraseOne, In
  <2> QED BY <2>1 DEF PassInv, Suspended, Aligned, FreshInv, Top
<1>11. CASE EraseDone
  <2>1. /\ stack # <<>> /\ clients' = clients /\ pollfds' = RecheckPollFds(clients')
        /\ stack' = WithTop(Begin) \/ stack' = Pop
    BY <1>11 DEF EraseDone, In, AfterPass
  <2>2. Suspended'
    BY <1>1, <2>1, TopShape, TopMoves, TopReturns DEF PassInv
  <2>3. Aligned' /\ \A j \in DOMAIN pollfds' : ~Ready(j)'
    BY <1>1, <2>1, Rebuilt
  <2> QED BY <2>2, <2>3 DEF PassInv, FreshInv, FreshFrom
<1> QED
  BY <1>2, <1>3, <1>4, <1>5, <1>6, <1>7, <1>8, <1>9, <1>10, <1>11 DEF Library

LEMMA PassHolds == ServerPollSpec => [](ServerPollTypeOK /\ PeersInv /\ PassInv)
<1>1. ServerPollInit => PeersInv /\ PassInv
  <2> SUFFICES ASSUME ServerPollInit PROVE PeersInv /\ PassInv
    OBVIOUS
  <2>1. /\ stack = <<>> /\ clients = <<>> /\ pollfds = <<>> /\ backlog = <<>>
        /\ Len(<<>>) = 0 /\ \A i \in DOMAIN <<>> : FALSE
    BY DEF ServerPollInit
  <2> QED BY <2>1 DEF PeersInv, PassInv, Suspended, Aligned, FreshInv
<1>2. ServerPollTypeOK /\ ServerPollTypeOK' /\ PeersInv /\ PassInv /\ [ServerPollNext]_serverPollVars
        => PeersInv' /\ PassInv'
  <2> SUFFICES ASSUME ServerPollTypeOK, ServerPollTypeOK', PeersInv, PassInv,
                      [ServerPollNext]_serverPollVars
               PROVE  PassInv'
    BY PeersStep
  <2>1. CASE UNCHANGED serverPollVars
    BY <2>1 DEF serverPollVars, socketVars, listVars, PassInv, Suspended, Aligned, FreshInv,
       FreshFrom, Ready, Readable, Top
  <2> QED BY <2>1, PassLibrary, PassApplication, PassEnvironment DEF ServerPollNext
<1> QED BY <1>1, <1>2, ServerPollTypeCorrect, PTL DEF ServerPollSpec

(* Whenever a dispatch indexes m_clients and m_pollfds in parallel, the two   *)
(* describe the same clients (ServerSocket.cpp:290-307).                      *)
THEOREM VectorsAgree == ServerPollSpec => []Aligned
<1>1. PassInv => Aligned
  BY DEF PassInv
<1> QED BY <1>1, PassHolds, PTL

(* No dispatch reads from a socket that has nothing (ServerSocket.cpp:292).   *)
THEOREM ReadsNeverBlock == ServerPollSpec => []NeverBlocks
<1>1. ServerPollTypeOK /\ PassInv => NeverBlocks
  <2> SUFFICES ASSUME ServerPollTypeOK, PassInv, In("pass"), NEW i \in Top.i..Len(pollfds),
                      "IN" \in pollfds[i].revents
               PROVE  Readable(clients[i])
    BY DEF NeverBlocks
  <2>1. stack # <<>> /\ Top.at = "pass" /\ stack \in Seq(Frame) /\ pollfds \in Seq(PollFd)
    BY DEF In, ServerPollTypeOK, PollFd, Fds
  <2>2. i \in DOMAIN pollfds /\ i >= Top.i
    BY <2>1, TopShape
  <2> QED BY <2>1, <2>2 DEF PassInv, FreshInv, FreshFrom, Ready
<1> QED BY <1>1, PassHolds, PTL

-----------------------------------------------------------------------------
(* Hangups, of peers that send no descriptors.                                *)

LEMMA WordsEnvironment ==
    ASSUME ~SendsFds, ServerPollTypeOK, PassInv, WordsInv, Environment
    PROVE  WordsInv'
<1>1. UNCHANGED <<stack, clients, pollfds, dropped>> /\ hungup \subseteq hungup'
  BY DEF Environment, PeerConnects, PeerHangsUp, PeerSends, DescriptorsRunOut, listVars, errorVars
<1>2. Top' = Top
  BY <1>1 DEF Top
<1>3. HangupsInv'
  BY <1>1 DEF WordsInv, HangupsInv, Ready
<1>4. CASE UNCHANGED unread
  BY <1>1, <1>2, <1>3, <1>4 DEF WordsInv, BytesOnly, DrainedInv, LastWordsRead
<1>5. ASSUME NEW c \in Clients, NEW chunk \in {"bytes", "fds"}, PeerSends(c, chunk)
      PROVE  WordsInv'
  <2>1. /\ c \notin hungup /\ unread' = [unread EXCEPT ![c] = Append(@, chunk)] /\ chunk = "bytes"
        /\ unread \in [Clients -> Seq({"bytes", "fds"})] /\ unread[c] \in Seq({"bytes"})
    BY <1>5 DEF PeerSends, Alive, ServerPollTypeOK, WordsInv, BytesOnly
  <2>2. \A d : d # c => unread'[d] = unread[d]
    BY <2>1
  <2>3. BytesOnly'
    BY <2>1, <2>2 DEF WordsInv, BytesOnly
  <2>4. LastWordsRead'
    BY <1>1, <2>1, <2>2 DEF WordsInv, LastWordsRead
  <2>5. DrainedInv'
    <3> SUFFICES ASSUME stack # <<>>, Top.at \in {"called", "after"}, Top.i \in DOMAIN pollfds,
                        "HUP" \in pollfds[Top.i].revents
                 PROVE  unread'[clients[Top.i]] = <<>>
      BY <1>1, <1>2 DEF DrainedInv
    <3>1. clients \in Seq(Fds) /\ pollfds \in Seq(PollFd)
      BY DEF ServerPollTypeOK, Fds, PollFd
    <3>2. pollfds[Top.i].fd = clients[Top.i]
      BY <3>1 DEF PassInv, Aligned
    <3>3. clients[Top.i] \in hungup /\ unread[clients[Top.i]] = <<>>
      BY <3>2 DEF WordsInv, HangupsInv, DrainedInv
    <3> QED BY <2>1, <2>2, <3>3
  <2> QED BY <1>3, <2>3, <2>4, <2>5 DEF WordsInv
<1> QED BY <1>4, <1>5 DEF Environment, PeerConnects, PeerHangsUp, DescriptorsRunOut

(* A step that leaves no hangup in m_pollfds, and the rest as it was.         *)
LEMMA WordsRebuilt ==
    ASSUME ServerPollTypeOK', WordsInv, pollfds' = RecheckPollFds(clients'),
           UNCHANGED <<unread, hungup, dropped>>
    PROVE  WordsInv'
<1>1. clients' \in Seq(Fds)
  BY DEF ServerPollTypeOK, Fds
<1>2. /\ DOMAIN pollfds' = DOMAIN clients'
      /\ \A j \in DOMAIN clients' : pollfds'[j] = [fd |-> clients'[j], revents |-> {}]
  BY <1>1, RebuiltShape
<1>3. \A j \in DOMAIN pollfds' : pollfds'[j].revents = {}
  BY <1>2
<1> QED BY <1>3 DEF WordsInv, BytesOnly, HangupsInv, DrainedInv, LastWordsRead

(* A step after which the innermost dispatch is not in or behind a callback,  *)
(* or is where it was, or finds nothing ready.                                *)
LEMMA WordsMoved ==
    ASSUME WordsInv, UNCHANGED <<unread, hungup, dropped>>, HangupsInv',
           \/ stack' = <<>>
           \/ Top'.at \notin {"called", "after"}
           \/ stack # <<>> /\ Top.at \in {"called", "after"} /\ Top'.i = Top.i /\ UNCHANGED <<clients, pollfds>>
           \/ \A j \in DOMAIN pollfds' : ~Ready(j)'
    PROVE  WordsInv'
<1>1. DrainedInv'
  BY DEF WordsInv, DrainedInv, HangupsInv
<1> QED BY <1>1 DEF WordsInv, BytesOnly, LastWordsRead

LEMMA WordsApplication ==
    ASSUME ServerPollTypeOK, ServerPollTypeOK', PassInv, WordsInv, Application
    PROVE  WordsInv'
<1> USE DEF socketVars, listVars, errorVars
<1>1. ASSUME NEW c \in Clients, AddClient(c) \/ RemoveClient(c) PROVE WordsInv'
  BY <1>1, WordsRebuilt DEF AddClient, RemoveClient
<1>2. CASE DispatchEvents
  <2>1. stack' = Append(stack, Begin) /\ UNCHANGED <<clients, pollfds, unread, hungup, dropped>>
    BY <1>2 DEF DispatchEvents
  <2>2. stack \in Seq(Frame) /\ Begin \in Frame
    BY DEF ServerPollTypeOK, Begin, Frame
  <2>3. Top' = Begin /\ Begin.at = "poll"
    BY <2>1, <2>2, AppendShape DEF Top, Begin
  <2>4. HangupsInv'
    BY <2>1 DEF WordsInv, HangupsInv, Ready
  <2> QED BY <2>1, <2>3, <2>4, WordsMoved
<1>3. CASE CallbackReturns \/ CallbackFails
  <2>1. /\ stack # <<>> /\ Top.at = "called" /\ stack' = WithTop([Top EXCEPT !.at = "after"])
        /\ UNCHANGED <<clients, pollfds, unread, hungup, dropped>> /\ stack \in Seq(Frame)
    BY <1>3 DEF CallbackReturns, CallbackFails, In, ServerPollTypeOK
  <2>2. Top \in Frame /\ [Top EXCEPT !.at = "after"] \in Frame
    BY <2>1, TopShape, FrameMoves
  <2>3. Top' = [Top EXCEPT !.at = "after"]
    BY <2>1, <2>2, TopMoves DEF PassInv
  <2>4. Top'.i = Top.i
    BY <2>2, <2>3 DEF Frame
  <2>5. HangupsInv'
    BY <2>1 DEF WordsInv, HangupsInv, Ready
  <2> QED BY <2>1, <2>4, <2>5, WordsMoved
<1> QED BY <1>1, <1>2, <1>3 DEF Application

(* A read takes all that a peer without descriptors has sent.                 *)
LEMMA WordsReads ==
    ASSUME ServerPollTypeOK, PassInv, WordsInv, NEW place \in {"called", "after"}, Reads(place)
    PROVE  WordsInv'
<1> DEFINE c == clients[Top.i]
           frame == [Top EXCEPT !.at = place, !.client = c]
<1>1. /\ stack \in Seq(Frame) /\ clients \in Seq(Fds) /\ unread \in [Clients -> Seq({"bytes", "fds"})]
      /\ stack # <<>> /\ Top.i <= Len(clients) /\ stack' = WithTop(frame)
      /\ c # Invalid /\ unread' = [unread EXCEPT ![c] = AfterRead(@)] /\ unread[c] # <<>>
      /\ UNCHANGED <<clients, pollfds, hungup, dropped>>
  BY DEF Reads, Looks, In, ServerPollTypeOK, Fds, listVars
<1>2. Top \in Frame /\ c \in Fds /\ c \in Clients
  BY <1>1, TopShape DEF Fds
<1>3. frame \in Frame
  BY <1>2, FrameMoves
<1>4. Top' = frame
  BY <1>1, <1>3, TopMoves DEF PassInv
<1>5. Top'.i = Top.i
  BY <1>2, <1>4 DEF Frame
<1>6. AfterRead(unread[c]) = <<>>
  <2>1. unread[c] \in Seq({"bytes"})
    BY <1>2 DEF WordsInv, BytesOnly
  <2>2. \A k \in DOMAIN unread[c] : unread[c][k] # "fds"
    BY <2>1
  <2> QED BY <2>2 DEF AfterRead, FirstFds
<1>7. unread'[c] = <<>> /\ \A d : d # c => unread'[d] = unread[d]
  BY <1>1, <1>2, <1>6
<1>8. BytesOnly'
  <2>1. <<>> \in Seq({"bytes"})
    OBVIOUS
  <2> QED BY <1>7, <2>1 DEF WordsInv, BytesOnly
<1>9. HangupsInv' /\ LastWordsRead'
  BY <1>1, <1>7 DEF WordsInv, HangupsInv, LastWordsRead, Ready
<1>10. DrainedInv'
  BY <1>1, <1>5, <1>7 DEF DrainedInv
<1> QED BY <1>8, <1>9, <1>10 DEF WordsInv

LEMMA WordsLibrary ==
    ASSUME ServerPollTypeOK, ServerPollTypeOK', PassInv, WordsInv, Library
    PROVE  WordsInv'
<1> USE DEF socketVars, listVars, errorVars
<1>1. stack \in Seq(Frame) /\ clients \in Seq(Fds) /\ pollfds \in Seq(PollFd)
  BY DEF ServerPollTypeOK, Fds, PollFd
<1>2. CASE Accept \/ AcceptFails \/ EraseDone
  BY <1>2, WordsRebuilt DEF Accept, AcceptFails, Accepts, EraseDone
<1>3. CASE Poll
  <2>1. /\ stack # <<>> /\ pollfds' = Polled(pollfds) /\ stack' = WithTop([Begin EXCEPT !.at = "pass"])
        /\ UNCHANGED <<clients, unread, hungup, dropped>>
    BY <1>3 DEF Poll, In
  <2>2. [Begin EXCEPT !.at = "pass"] \in Frame
    BY <1>1, <2>1, TopShape, FrameMoves
  <2>3. Top' = [Begin EXCEPT !.at = "pass"]
    BY <2>1, <2>2, TopMoves DEF PassInv
  <2>4. Top'.at = "pass"
    BY <2>3 DEF Begin
  <2>5. HangupsInv'
    BY <1>1, <2>1, PolledShape DEF HangupsInv, Ready, Revents
  <2> QED BY <2>1, <2>4, <2>5, WordsMoved
<1>4. CASE PassesOver
  <2>1. /\ stack # <<>> /\ Top.at = "pass" /\ stack' = WithTop([Top EXCEPT !.i = @ + 1])
        /\ UNCHANGED <<clients, pollfds, unread, hungup, dropped>>
    BY <1>4 DEF PassesOver, Looks, In
  <2>2. ASSUME NEW i, i = Top.i + 1
        PROVE  [Top EXCEPT !.i = i] \in Frame /\ [Top EXCEPT !.i = i].at = "pass"
    <3>1. Top \in Frame /\ i \in Nat \ {0}
      BY <1>1, <2>1, <2>2, TopShape
    <3>2. [Top EXCEPT !.i = i] \in Frame
      BY <3>1, FrameMoves
    <3> QED BY <2>1, <3>1, <3>2 DEF Frame
  <2>3. Top' = [Top EXCEPT !.i = @ + 1]
    BY <2>1, <2>2, TopMoves DEF PassInv
  <2>4. HangupsInv'
    BY <2>1 DEF WordsInv, HangupsInv, Ready
  <2> QED BY <2>1, <2>2, <2>3, <2>4, WordsMoved
<1>5. CASE DispatchClient \/ DispatchMalformed
  BY <1>5, WordsReads DEF DispatchClient, DispatchMalformed
<1>6. CASE DispatchEmpty
  <2> DEFINE frame == [Top EXCEPT !.at = "after", !.client = clients[Top.i]]
  <2>1. /\ stack # <<>> /\ Top.i <= Len(clients) /\ stack' = WithTop(frame)
        /\ unread[clients[Top.i]] = <<>> /\ UNCHANGED <<clients, pollfds, unread, hungup, dropped>>
    BY <1>6 DEF DispatchEmpty, Looks, In
  <2>2. Top \in Frame /\ clients[Top.i] \in Fds
    BY <1>1, <2>1, TopShape
  <2>3. frame \in Frame
    BY <2>2, FrameMoves
  <2>4. Top' = frame
    BY <2>1, <2>3, TopMoves DEF PassInv
  <2>5. Top'.i = Top.i
    BY <2>2, <2>4 DEF Frame
  <2>6. DrainedInv'
    BY <2>1, <2>5 DEF DrainedInv
  <2> QED BY <2>1, <2>6 DEF WordsInv, BytesOnly, HangupsInv, LastWordsRead, Ready
<1>7. CASE NextClient
  <2> DEFINE hup == "HUP" \in pollfds[Top.i].revents
  <2>1. /\ stack # <<>> /\ Top.at = "after" /\ ~Throws
        /\ stack' = WithTop([Top EXCEPT !.at = "pass", !.i = @ + 1, !.hadAny = TRUE, !.recheck = @ \/ hup])
        /\ dropped' = IF hup THEN dropped \cup {clients[Top.i]} ELSE dropped
        /\ UNCHANGED <<clients, pollfds, unread, hungup>>
    BY <1>7 DEF NextClient, In
  <2>2. ASSUME NEW i, NEW b, i = Top.i + 1, b = (Top.recheck \/ hup)
        PROVE  LET frame == [Top EXCEPT !.at = "pass", !.i = i, !.hadAny = TRUE, !.recheck = b]
               IN frame \in Frame /\ frame.at = "pass"
    <3>1. Top \in Frame /\ i \in Nat \ {0} /\ b \in BOOLEAN
      BY <1>1, <2>1, <2>2, TopShape
    <3>2. [Top EXCEPT !.at = "pass", !.i = i, !.hadAny = TRUE, !.recheck = b] \in Frame
      BY <3>1, FrameMoves
    <3> QED BY <3>1, <3>2 DEF Frame
  <2>3. PICK frame \in Frame : stack' = WithTop(frame) /\ frame.at = "pass"
    BY <2>1, <2>2
  <2>4. Top'.at = "pass"
    BY <2>1, <2>3, TopMoves DEF PassInv
  <2>5. Top.i \in DOMAIN pollfds /\ Top.i \in DOMAIN clients
    BY <1>1, <2>1, TopShape DEF Throws
  <2>6. hup => clients[Top.i] \in hungup /\ unread[clients[Top.i]] = <<>>
    <3>1. pollfds[Top.i].fd = clients[Top.i]
      BY <2>1, <2>5 DEF PassInv, Aligned
    <3> QED BY <2>1, <2>5, <3>1 DEF WordsInv, HangupsInv, DrainedInv
  <2>7. LastWordsRead'
    BY <2>1, <2>6 DEF WordsInv, LastWordsRead
  <2> QED BY <2>1, <2>4, <2>7 DEF WordsInv, BytesOnly, HangupsInv, DrainedInv, Ready
<1>8. CASE OutOfRange
  BY <1>8 DEF OutOfRange, WordsInv, BytesOnly, HangupsInv, DrainedInv, LastWordsRead, Ready, Top
<1>9. CASE EndPass
  <2>1. /\ stack # <<>> /\ Top.at = "pass" /\ Top.i > Len(pollfds)
        /\ UNCHANGED <<clients, pollfds, unread, hungup, dropped>>
    BY <1>9 DEF EndPass, In
  <2>2. HangupsInv'
    BY <2>1 DEF WordsInv, HangupsInv, Ready
  <2>3. Top \in Frame /\ Begin \in Frame /\ [Top EXCEPT !.at = "erase"] \in Frame
    BY <1>1, <2>1, TopShape, FrameMoves
  <2>4. CASE Top.recheck \/ Top.hadAny
    <3>1. PICK frame \in Frame : stack' = WithTop(frame) /\ frame.at \in {"poll", "erase"}
      BY <1>9, <2>3, <2>4 DEF EndPass, AfterPass, Begin, Frame
    <3>2. Top' = frame
      BY <2>1, <3>1, TopMoves DEF PassInv
    <3> QED BY <2>1, <2>2, <3>1, <3>2, WordsMoved
  <2>5. CASE ~Top.recheck /\ ~Top.hadAny
    <3>1. \A j \in DOMAIN pollfds : j < Top.i
      BY <1>1, <2>1, TopShape
    <3>2. \A j \in DOMAIN pollfds : ~Ready(j)
      BY <2>1, <2>5, <3>1 DEF PassInv, FreshInv
    <3>3. \A j \in DOMAIN pollfds' : ~Ready(j)'
      BY <2>1, <3>2 DEF Ready
    <3> QED BY <2>1, <2>2, <3>3, WordsMoved
  <2> QED BY <2>4, <2>5
<1>10. CASE EraseOne
  <2>1. /\ stack' = stack /\ stack # <<>> /\ Top.at = "erase"
        /\ UNCHANGED <<pollfds, unread, hungup, dropped>>
    BY <1>10 DEF EraseOne, In
  <2>2. HangupsInv'
    BY <2>1 DEF WordsInv, HangupsInv, Ready
  <2>3. Top'.at = "erase"
    BY <2>1 DEF Top
  <2> QED BY <2>1, <2>2, <2>3, WordsMoved
<1> QED
  BY <1>2, <1>3, <1>4, <1>5, <1>6, <1>7, <1>8, <1>9, <1>10 DEF Library

(* Peers that send no descriptors: whoever is dropped for a hangup has hung   *)
(* up, and everything it sent was read (ServerSocket.cpp:298-303).            *)
THEOREM LastWordsAreRead ==
    ASSUME ~SendsFds PROVE ServerPollSpec => []LastWordsRead
<1>1. ServerPollInit => WordsInv
  <2> SUFFICES ASSUME ServerPollInit PROVE WordsInv
    OBVIOUS
  <2>1. /\ stack = <<>> /\ pollfds = <<>> /\ dropped = {} /\ unread = [c \in Clients |-> <<>>]
        /\ \A i \in DOMAIN <<>> : FALSE
    BY DEF ServerPollInit
  <2> QED BY <2>1 DEF WordsInv, BytesOnly, HangupsInv, DrainedInv, LastWordsRead
<1>2. ServerPollTypeOK /\ ServerPollTypeOK' /\ PassInv /\ WordsInv /\ [ServerPollNext]_serverPollVars
        => WordsInv'
  <2> SUFFICES ASSUME ServerPollTypeOK, ServerPollTypeOK', PassInv, WordsInv,
                      [ServerPollNext]_serverPollVars
               PROVE  WordsInv'
    OBVIOUS
  <2>1. CASE UNCHANGED serverPollVars
    BY <2>1 DEF serverPollVars, socketVars, listVars, errorVars, WordsInv, BytesOnly, HangupsInv,
       DrainedInv, LastWordsRead, Ready, Top
  <2> QED BY <2>1, WordsLibrary, WordsApplication, WordsEnvironment DEF ServerPollNext
<1>3. WordsInv => LastWordsRead
  BY DEF WordsInv
<1> QED BY <1>1, <1>2, <1>3, PassHolds, PTL DEF ServerPollSpec
=============================================================================
