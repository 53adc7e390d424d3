------------------------ MODULE AsyncEventLoop_proofs ------------------------
(***************************************************************************)
(* Proofs about AsyncEventLoop, for any set of descriptors and of          *)
(* addresses and any size of the batch: no event of a batch refers to a    *)
(* deleted holder, and descriptors and holders are owned by the epoll set. *)
(***************************************************************************)
EXTENDS AsyncEventLoop, TLAPS

\* The holder through which a descriptor is watched.
Watches(fd, p) == watch[fd] # None /\ watch[fd].ptr = p

\* There are entries to handle only while startEventloop handles them.
BatchInv == batch # {} => pc = "dispatch"

\* What a throwing accept callback has left behind: an open descriptor of its
\* own, whose holder is alive and not in the epoll set.
LostInv ==
    /\ \A p \in lost :
         /\ holder[p].alive /\ holder[p].fd \in open
         /\ \A q \in Holders : q # p /\ holder[q].alive => holder[q].fd # holder[p].fd
    /\ \A fd \in Fds, p \in lost : ~ Watches(fd, p)

\* The listener is watched for input as long as the loop exists.
ListenerInv ==
    /\ holder[ListenerHolder].fd = Listener
    /\ Living => watch[Listener] = [ptr |-> ListenerHolder, mask |-> {"in"}]

OwnerInv == WatchedMeansOwned /\ OwnedMeansWatched /\ LostInv /\ ListenerInv

\* Before the constructor nothing is there that a loop could own.
NewInv == pc = "new" =>
    /\ open = {} /\ lost = {}
    /\ \A fd \in Fds : watch[fd] = None
    /\ \A p \in Holders : ~ holder[p].alive

IInv == TypeOK /\ BatchInv /\ NewInv /\ NoDanglingEvent /\ EventsMeetTheirConnections /\ OwnerInv

-----------------------------------------------------------------------------
(* The invariant by parts.                                                 *)

\* What NoDanglingEvent says of one entry.
EntryOK(e) == holder[e.ptr].alive /\ Watches(holder[e.ptr].fd, e.ptr)

\* What a watched descriptor has.
LEMMA WatchedType ==
    ASSUME TypeOK, NEW fd \in Fds, watch[fd] # None
    PROVE  watch[fd] \in [ptr : Holders, mask : SUBSET Events]
BY DEF TypeOK

\* The entries that are left stay good when each of them does.
LEMMA BatchKept ==
    ASSUME NoDanglingEvent, batch' \subseteq batch, \A e \in batch' : EntryOK(e) => EntryOK(e)'
    PROVE  NoDanglingEvent'
BY DEF NoDanglingEvent, EntryOK, Watches

\* A step that changes neither the epoll set nor the descriptors and holders.
LEMMA OwnersKept ==
    ASSUME NoDanglingEvent, OwnerInv, UNCHANGED <<watch, open, holder, lost>>,
           batch' \subseteq batch, Living' => Living
    PROVE  NoDanglingEvent' /\ OwnerInv'
<1>1. NoDanglingEvent'
  BY BatchKept DEF EntryOK, Watches
<1>2. WatchedMeansOwned' /\ LostInv' /\ ListenerInv'
  BY DEF OwnerInv, WatchedMeansOwned, LostInv, ListenerInv, Watches, Living
<1>3. OwnedMeansWatched'
  BY DEF OwnerInv, OwnedMeansWatched, Living
<1> QED
  BY <1>1, <1>2, <1>3 DEF OwnerInv

\* The entries that are left lead to the connections they led to.
LEMMA MeetingsKept ==
    ASSUME EventsMeetTheirConnections, batch' \subseteq batch, accepted' \subseteq accepted,
           \A e \in batch' : holder'[e.ptr].fd = holder[e.ptr].fd
    PROVE  EventsMeetTheirConnections'
BY DEF EventsMeetTheirConnections

\* Before the constructor.
LEMMA InvInit == Init => IInv
<1> SUFFICES ASSUME Init PROVE IInv
  OBVIOUS
<1>1. TypeOK
  <2>1. watch \in [Fds -> {None} \cup [ptr : Holders, mask : SUBSET Events]]
    BY DEF Init, Holders, Events
  <2>2. holder \in [Holders -> [fd : Fds, alive : BOOLEAN]]
    BY DEF Init, Fds
  <2>3. served \in [event : Kinds \cup {"none"}, by : Kinds \cup {"none"}, fd : Fds \cup {None}]
    BY DEF Init, Unserved
  <2> QED
    BY <2>1, <2>2, <2>3, LoopAssumption DEF Init, TypeOK
<1>2. BatchInv /\ NewInv /\ NoDanglingEvent /\ EventsMeetTheirConnections
  BY DEF Init, BatchInv, NewInv, NoDanglingEvent, EventsMeetTheirConnections
<1>3. OwnerInv
  <2>1. ListenerHolder \in Holders /\ ~ Living
    BY DEF Holders, Init, Living
  <2> QED
    BY <2>1 DEF Init, OwnerInv, WatchedMeansOwned, OwnedMeansWatched, LostInv, ListenerInv, Watches
<1> QED
  BY <1>1, <1>2, <1>3 DEF IInv

-----------------------------------------------------------------------------
(* What the steps of the loop do to the ownership.                         *)

\* A new peer: its descriptor was not open, hence not watched, and the
\* address of its holder was free, hence in no entry of the batch.
LEMMA PeerAdded ==
    ASSUME IInv, pc = "dispatch", NEW fd \in Peers \ open, NEW p \in Addresses,
           ~ holder[p].alive, open' = open \cup {fd}, batch' \subseteq batch,
           holder' = [holder EXCEPT ![p] = [fd |-> fd, alive |-> TRUE]]
    PROVE  /\ \A q \in Holders \ {p} : holder'[q] = holder[q]
           /\ holder'[p] = [fd |-> fd, alive |-> TRUE] /\ p \in Holders \ {ListenerHolder}
           /\ p \notin lost
           /\ watch[fd] = None /\ fd \in Fds \ {Listener}
           /\ \A q \in Holders : holder[q].alive => holder[q].fd # fd
           /\ \A e \in batch : e.ptr \in Holders \ {p} /\ holder[e.ptr].fd \in Fds \ {fd}
<1>1. p \in Holders \ {ListenerHolder} /\ fd \in Fds \ {Listener}
  BY LoopAssumption DEF Holders, Fds
<1>2. holder \in [Holders -> [fd : Fds, alive : BOOLEAN]]
  BY DEF IInv, TypeOK
<1>3. /\ \A q \in Holders \ {p} : holder'[q] = holder[q]
      /\ holder'[p] = [fd |-> fd, alive |-> TRUE]
  BY <1>1, <1>2
<1>4. p \notin lost
  BY DEF IInv, OwnerInv, LostInv
<1>5. watch[fd] = None
  BY <1>1 DEF IInv, OwnerInv, WatchedMeansOwned
<1>l. Living
  BY DEF Living
<1>6. ASSUME NEW q \in Holders, holder[q].alive PROVE holder[q].fd # fd
  <2>1. CASE q \in lost
    BY <1>6, <2>1 DEF IInv, OwnerInv, LostInv
  <2>2. CASE q \notin lost
    BY <1>5, <1>6, <1>l, <2>2 DEF IInv, OwnerInv, OwnedMeansWatched
  <2> QED
    BY <2>1, <2>2
<1>7. \A e \in batch : e.ptr \in Holders \ {p} /\ holder[e.ptr].fd \in Fds \ {fd}
  <2>1. \A e \in batch : e.ptr \in Holders /\ holder[e.ptr].alive
    BY DEF IInv, TypeOK, NoDanglingEvent
  <2> QED
    BY <1>2, <1>6, <2>1
<1> QED
  BY <1>1, <1>3, <1>4, <1>5, <1>6, <1>7

\* The accept callback has returned: the new descriptor is watched through
\* the new holder.
LEMMA PeerWatched ==
    ASSUME IInv, pc = "dispatch", NEW fd \in Peers \ open, NEW p \in Addresses,
           ~ holder[p].alive, open' = open \cup {fd}, batch' \subseteq batch,
           holder' = [holder EXCEPT ![p] = [fd |-> fd, alive |-> TRUE]],
           NEW status \in SUBSET Events, watch' = [watch EXCEPT ![fd] = [ptr |-> p, mask |-> status]],
           lost' = lost
    PROVE  NoDanglingEvent' /\ OwnerInv'
<1>0. /\ \A q \in Holders \ {p} : holder'[q] = holder[q]
      /\ holder'[p] = [fd |-> fd, alive |-> TRUE] /\ p \in Holders \ {ListenerHolder}
      /\ p \notin lost
      /\ watch[fd] = None /\ fd \in Fds \ {Listener}
      /\ \A q \in Holders : holder[q].alive => holder[q].fd # fd
      /\ \A e \in batch : e.ptr \in Holders \ {p} /\ holder[e.ptr].fd \in Fds \ {fd}
  BY PeerAdded, Zenon
<1>l. Living
  BY DEF Living
<1> USE <1>0, <1>l
<1>1. /\ \A f \in Fds \ {fd} : watch'[f] = watch[f]
      /\ watch'[fd] = [ptr |-> p, mask |-> status] /\ watch'[fd].ptr = p /\ watch'[fd] # None
  <2>1. watch \in [Fds -> {None} \cup [ptr : Holders, mask : SUBSET Events]]
    BY DEF IInv, TypeOK
  <2> QED
    BY <2>1, LoopAssumption
<1>2. holder'[p].fd = fd /\ holder'[p].alive
  OBVIOUS
<1>3. NoDanglingEvent'
  <2>1. \A e \in batch : EntryOK(e) => EntryOK(e)'
    BY <1>1 DEF EntryOK, Watches
  <2> QED
    BY <2>1, BatchKept DEF IInv
<1>4. WatchedMeansOwned'
  <2> SUFFICES ASSUME NEW f \in Fds, watch'[f] # None
               PROVE  /\ holder'[watch'[f].ptr].alive /\ holder'[watch'[f].ptr].fd = f
                      /\ f = Listener \/ f \in open'
    BY DEF WatchedMeansOwned
  <2>1. CASE f = fd
    BY <1>1, <1>2, <2>1
  <2>2. CASE f # fd
    <3>1. watch[f] # None /\ watch'[f] = watch[f] /\ watch[f].ptr \in Holders
      BY <1>1, <2>2, WatchedType DEF IInv
    <3>2. /\ holder[watch[f].ptr].alive /\ holder[watch[f].ptr].fd = f
          /\ f = Listener \/ f \in open
      BY <3>1 DEF IInv, OwnerInv, WatchedMeansOwned
    <3> QED
      BY <3>1, <3>2
  <2> QED
    BY <2>1, <2>2
<1>5. LostInv'
  <2>1. \A q \in lost : q \in Holders \ {p} /\ holder'[q] = holder[q]
    BY DEF IInv, TypeOK, Holders
  <2>2. ASSUME NEW q \in lost
        PROVE  /\ holder'[q].alive /\ holder'[q].fd \in open'
               /\ \A r \in Holders : r # q /\ holder'[r].alive => holder'[r].fd # holder'[q].fd
    BY <1>2, <2>1 DEF IInv, OwnerInv, LostInv
  <2>3. ASSUME NEW f \in Fds, NEW q \in lost PROVE ~ (watch'[f] # None /\ watch'[f].ptr = q)
    BY <1>1 DEF IInv, OwnerInv, LostInv, Watches
  <2> QED
    BY <2>2, <2>3 DEF LostInv, Watches
<1>6. ListenerInv'
  <2>1. ListenerHolder \in Holders /\ Listener \in Fds \ {fd}
    BY DEF Fds, Holders
  <2> QED
    BY <1>1, <2>1 DEF IInv, OwnerInv, ListenerInv
<1>7. OwnedMeansWatched'
  <2>1. ASSUME NEW q \in Holders \ lost, holder'[q].alive
        PROVE  watch'[holder'[q].fd] # None /\ watch'[holder'[q].fd].ptr = q
    <3>1. CASE q = p
      BY <1>1, <1>2, <3>1
    <3>2. CASE q # p
      <4>1. holder'[q] = holder[q] /\ holder[q].fd \in Fds \ {fd}
        BY <2>1, <3>2 DEF IInv, TypeOK
      <4> QED
        BY <1>1, <2>1, <4>1 DEF IInv, OwnerInv, OwnedMeansWatched
    <3> QED
      BY <3>1, <3>2
  <2>2. ASSUME NEW f \in open'
        PROVE  watch'[f] # None \/ \E q \in lost : holder'[q].fd = f
    <3>1. CASE f = fd
      BY <1>1, <3>1
    <3>2. CASE f # fd
      <4>1. f \in open /\ f \in Fds /\ watch'[f] = watch[f]
        BY <1>1, <3>2 DEF IInv, TypeOK, Fds
      <4>2. \A q \in lost : q \in Holders /\ holder'[q] = holder[q]
        BY DEF IInv, TypeOK, Holders
      <4> QED
        BY <4>1, <4>2 DEF IInv, OwnerInv, OwnedMeansWatched
    <3> QED
      BY <3>1, <3>2
  <2> QED
    BY <2>1, <2>2 DEF OwnedMeansWatched
<1> QED
  BY <1>3, <1>4, <1>5, <1>6, <1>7 DEF OwnerInv

\* The accept callback throws: the new descriptor and holder are nobody's.
LEMMA PeerLost ==
    ASSUME IInv, pc = "dispatch", NEW fd \in Peers \ open, NEW p \in Addresses,
           ~ holder[p].alive, open' = open \cup {fd}, batch' \subseteq batch,
           holder' = [holder EXCEPT ![p] = [fd |-> fd, alive |-> TRUE]],
           watch' = watch, lost' = lost \cup {p}
    PROVE  NoDanglingEvent' /\ OwnerInv'
<1>0. /\ \A q \in Holders \ {p} : holder'[q] = holder[q]
      /\ holder'[p] = [fd |-> fd, alive |-> TRUE] /\ p \in Holders \ {ListenerHolder}
      /\ p \notin lost
      /\ watch[fd] = None /\ fd \in Fds \ {Listener}
      /\ \A q \in Holders : holder[q].alive => holder[q].fd # fd
      /\ \A e \in batch : e.ptr \in Holders \ {p} /\ holder[e.ptr].fd \in Fds \ {fd}
  BY PeerAdded, Zenon
<1>l. Living
  BY DEF Living
<1> USE <1>0, <1>l
<1>1. holder'[p].fd = fd /\ holder'[p].alive
  OBVIOUS
<1>2. NoDanglingEvent'
  <2>1. \A e \in batch : EntryOK(e) => EntryOK(e)'
    BY DEF EntryOK, Watches
  <2> QED
    BY <2>1, BatchKept DEF IInv
<1>3. \A f \in Fds : watch[f] # None => watch[f].ptr \in Holders \ {p}
  BY WatchedType DEF IInv, OwnerInv, WatchedMeansOwned
<1>4. WatchedMeansOwned'
  BY <1>3 DEF IInv, OwnerInv, WatchedMeansOwned
<1>5. \A q \in lost : q \in Holders \ {p} /\ holder'[q] = holder[q]
  BY DEF IInv, TypeOK, Holders
<1>6. LostInv'
  <2>1. ASSUME NEW q \in lost
        PROVE  /\ holder'[q].alive /\ holder'[q].fd \in open'
               /\ \A r \in Holders : r # q /\ holder'[r].alive => holder'[r].fd # holder'[q].fd
    BY <1>1, <1>5 DEF IInv, OwnerInv, LostInv
  <2>2. \A r \in Holders : r # p /\ holder'[r].alive => holder'[r].fd # holder'[p].fd
    BY <1>1
  <2>3. \A f \in Fds, q \in lost \cup {p} : ~ (watch[f] # None /\ watch[f].ptr = q)
    BY <1>3 DEF IInv, OwnerInv, LostInv, Watches
  <2> QED
    BY <1>1, <2>1, <2>2, <2>3 DEF LostInv, Watches
<1>7. ListenerInv'
  BY DEF IInv, OwnerInv, ListenerInv, Holders
<1>8. OwnedMeansWatched'
  <2>1. ASSUME NEW q \in Holders \ (lost \cup {p}), holder'[q].alive
        PROVE  watch[holder'[q].fd] # None /\ watch[holder'[q].fd].ptr = q
    BY <2>1 DEF IInv, OwnerInv, OwnedMeansWatched
  <2>2. ASSUME NEW f \in open
        PROVE  watch[f] # None \/ \E q \in lost : holder'[q].fd = f
    BY <1>5 DEF IInv, OwnerInv, OwnedMeansWatched
  <2> QED
    BY <1>1, <2>1, <2>2 DEF OwnedMeansWatched
<1> QED
  BY <1>2, <1>4, <1>6, <1>7, <1>8 DEF OwnerInv

\* The connection of an entry that is not the listener's: its descriptor is
\* watched through its holder, and no other entry has either.
LEMMA ServedPeer ==
    ASSUME IInv, NEW e \in batch, ~ IsListener(e)
    PROVE  /\ e.ptr \in Holders \ {ListenerHolder} /\ e.ptr \notin lost
           /\ holder[e.ptr].fd \in Peers /\ holder[e.ptr].fd \in open
           /\ holder[e.ptr].fd \in Fds \ {Listener}
           /\ Watches(holder[e.ptr].fd, e.ptr)
           /\ \A f \in Fds : watch[f] # None /\ f # holder[e.ptr].fd => watch[f].ptr \in Holders \ {e.ptr}
           /\ \A q \in Holders : holder[q].alive /\ q # e.ptr => holder[q].fd \in Fds \ {holder[e.ptr].fd}
<1>1. e.ptr \in Holders /\ holder[e.ptr].fd \in Fds \ {Listener} /\ holder[e.ptr].fd \in Peers
  BY DEF IInv, TypeOK, IsListener, Fds
<1>2. Watches(holder[e.ptr].fd, e.ptr) /\ holder[e.ptr].alive /\ Living
  BY DEF IInv, NoDanglingEvent, Watches, BatchInv, Living
<1>3. e.ptr \notin lost
  BY <1>1, <1>2 DEF IInv, OwnerInv, LostInv
<1>4. e.ptr # ListenerHolder
  BY <1>1 DEF IInv, OwnerInv, ListenerInv
<1>5. holder[e.ptr].fd \in open
  BY <1>1, <1>2 DEF IInv, OwnerInv, WatchedMeansOwned, Watches
<1>6. \A f \in Fds : watch[f] # None /\ f # holder[e.ptr].fd => watch[f].ptr \in Holders \ {e.ptr}
  BY WatchedType DEF IInv, OwnerInv, WatchedMeansOwned
<1>7. ASSUME NEW q \in Holders, holder[q].alive, q # e.ptr
      PROVE  holder[q].fd \in Fds \ {holder[e.ptr].fd}
  <2>1. holder[q].fd \in Fds
    BY DEF IInv, TypeOK
  <2>2. CASE q \in lost
    BY <1>1, <1>2, <1>7, <2>1, <2>2 DEF IInv, OwnerInv, LostInv
  <2>3. CASE q \notin lost
    BY <1>2, <1>7, <2>1, <2>3 DEF IInv, OwnerInv, OwnedMeansWatched, Watches
  <2> QED
    BY <2>2, <2>3
<1> QED
  BY <1>1, <1>2, <1>3, <1>4, <1>5, <1>6, <1>7

\* close() and delete: the other entries, descriptors and holders are not
\* touched.
LEMMA PeerClosed ==
    ASSUME IInv, NEW e \in batch, ~ IsListener(e), ClosePeer(e.ptr),
           batch' = batch \ {e}, lost' = lost
    PROVE  NoDanglingEvent' /\ OwnerInv'
<1> DEFINE p == e.ptr
           fd == holder[p].fd
<1>0. /\ p \in Holders \ {ListenerHolder} /\ p \notin lost
      /\ fd \in Fds \ {Listener} /\ Watches(fd, p)
      /\ \A f \in Fds : watch[f] # None /\ f # fd => watch[f].ptr \in Holders \ {p}
      /\ \A q \in Holders : holder[q].alive /\ q # p => holder[q].fd \in Fds \ {fd}
  BY ServedPeer, Zenon
<1>1. open' = open \ {fd} /\ watch' = [watch EXCEPT ![fd] = None]
      /\ holder' = [holder EXCEPT ![p].alive = FALSE]
  BY DEF ClosePeer
<1>2. /\ watch'[fd] = None /\ \A f \in Fds \ {fd} : watch'[f] = watch[f]
      /\ ~ holder'[p].alive /\ \A q \in Holders \ {p} : holder'[q] = holder[q]
  BY <1>0, <1>1 DEF IInv, TypeOK
<1>3. \A d \in batch' : d.ptr \in Holders \ {p} /\ holder[d.ptr].alive
  BY DEF IInv, TypeOK, NoDanglingEvent
<1>4. Living
  BY DEF IInv, BatchInv, Living
<1> HIDE DEF p, fd
<1>5. NoDanglingEvent'
  <2>1. \A d \in batch' : EntryOK(d) => EntryOK(d)'
    BY <1>0, <1>2, <1>3 DEF EntryOK, Watches
  <2> QED
    BY <2>1, BatchKept DEF IInv
<1>6. WatchedMeansOwned'
  BY <1>0, <1>1, <1>2 DEF IInv, OwnerInv, WatchedMeansOwned
<1>7. \A q \in lost : q \in Holders \ {p} /\ holder'[q] = holder[q] /\ holder[q].fd # fd
  <2>1. lost \subseteq Holders
    BY DEF IInv, TypeOK, Holders
  <2> QED
    BY <1>0, <1>2, <2>1 DEF IInv, OwnerInv, LostInv
<1>8. LostInv'
  <2>1. ASSUME NEW q \in lost
        PROVE  /\ holder'[q].alive /\ holder'[q].fd \in open'
               /\ \A r \in Holders : r # q /\ holder'[r].alive => holder'[r].fd # holder'[q].fd
    BY <1>1, <1>2, <1>7 DEF IInv, OwnerInv, LostInv
  <2>2. \A f \in Fds, q \in lost : ~ (watch'[f] # None /\ watch'[f].ptr = q)
    BY <1>2 DEF IInv, OwnerInv, LostInv, Watches
  <2> QED
    BY <2>1, <2>2 DEF LostInv, Watches
<1>9. ListenerInv'
  BY <1>0, <1>2, <1>4 DEF IInv, OwnerInv, ListenerInv, Fds, Holders
<1>10. OwnedMeansWatched'
  <2>1. ASSUME NEW q \in Holders \ lost, holder'[q].alive
        PROVE  watch'[holder'[q].fd] # None /\ watch'[holder'[q].fd].ptr = q
    BY <1>0, <1>2, <1>4, <2>1 DEF IInv, OwnerInv, OwnedMeansWatched
  <2>2. ASSUME NEW f \in open'
        PROVE  watch'[f] # None \/ \E q \in lost : holder'[q].fd = f
    <3>1. f \in open /\ f \in Fds \ {fd}
      BY <1>1 DEF IInv, TypeOK, Fds
    <3> QED
      BY <1>2, <1>4, <1>7, <3>1 DEF IInv, OwnerInv, OwnedMeansWatched
  <2> QED
    BY <2>1, <2>2 DEF OwnedMeansWatched
<1> QED
  BY <1>5, <1>6, <1>8, <1>9, <1>10 DEF OwnerInv

\* EPOLL_CTL_MOD: only the mask changes.
LEMMA PeerModified ==
    ASSUME IInv, NEW e \in batch, ~ IsListener(e), NEW status \in SUBSET Events,
           watch' = [watch EXCEPT ![holder[e.ptr].fd] = [ptr |-> e.ptr, mask |-> status]],
           UNCHANGED <<open, holder, lost>>, batch' \subseteq batch
    PROVE  NoDanglingEvent' /\ OwnerInv'
<1> DEFINE p == e.ptr
           fd == holder[p].fd
<1>0. p \in Holders /\ fd \in Fds \ {Listener} /\ Watches(fd, p)
  BY ServedPeer, Zenon
<1>1. watch' = [watch EXCEPT ![fd] = [ptr |-> p, mask |-> status]]
  OBVIOUS
<1> HIDE DEF p, fd
<1>2. /\ \A f \in Fds \ {fd} : watch'[f] = watch[f]
      /\ watch'[fd] # None /\ watch'[fd].ptr = p
  <2>1. watch \in [Fds -> {None} \cup [ptr : Holders, mask : SUBSET Events]]
    BY DEF IInv, TypeOK
  <2> QED
    BY <1>0, <1>1, <2>1, LoopAssumption
<1>3. \A f \in Fds : (watch'[f] # None <=> watch[f] # None) /\ (watch[f] # None => watch'[f].ptr = watch[f].ptr)
  BY <1>0, <1>2 DEF Watches
<1>4. Living
  BY DEF IInv, BatchInv, Living
<1>5. \A q \in Holders : holder[q].fd \in Fds
  BY DEF IInv, TypeOK
<1>6. NoDanglingEvent'
  <2>1. \A d \in batch : d.ptr \in Holders
    BY DEF IInv, TypeOK
  <2>2. \A d \in batch : EntryOK(d) => EntryOK(d)'
    BY <1>3, <1>5, <2>1 DEF EntryOK, Watches
  <2> QED
    BY <2>2, BatchKept DEF IInv
<1>7. WatchedMeansOwned'
  BY <1>3 DEF IInv, OwnerInv, WatchedMeansOwned
<1>8. LostInv'
  BY <1>3 DEF IInv, OwnerInv, LostInv, Watches
<1>9. ListenerInv'
  BY <1>0, <1>2, <1>4 DEF IInv, OwnerInv, ListenerInv, Fds
<1>10. OwnedMeansWatched'
  <2>1. open \subseteq Fds
    BY DEF IInv, TypeOK, Fds
  <2> QED
    BY <1>3, <1>4, <1>5, <2>1 DEF IInv, OwnerInv, OwnedMeansWatched
<1> QED
  BY <1>6, <1>7, <1>8, <1>9, <1>10 DEF OwnerInv

-----------------------------------------------------------------------------
(* The steps.                                                              *)

\* After an entry the loop goes on, or waits again when it was the last one.
LEMMA ContinueStep ==
    ASSUME NEW e \in batch, Continue(e) \/ Throw
    PROVE  /\ pc' \in {"wait", "dispatch", "threw"} /\ BatchInv'
           /\ batch' \subseteq batch /\ (Continue(e) => batch' = batch \ {e})
BY DEF Continue, Throw, BatchInv

\* epoll_wait returns: every entry points to the holder of a watched
\* descriptor, and no two to one.
LEMMA EpollStep ==
    ASSUME IInv, EpollReturns
    PROVE  IInv'
<1>0. /\ UNCHANGED <<callback, watch, open, holder, ready, pending, served, lost>>
      /\ pc = "wait" /\ pc' = "dispatch" /\ Living /\ Living' /\ accepted' = {}
  BY DEF EpollReturns, Living
<1>1. PICK S \in SUBSET ReadyFds : batch' = {[ptr |-> watch[fd].ptr, events |-> Reported(fd)] : fd \in S}
  BY DEF EpollReturns
<1>2. ASSUME NEW fd \in S
      PROVE  /\ fd \in Fds /\ watch[fd] # None /\ watch[fd].ptr \in Holders
             /\ holder[watch[fd].ptr].alive /\ holder[watch[fd].ptr].fd = fd
             /\ Reported(fd) \in SUBSET (Events \cup {"hup"})
  <2>1. fd \in Fds /\ watch[fd] # None
    BY DEF ReadyFds
  <2>2. watch[fd].ptr \in Holders
    BY <2>1, WatchedType DEF IInv
  <2>3. holder[watch[fd].ptr].alive /\ holder[watch[fd].ptr].fd = fd
    BY <2>1 DEF IInv, OwnerInv, WatchedMeansOwned
  <2>4. ReadyFor(fd) \in SUBSET (Events \cup {"hup"})
    BY <2>1 DEF IInv, TypeOK, ReadyFor, Fds, Events
  <2> QED
    BY <2>1, <2>2, <2>3, <2>4 DEF Reported
<1>3. batch' \subseteq [ptr : Holders, events : SUBSET (Events \cup {"hup"})]
  BY <1>1, <1>2
<1>4. TypeOK'
  BY <1>0, <1>3 DEF IInv, TypeOK
<1>5. NoDanglingEvent'
  <2>1. ASSUME NEW e \in batch'
        PROVE  \E fd \in S : /\ e = [ptr |-> watch[fd].ptr, events |-> Reported(fd)]
                             /\ e.ptr = watch[fd].ptr /\ holder[e.ptr].fd = fd
                             /\ holder[e.ptr].alive /\ watch[fd] # None
    BY <1>1, <1>2
  <2>2. \A e \in batch' : holder[e.ptr].alive /\ watch[holder[e.ptr].fd] # None /\ watch[holder[e.ptr].fd].ptr = e.ptr
    BY <2>1
  <2>3. \A d, e \in batch' : d.ptr = e.ptr => d = e
    BY <2>1
  <2> QED
    BY <1>0, <2>2, <2>3 DEF NoDanglingEvent
<1>6. OwnerInv'
  <2>1. WatchedMeansOwned' /\ LostInv' /\ ListenerInv'
    BY <1>0 DEF IInv, OwnerInv, WatchedMeansOwned, LostInv, ListenerInv, Watches
  <2>2. OwnedMeansWatched'
    BY <1>0 DEF IInv, OwnerInv, OwnedMeansWatched
  <2> QED
    BY <2>1, <2>2 DEF OwnerInv
<1>7. BatchInv'
  BY <1>0 DEF BatchInv
<1>8. EventsMeetTheirConnections'
  BY <1>0 DEF EventsMeetTheirConnections
<1> QED
  BY <1>0, <1>4, <1>5, <1>6, <1>7, <1>8 DEF IInv, NewInv

\* An accepted connection.
LEMMA AcceptStep ==
    ASSUME IInv, pc = "dispatch", NEW e \in batch, NEW fd \in Peers, NEW p \in Addresses,
           AcceptThrows(e, fd, p) \/ \E status \in SUBSET Events : AcceptPeer(e, fd, p, status)
    PROVE  IInv'
<1>0. /\ fd \in Peers \ open /\ ~ holder[p].alive /\ pending > 0
      /\ pending' = pending - 1 /\ open' = open \cup {fd}
      /\ ready' = [ready EXCEPT ![fd] = {"out"}]
      /\ holder' = [holder EXCEPT ![p] = [fd |-> fd, alive |-> TRUE]]
      /\ callback' = callback /\ (Continue(e) \/ Throw) /\ accepted' = accepted \cup {fd}
  BY DEF AcceptThrows, AcceptPeer
<1>1. pc' \in {"wait", "dispatch", "threw"} /\ BatchInv' /\ batch' \subseteq batch
  BY <1>0, ContinueStep
<1>2. /\ pending' \in 0 .. MaxPending /\ open' \subseteq Peers /\ accepted' \subseteq Peers /\ fd \in Fds /\ p \in Holders
      /\ ready' \in [Peers -> SUBSET (Events \cup {"hup"})]
      /\ holder' \in [Holders -> [fd : Fds, alive : BOOLEAN]]
      /\ batch' \subseteq [ptr : Holders, events : SUBSET (Events \cup {"hup"})]
  BY <1>0, <1>1, LoopAssumption DEF IInv, TypeOK, Fds, Holders, Events
<1>m. EventsMeetTheirConnections'
  <2>1. /\ \A q \in Holders \ {p} : holder'[q] = holder[q]
        /\ \A d \in batch : d.ptr \in Holders \ {p} /\ holder[d.ptr].fd \in Fds \ {fd}
    BY <1>0, <1>1, PeerAdded, Zenon
  <2> QED
    BY <1>0, <1>1, <2>1 DEF IInv, EventsMeetTheirConnections
<1>3. CASE AcceptThrows(e, fd, p)
  <2>1. watch' = watch /\ lost' = lost \cup {p} /\ served' = served
    BY <1>3 DEF AcceptThrows
  <2>2. NoDanglingEvent' /\ OwnerInv'
    BY <1>0, <1>1, <2>1, PeerLost
  <2>3. TypeOK'
    BY <1>0, <1>1, <1>2, <2>1 DEF IInv, TypeOK
  <2> QED
    BY <1>1, <1>m, <2>2, <2>3 DEF IInv, NewInv
<1>4. ASSUME NEW status \in SUBSET Events, AcceptPeer(e, fd, p, status)
      PROVE  IInv'
  <2>1. /\ watch' = [watch EXCEPT ![fd] = [ptr |-> p, mask |-> status]] /\ lost' = lost
        /\ served' = [event |-> "accept", by |-> callback["accept"], fd |-> fd]
        /\ callback["accept"] # "unset"
    BY <1>4 DEF AcceptPeer, Callable
  <2>2. NoDanglingEvent' /\ OwnerInv'
    BY <1>0, <1>1, <2>1, PeerWatched
  <2>3. served' \in [event : Kinds \cup {"none"}, by : Kinds \cup {"none"}, fd : Fds \cup {None}]
    <3>1. "accept" \in Kinds /\ callback["accept"] \in Kinds
      BY <2>1 DEF IInv, TypeOK, Kinds
    <3> QED
      BY <1>2, <2>1, <3>1
  <2>4. watch' \in [Fds -> {None} \cup [ptr : Holders, mask : SUBSET Events]]
    BY <1>2, <2>1 DEF IInv, TypeOK
  <2>5. TypeOK'
    BY <1>0, <1>1, <1>2, <2>1, <2>3, <2>4 DEF IInv, TypeOK
  <2> QED
    BY <1>1, <1>m, <2>2, <2>5 DEF IInv, NewInv
<1> QED
  BY <1>3, <1>4

\* A callback for a peer has returned.
LEMMA HandlePeerStep ==
    ASSUME IInv, pc = "dispatch", NEW e \in batch, NEW status \in SUBSET Events, HandlePeer(e, status)
    PROVE  IInv'
<1> DEFINE fd == holder[e.ptr].fd
<1>0. /\ ~ IsListener(e) /\ SlotOf(e) # "none" /\ callback[SlotOf(e)] # "unset"
      /\ served' = [event |-> SlotOf(e), by |-> callback[SlotOf(e)], fd |-> fd]
      /\ Continue(e) /\ UNCHANGED <<callback, pending, lost, accepted>>
      /\ IF status = {}
         THEN ClosePeer(e.ptr)
         ELSE /\ watch' = [watch EXCEPT ![fd] = [ptr |-> e.ptr, mask |-> status]]
              /\ \E r \in AfterIO(fd) : ready' = [ready EXCEPT ![fd] = r]
              /\ UNCHANGED <<open, holder>>
  BY DEF HandlePeer, Callable
<1>1. /\ pc' \in {"wait", "dispatch", "threw"} /\ BatchInv' /\ batch' \subseteq batch
      /\ batch' = batch \ {e}
  BY <1>0, ContinueStep
<1>2. e.ptr \in Holders /\ fd \in Peers /\ fd \in Fds
  BY <1>0, ServedPeer DEF Fds
<1>3. served' \in [event : Kinds \cup {"none"}, by : Kinds \cup {"none"}, fd : Fds \cup {None}]
  <2>1. SlotOf(e) \in Kinds
    BY <1>0 DEF SlotOf, Kinds
  <2>2. callback[SlotOf(e)] \in Kinds
    BY <1>0, <2>1 DEF IInv, TypeOK
  <2> QED
    BY <1>0, <1>2, <2>1, <2>2
<1>4. CASE status = {}
  <2>1. ClosePeer(e.ptr)
    BY <1>0, <1>4
  <2>2. NoDanglingEvent' /\ OwnerInv'
    BY <1>0, <1>1, <2>1, PeerClosed
  <2>3. /\ open' \subseteq Peers
        /\ watch' \in [Fds -> {None} \cup [ptr : Holders, mask : SUBSET Events]]
        /\ holder' \in [Holders -> [fd : Fds, alive : BOOLEAN]]
        /\ ready' \in [Peers -> SUBSET (Events \cup {"hup"})]
    <3>1. /\ open \subseteq Peers
          /\ watch \in [Fds -> {None} \cup [ptr : Holders, mask : SUBSET Events]]
          /\ holder \in [Holders -> [fd : Fds, alive : BOOLEAN]]
          /\ ready \in [Peers -> SUBSET (Events \cup {"hup"})]
      BY DEF IInv, TypeOK
    <3>2. open' \subseteq Peers
      BY <2>1, <3>1 DEF ClosePeer
    <3>3. watch' \in [Fds -> {None} \cup [ptr : Holders, mask : SUBSET Events]]
      BY <1>2, <2>1, <3>1 DEF ClosePeer
    <3>4. holder' \in [Holders -> [fd : Fds, alive : BOOLEAN]]
      BY <1>2, <2>1, <3>1 DEF ClosePeer
    <3>5. ready' \in [Peers -> SUBSET (Events \cup {"hup"})]
      BY <1>2, <2>1, <3>1 DEF ClosePeer
    <3> QED
      BY <3>2, <3>3, <3>4, <3>5
  <2>4. TypeOK'
    BY <1>0, <1>1, <1>3, <2>3 DEF IInv, TypeOK
  <2>5. \A d \in batch' : holder'[d.ptr].fd = holder[d.ptr].fd
    BY <1>1, <1>2, <2>1 DEF ClosePeer, IInv, TypeOK
  <2>6. EventsMeetTheirConnections'
    BY <1>0, <1>1, <2>5, MeetingsKept DEF IInv
  <2> QED
    BY <1>1, <2>2, <2>4, <2>6 DEF IInv, NewInv
<1>5. CASE status # {}
  <2>1. /\ watch' = [watch EXCEPT ![fd] = [ptr |-> e.ptr, mask |-> status]]
        /\ \E r \in AfterIO(fd) : ready' = [ready EXCEPT ![fd] = r]
        /\ UNCHANGED <<open, holder>>
    BY <1>0, <1>5
  <2>2. NoDanglingEvent' /\ OwnerInv'
    BY <1>0, <1>1, <2>1, PeerModified
  <2>3. watch' \in [Fds -> {None} \cup [ptr : Holders, mask : SUBSET Events]]
    BY <1>2, <2>1 DEF IInv, TypeOK
  <2>4. ready' \in [Peers -> SUBSET (Events \cup {"hup"})]
    BY <1>2, <2>1 DEF IInv, TypeOK, AfterIO
  <2>5. TypeOK'
    BY <1>0, <1>1, <1>3, <2>1, <2>3, <2>4 DEF IInv, TypeOK
  <2>6. EventsMeetTheirConnections'
    BY <1>0, <1>1, <2>1, MeetingsKept DEF IInv
  <2> QED
    BY <1>1, <2>2, <2>5, <2>6 DEF IInv, NewInv
<1> QED
  BY <1>4, <1>5

\* Every entry of the batch is handled without breaking the ownership.
LEMMA DispatchStep ==
    ASSUME IInv, Dispatch
    PROVE  IInv'
<1>0. PICK e \in batch : Handle(e) /\ pc = "dispatch"
  BY DEF Dispatch
<1>1. CASE AcceptAgain(e) \/ AcceptFails(e) \/ HandlerThrows(e) \/ PassOver(e)
  <2>1. /\ UNCHANGED <<callback, watch, open, holder, ready, pending, served, lost, accepted>>
        /\ Continue(e) \/ Throw
    BY <1>1 DEF AcceptAgain, AcceptFails, HandlerThrows, PassOver, history
  <2>2. pc' \in {"wait", "dispatch", "threw"} /\ BatchInv' /\ batch' \subseteq batch
    BY <2>1, ContinueStep
  <2>3. NoDanglingEvent' /\ OwnerInv'
    BY <1>0, <2>1, <2>2, OwnersKept DEF IInv, Living
  <2>4. TypeOK'
    BY <2>1, <2>2 DEF IInv, TypeOK
  <2>5. EventsMeetTheirConnections'
    BY <2>1, <2>2, MeetingsKept DEF IInv
  <2> QED
    BY <2>2, <2>3, <2>4, <2>5 DEF IInv, NewInv
<1> QED
  BY <1>0, <1>1, AcceptStep, HandlePeerStep DEF Handle

\* The destructors: nothing is watched any more.
LEMMA DestroyStep ==
    ASSUME IInv, Destroy
    PROVE  IInv'
<1>1. /\ pc' = "destroyed" /\ pending' = 0 /\ \A fd \in Fds : watch'[fd] = None
      /\ batch = {} /\ batch' = {} /\ ~ Living'
      /\ UNCHANGED <<callback, open, holder, ready, served, lost, accepted>>
  BY DEF Destroy, IInv, BatchInv, Living, history
<1>2. TypeOK'
  BY <1>1, LoopAssumption DEF IInv, TypeOK, Destroy
<1>3. BatchInv' /\ NoDanglingEvent' /\ EventsMeetTheirConnections'
  BY <1>1 DEF BatchInv, NoDanglingEvent, EventsMeetTheirConnections
<1>4. OwnerInv'
  BY <1>1 DEF IInv, OwnerInv, WatchedMeansOwned, OwnedMeansWatched, LostInv, ListenerInv, Watches
<1> QED
  BY <1>1, <1>2, <1>3, <1>4 DEF IInv, NewInv

\* The constructor.
LEMMA ConstructStep ==
    ASSUME IInv, Construct \/ \E stage \in Stages : ConstructThrows(stage)
    PROVE  IInv'
<1> DEFINE Entry == [ptr |-> ListenerHolder, mask |-> {"in"}]
<1>0. /\ pc = "new" /\ pc' \in {"idle", "halfbuilt", "destroyed"} /\ batch = {} /\ batch' = {}
      /\ UNCHANGED <<callback, open, ready, pending, served, lost, accepted>>
      /\ Living' <=> pc' = "idle"
  BY DEF Construct, ConstructThrows, IInv, BatchInv, Living, history
<1>1. Listener \in Fds /\ ListenerHolder \in Holders /\ ListenerHolder \notin lost
  BY LoopAssumption DEF Fds, Holders, IInv, TypeOK
<1>2. Entry \in [ptr : Holders, mask : SUBSET Events] /\ Entry.ptr = ListenerHolder
  BY <1>1 DEF Events
<1>3. /\ \A fd \in Fds : watch[fd] = None
      /\ \A p \in Holders : ~ holder[p].alive
      /\ open = {} /\ lost = {}
  BY <1>0 DEF IInv, NewInv
<1> DEFINE OnlyAlive == /\ holder'[ListenerHolder].fd = Listener
                        /\ \A p \in Holders \ {ListenerHolder} : holder'[p] = holder[p]
                        /\ holder' \in [Holders -> [fd : Fds, alive : BOOLEAN]]
<1>4. OnlyAlive
  <2>1. CASE holder' = [holder EXCEPT ![ListenerHolder].alive = TRUE]
    BY <1>1, <2>1 DEF IInv, TypeOK, OwnerInv, ListenerInv
  <2>2. CASE holder' = holder
    BY <1>1, <2>2 DEF IInv, TypeOK, OwnerInv, ListenerInv
  <2> QED
    BY <2>1, <2>2 DEF Construct, ConstructThrows
<1>5. pc' = "idle" => watch' = [watch EXCEPT ![Listener] = Entry] /\ holder'[ListenerHolder].alive
  <2>1. CASE Construct
    <3>1. holder' = [holder EXCEPT ![ListenerHolder].alive = TRUE]
      BY <2>1 DEF Construct
    <3>2. holder'[ListenerHolder].alive
      BY <1>1, <3>1 DEF IInv, TypeOK
    <3> QED
      BY <2>1, <3>2 DEF Construct
  <2>2. CASE \E stage \in Stages : ConstructThrows(stage)
    BY <2>2 DEF ConstructThrows
  <2> QED
    BY <2>1, <2>2
<1>6. pc' # "idle" => watch' = watch
  BY DEF Construct, ConstructThrows
<1> HIDE DEF Entry
<1>7. TypeOK'
  BY <1>0, <1>1, <1>2, <1>4, <1>5, <1>6 DEF IInv, TypeOK
<1>8. BatchInv' /\ NoDanglingEvent' /\ EventsMeetTheirConnections'
  BY <1>0 DEF BatchInv, NoDanglingEvent, EventsMeetTheirConnections
<1>9. OwnerInv'
  <2>1. LostInv'
    BY <1>0, <1>3 DEF LostInv
  <2>2. CASE pc' = "idle"
    <3>1. /\ watch'[Listener] = Entry /\ Entry # None
          /\ \A fd \in Fds \ {Listener} : watch'[fd] = None
      BY <1>1, <1>2, <1>3, <1>5, <2>2, LoopAssumption DEF IInv, TypeOK
    <3>2. WatchedMeansOwned'
      BY <1>2, <1>4, <1>5, <2>2, <3>1 DEF WatchedMeansOwned
    <3>3. OwnedMeansWatched'
      BY <1>0, <1>2, <1>3, <1>4, <3>1 DEF OwnedMeansWatched
    <3>4. ListenerInv'
      BY <1>4, <3>1 DEF ListenerInv, Entry
    <3> QED
      BY <2>1, <3>2, <3>3, <3>4 DEF OwnerInv
  <2>3. CASE pc' # "idle"
    BY <1>0, <1>3, <1>4, <1>6, <2>1, <2>3 DEF OwnerInv, WatchedMeansOwned, OwnedMeansWatched, ListenerInv
  <2> QED
    BY <2>2, <2>3
<1> QED
  BY <1>0, <1>7, <1>8, <1>9 DEF IInv, NewInv

\* Every step keeps the invariant.
LEMMA InvStep == IInv /\ [Next]_vars => IInv'
<1> SUFFICES ASSUME IInv, [Next]_vars PROVE IInv'
  OBVIOUS
<1>1. ASSUME UNCHANGED <<watch, open, holder, lost, batch>>, accepted' = accepted, TypeOK', BatchInv',
             Living' => Living, pc' = "new" => pc = "new"
      PROVE  IInv'
  <2>1. NewInv'
    BY <1>1 DEF IInv, NewInv
  <2> QED
    BY <1>1, <2>1, OwnersKept, MeetingsKept DEF IInv
<1>2. ASSUME NEW kind \in Kinds, registerCallbackForEvent(kind)
      PROVE  IInv'
  <2>1. TypeOK' /\ BatchInv'
    BY <1>2 DEF registerCallbackForEvent, SlotFor, Kinds, IInv, TypeOK, BatchInv, history
  <2> QED
    BY <1>1, <1>2, <2>1 DEF registerCallbackForEvent, Living, history
<1>3. CASE startEventloop \/ EpollTimesOut \/ EpollInterrupted
  <2>1. TypeOK' /\ BatchInv'
    BY <1>3 DEF startEventloop, EpollTimesOut, EpollInterrupted, IInv, TypeOK, BatchInv, history
  <2> QED
    BY <1>1, <1>3, <2>1 DEF startEventloop, EpollTimesOut, EpollInterrupted, Living, history
<1>4. CASE Environment
  <2>1. CASE Connect \/ ConnectionWithdrawn
    <3>1. TypeOK' /\ BatchInv'
      BY <2>1, LoopAssumption DEF Connect, ConnectionWithdrawn, IInv, TypeOK, BatchInv, history
    <3> QED
      BY <1>1, <2>1, <3>1 DEF Connect, ConnectionWithdrawn, Living, history
  <2>2. ASSUME NEW fd \in Peers, PeerStep(fd)
        PROVE  IInv'
    <3>1. PICK r \in SUBSET (Events \cup {"hup"}) : BecomesReady(fd, r)
      BY <2>2 DEF PeerStep, Events
    <3>2. TypeOK' /\ BatchInv'
      BY <3>1 DEF BecomesReady, IInv, TypeOK, BatchInv, history
    <3> QED
      BY <1>1, <3>1, <3>2 DEF BecomesReady, Living, history
  <2> QED
    BY <1>4, <2>1, <2>2 DEF Environment
<1>5. CASE UNCHANGED vars
  <2>1. TypeOK' /\ BatchInv'
    BY <1>5 DEF vars, history, IInv, TypeOK, BatchInv
  <2> QED
    BY <1>1, <1>5, <2>1 DEF vars, history, Living
<1> QED
  BY <1>2, <1>3, <1>4, <1>5, EpollStep, DispatchStep, DestroyStep, ConstructStep DEF Next, Gone

-----------------------------------------------------------------------------
(* The theorems.                                                           *)

\* The invariant holds whatever the peers, the kernel and the callbacks do.
THEOREM Invariance == Spec => []IInv
BY InvInit, InvStep, PTL DEF Spec

\* The members of AsyncEpollEventLoop and the epoll set keep their types; in
\* particular a callback that runs is one that was registered.
THEOREM TypeCorrect == Spec => []TypeOK
<1>1. IInv => TypeOK
  BY DEF IInv
<1> QED
  BY <1>1, Invariance, PTL

\* startEventloop never follows the pointer of a holder that it has deleted,
\* however the batch that epoll_wait returned is ordered and whatever is
\* accepted and closed in the middle of it.
THEOREM EventsAreAlive == Spec => []NoDanglingEvent
<1>1. IInv => NoDanglingEvent
  BY DEF IInv
<1> QED
  BY <1>1, Invariance, PTL

\* A descriptor in the epoll set is open and leads to a live holder that
\* names it.
THEOREM WatchedIsOwned == Spec => []WatchedMeansOwned
<1>1. IInv => WatchedMeansOwned
  BY DEF IInv, OwnerInv
<1> QED
  BY <1>1, Invariance, PTL

\* Only a throwing accept callback leaks a descriptor and a holder.
THEOREM OwnedIsWatched == Spec => []OwnedMeansWatched
<1>1. IInv => OwnedMeansWatched
  BY DEF IInv, OwnerInv
<1> QED
  BY <1>1, Invariance, PTL

\* No callback's answer and no exception takes the listener out of the epoll
\* set: a loop that is started again accepts again.
THEOREM ListenerStaysWatched ==
    Spec => [](Living => watch[Listener] = [ptr |-> ListenerHolder, mask |-> {"in"}])
<1>1. IInv => (Living => watch[Listener] = [ptr |-> ListenerHolder, mask |-> {"in"}])
  BY DEF IInv, OwnerInv, ListenerInv
<1> QED
  BY <1>1, Invariance, PTL

\* startEventloop() does to a connection only what was reported of that very
\* connection, although close() and accept() hand its number on in mid-batch.
THEOREM EventsReachTheirConnections == Spec => []EventsMeetTheirConnections
<1>1. IInv => EventsMeetTheirConnections
  BY DEF IInv
<1> QED
  BY <1>1, Invariance, PTL

=============================================================================
