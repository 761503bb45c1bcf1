------------------------ MODULE InstancePlacesProofs ------------------------
(* Proofs about InstancePlaces, for every number of users, instances,      *)
(* zones, moves and updates.                                               *)
EXTENDS InstancePlaces, FiniteSetTheorems, TLAPS

(* What the messages at the heads of the queues are made of.               *)
LEMMA HeadCall ==
  ASSUME QueuesOK, NEW i \in Instance, calls[i] # <<>>
  PROVE  /\ Head(calls[i]) \in Call /\ Tail(calls[i]) \in Seq(Call)
         /\ Head(calls[i]).op = "reserve" => Head(calls[i]).nr \in Placed
         /\ Head(calls[i]).op = "cancel" => Head(calls[i]).user \in User
         /\ Head(calls[i]).op = "updated" => Head(calls[i]).pop \in Pop
<1>1. Head(calls[i]) \in Call /\ Tail(calls[i]) \in Seq(Call)
  BY DEF QueuesOK
<1> QED
  BY <1>1 DEF Call

LEMMA HeadPost ==
  ASSUME QueuesOK, NEW i \in Instance, posts[i] # <<>>
  PROVE  /\ Head(posts[i]) \in Post /\ Tail(posts[i]) \in Seq(Post)
         /\ Head(posts[i]).op = "open" => Head(posts[i]).n \in Int
         /\ Head(posts[i]).op = "reply" =>
              Head(posts[i]).nr \in Placed /\ Head(posts[i]).ok \in BOOLEAN
<1>1. Head(posts[i]) \in Post /\ Tail(posts[i]) \in Seq(Post)
  BY DEF QueuesOK
<1> QED
  BY <1>1 DEF Post

LEMMA HeadJob ==
  ASSUME QueuesOK, NEW u \in User, inbox[u] # <<>>
  PROVE  /\ Head(inbox[u]) \in Job /\ Tail(inbox[u]) \in Seq(Job)
         /\ Head(inbox[u]).nr \in Placed
<1>1. Head(inbox[u]) \in Job /\ Tail(inbox[u]) \in Seq(Job)
  BY DEF QueuesOK
<1> QED
  BY <1>1 DEF Job

LEMMA StageNames == /\ "idle" \in Stage /\ "asked" \in Stage /\ "reserving" \in Stage
                    /\ "creating" \in Stage /\ "elsewhere" \in Stage
                    /\ "going" \in Stage /\ "done" \in Stage
BY DEF Stage

(* A move that is with another peer, or that waits for an instance to be   *)
(* created, comes back or is over; nothing else changes.                   *)
Returns(k) == CreateFails(k) \/ RefusedElsewhere(k) \/ GoneElsewhere(k)

LEMMA Returned ==
  ASSUME TypeOK, NEW k \in Move, Returns(k)
  PROVE  /\ stage[k] \in {"creating", "elsewhere"}
         /\ \E s \in {"asked", "done"} : stage' = [stage EXCEPT ![k] = s]
         /\ orphan' \subseteq orphan /\ (stage'[k] = "done" => k \notin orphan')
         /\ \/ orphan' = {j \in orphan : stage'[j] # "done"}
            \/ stage'[k] = "done" /\ orphan' = orphan \ {k}
         /\ UNCHANGED <<places, people, queues, record, view, updates, mover, goal, inst, abroad>>
<1>1. stage[k] \in {"creating", "elsewhere"}
  BY DEF Returns, CreateFails, RefusedElsewhere, GoneElsewhere
<1>2. CASE Refused(k)
  BY <1>1, <1>2 DEF Refused
<1>3. CASE GoneElsewhere(k)
  BY <1>1, <1>3 DEF GoneElsewhere, TypeOK
<1> QED
  BY <1>2, <1>3 DEF Returns, CreateFails, RefusedElsewhere

LEMMA OpenPost == ASSUME NEW n \in Int PROVE [op |-> "open", n |-> n] \in Post
BY DEF Post

(* A queue of good messages stays one as long as moves keep their session  *)
(* and instance and instances stay.                                        *)
LEMMA SeqMono == ASSUME NEW S, NEW T, S \subseteq T PROVE Seq(S) \subseteq Seq(T)
OBVIOUS

LEMMA Monotone ==
  ASSUME QueuesOK, Placed \subseteq Placed'
  PROVE  /\ calls \in [Instance -> Seq(Call')]
         /\ posts \in [Instance -> Seq(Post')]
         /\ inbox \in [User -> Seq(Job')]
<1>1. Call \subseteq Call'
  BY DEF Call
<1>2. Post \subseteq Post'
  BY DEF Post
<1>3. Job \subseteq Job'
  BY DEF Job
<1>4. Seq(Call) \subseteq Seq(Call') /\ Seq(Post) \subseteq Seq(Post') /\ Seq(Job) \subseteq Seq(Job')
  BY <1>1, <1>2, <1>3, SeqMono
<1> QED
  BY <1>4 DEF QueuesOK

LEMMA SamePlaced ==
  ASSUME UNCHANGED <<made, mover, inst>>
  PROVE  Placed' = Placed /\ Call' = Call /\ Post' = Post /\ Job' = Job
<1>1. Placed' = Placed
  BY DEF Placed
<1> QED
  BY <1>1 DEF Call, Post, Job

LEMMA TypeInit == Init => TypeOK
BY InstanceAssumption, PopAssumption, BoundAssumption
   DEF Init, TypeOK, QueuesOK, Stage, Move

LEMMA GiveUpType ==
  ASSUME TypeOK, NEW i \in Instance, NEW u \in User, GiveUp(i, u)
  PROVE  /\ held' \in [Instance -> SUBSET User]
         /\ open' \in [Instance -> Int]
         /\ timers' \in [Instance -> [User -> Int]]
         /\ posts' \in [Instance -> Seq(Post)]
<1>1. open[i] + 1 \in Int /\ timers[i][u] - 1 \in Int
  BY DEF TypeOK
<1>2. Announce(posts[i], open[i] + 1) \in Seq(Post)
  BY <1>1, OpenPost DEF TypeOK, QueuesOK, Announce
<1>3. CASE u \in held[i]
  <2>1. held' \in [Instance -> SUBSET User]
    <3>1. held \in [Instance -> SUBSET User] /\ held' = [held EXCEPT ![i] = @ \ {u}]
      BY <1>3 DEF TypeOK, GiveUp
    <3> QED
      BY <3>1
  <2>2. open' \in [Instance -> Int]
    BY <1>1, <1>3 DEF TypeOK, GiveUp
  <2>3. posts' \in [Instance -> Seq(Post)]
    BY <1>2, <1>3 DEF TypeOK, QueuesOK, GiveUp
  <2>4. timers' \in [Instance -> [User -> Int]]
    BY <1>1, <1>3 DEF TypeOK, GiveUp
  <2> QED
    BY <2>1, <2>2, <2>3, <2>4
<1>4. CASE u \notin held[i]
  BY <1>4 DEF TypeOK, QueuesOK, GiveUp
<1> QED
  BY <1>3, <1>4

LEMMA TypeStep == TypeOK /\ Owned /\ [Next]_vars => TypeOK'
<1> SUFFICES ASSUME TypeOK, Owned, [Next]_vars PROVE TypeOK'
  OBVIOUS
<1>q. QueuesOK
  BY DEF TypeOK
<1>1. ASSUME NEW u \in User, Login(u) PROVE TypeOK'
  BY <1>1, SamePlaced DEF TypeOK, QueuesOK, Login, places, queues, moves
<1>2. ASSUME NEW u \in User, Close(u) PROVE TypeOK'
  BY <1>2, SamePlaced DEF TypeOK, QueuesOK, Close, places, queues, moves
<1>3. ASSUME NEW u \in User, SessionRemoved(u) PROVE TypeOK'
  BY <1>3, SamePlaced DEF TypeOK, QueuesOK, SessionRemoved, places, queues, moves
<1>4. ASSUME NEW u \in User, Delete(u) PROVE TypeOK'
  <2>1. QueuesOK'
    BY <1>4, <1>q, SamePlaced DEF QueuesOK, Delete
  <2>2. stage' \in [Move -> Stage] /\ orphan' \subseteq Move
    BY <1>4, StageNames DEF TypeOK, Delete
  <2>3. lost' \in [Instance -> Nat]
    BY <1>4 DEF TypeOK, Delete
  <2> QED
    BY <1>4, <2>1, <2>2, <2>3 DEF TypeOK, Delete
<1>5. ASSUME NEW k \in Move, NEW u \in User, NEW z \in Zone, Ask(k, u, z) PROVE TypeOK'
  <2>1. Placed \subseteq Placed'
    BY <1>5 DEF TypeOK, Ask, Placed, places
  <2>2. QueuesOK'
    BY <1>5, <1>q, <2>1, Monotone DEF QueuesOK, Ask, queues
  <2> QED
    BY <1>5, <2>2, StageNames DEF TypeOK, Ask, places, people
<1>6. ASSUME NEW k \in Move, Choose(k) PROVE TypeOK'
  <2>1. Placed \subseteq Placed'
    BY <1>6 DEF TypeOK, Choose, Placed, places, Believed
  <2>2. QueuesOK'
    <3>1. CASE calls' = calls
      BY <1>6, <1>q, <2>1, <3>1, Monotone DEF QueuesOK, Choose
    <3>2. ASSUME NEW i \in Believed(goal[k]), inst' = [inst EXCEPT ![k] = i],
                 calls' = [calls EXCEPT ![i] = Append(@, [op |-> "reserve", nr |-> k])]
          PROVE  QueuesOK'
      <4>1. k \in Placed' /\ i \in Instance
        BY <1>6, <3>2 DEF TypeOK, Choose, Placed, Believed, places, Owned
      <4>2. [op |-> "reserve", nr |-> k] \in Call'
        BY <4>1 DEF Call
      <4> QED
        BY <1>6, <1>q, <2>1, <3>2, <4>1, <4>2, Monotone DEF QueuesOK, Choose
    <3> QED
      BY <1>6, <3>1, <3>2 DEF Choose
  <2> QED
    BY <1>6, <2>2, StageNames DEF TypeOK, Choose, places, people, Believed
<1>7. ASSUME NEW k \in Move, NEW i \in Instance, Created(k, i) PROVE TypeOK'
  <2>1. Placed \subseteq Placed' /\ k \in Placed'
    BY <1>7 DEF TypeOK, Created, Placed, Owned
  <2>2. QueuesOK'
    <3>1. [op |-> "reply", nr |-> k, ok |-> TRUE] \in Post'
      BY <2>1 DEF Post
    <3> QED
      BY <1>7, <1>q, <2>1, <3>1, Monotone DEF QueuesOK, Created
  <2>3. record[ZoneOf[i]] \in Pop \cap Nat
    BY ZoneOfAssumption, PopAssumption DEF TypeOK
  <2> QED
    BY <1>7, <2>2, <2>3, StageNames DEF TypeOK, Created, people
<1>8. ASSUME NEW k \in Move, NEW u \in User, NEW i \in Instance, AskFromAway(k, u, i)
      PROVE TypeOK'
  <2>1. Placed \subseteq Placed' /\ k \in Placed'
    BY <1>8 DEF TypeOK, AskFromAway, Placed, places
  <2>2. QueuesOK'
    <3>1. [op |-> "reserve", nr |-> k] \in Call'
      BY <2>1 DEF Call
    <3> QED
      BY <1>8, <1>q, <2>1, <3>1, Monotone DEF QueuesOK, AskFromAway
  <2> QED
    BY <1>8, <2>2, StageNames DEF TypeOK, AskFromAway, places, people
<1>9. ASSUME NEW z \in Zone, NEW n \in Pop, ZoneUpdated(z, n) PROVE TypeOK'
  <2>1. Call' = Call /\ Post' = Post /\ Job' = Job /\ UNCHANGED <<posts, inbox>>
    BY <1>9, SamePlaced DEF ZoneUpdated, places, moves
  <2>2. [op |-> "updated", pop |-> n] \in Call
    BY DEF Call
  <2>3. QueuesOK'
    BY <1>9, <1>q, <2>1, <2>2 DEF QueuesOK, ZoneUpdated
  <2> QED
    BY <1>9, <2>3, BoundAssumption DEF TypeOK, ZoneUpdated, places, people, moves
<1>10. ASSUME NEW i \in Instance, InstanceUpdated(i) PROVE TypeOK'
  <2>1. QueuesOK'
    BY <1>10, <1>q, SamePlaced, HeadPost DEF QueuesOK, InstanceUpdated, places, moves
  <2>2. Head(posts[i]).n \in Int
    BY <1>10, <1>q, HeadPost DEF InstanceUpdated
  <2> QED
    BY <1>10, <2>1, <2>2 DEF TypeOK, InstanceUpdated, places, people, moves
<1>11. ASSUME NEW i \in Instance, PlaceMaybeReserved(i) PROVE TypeOK'
  <2> DEFINE k == Head(posts[i]).nr
  <2>1. k \in Placed /\ Tail(posts[i]) \in Seq(Post)
    BY <1>11, <1>q, HeadPost DEF PlaceMaybeReserved
  <2>2. Call' = Call /\ Post' = Post /\ Job' = Job
    BY <1>11, SamePlaced DEF PlaceMaybeReserved, places
  <2>3. k \in Move /\ mover[k] \in User
    BY <2>1 DEF Placed
  <2>4. QueuesOK'
    <3>1. [op |-> "cancel", user |-> mover[k]] \in Call /\ [op |-> "go", nr |-> k] \in Job
      BY <2>1, <2>3 DEF Call, Job
    <3>2. posts' \in [Instance -> Seq(Post)]
      <4>1. posts' = [posts EXCEPT ![i] = Tail(@)]
        BY <1>11 DEF PlaceMaybeReserved
      <4> QED
        BY <1>q, <2>1, <4>1 DEF QueuesOK
    <3>3. calls' \in [Instance -> Seq(Call)]
      <4>1. CASE calls' = calls
        BY <1>q, <4>1 DEF QueuesOK
      <4>2. CASE calls' = [calls EXCEPT ![i] = Append(@, [op |-> "cancel", user |-> mover[k]])]
        BY <1>q, <2>3, <3>1, <4>2 DEF QueuesOK
      <4> QED
        BY <1>11, <4>1, <4>2 DEF PlaceMaybeReserved
    <3>4. inbox' \in [User -> Seq(Job)]
      <4>1. CASE inbox' = inbox
        BY <1>q, <4>1 DEF QueuesOK
      <4>2. CASE inbox' = [inbox EXCEPT ![mover[k]] = Append(@, [op |-> "go", nr |-> k])]
        BY <1>q, <2>3, <3>1, <4>2 DEF QueuesOK
      <4> QED
        BY <1>11, <4>1, <4>2 DEF PlaceMaybeReserved
    <3> QED
      BY <2>2, <3>2, <3>3, <3>4 DEF QueuesOK
  <2>5. stage' \in [Move -> Stage]
    BY <1>11, StageNames DEF TypeOK, PlaceMaybeReserved
  <2> QED
    BY <1>11, <2>4, <2>5 DEF TypeOK, PlaceMaybeReserved, places, people
<1>12. ASSUME NEW i \in Instance, ReplyToAway(i) PROVE TypeOK'
  <2> DEFINE k == Head(posts[i]).nr
  <2>1. k \in Placed /\ Tail(posts[i]) \in Seq(Post)
    BY <1>12, <1>q, HeadPost DEF ReplyToAway
  <2>2. Call' = Call /\ Post' = Post /\ Job' = Job
    BY <1>12, SamePlaced DEF ReplyToAway, places
  <2>3. k \in Move /\ mover[k] \in User
    BY <2>1 DEF Placed
  <2>4. QueuesOK'
    <3>1. [op |-> "cancel", user |-> mover[k]] \in Call /\ [op |-> "go", nr |-> k] \in Job
      BY <2>1, <2>3 DEF Call, Job
    <3>2. posts' \in [Instance -> Seq(Post)]
      <4>1. posts' = [posts EXCEPT ![i] = Tail(@)]
        BY <1>12 DEF ReplyToAway
      <4> QED
        BY <1>q, <2>1, <4>1 DEF QueuesOK
    <3>3. calls' \in [Instance -> Seq(Call)]
      <4>1. CASE calls' = calls
        BY <1>q, <4>1 DEF QueuesOK
      <4>2. CASE calls' = [calls EXCEPT ![i] = Append(@, [op |-> "cancel", user |-> mover[k]])]
        BY <1>q, <2>3, <3>1, <4>2 DEF QueuesOK
      <4> QED
        BY <1>12, <4>1, <4>2 DEF ReplyToAway
    <3>4. inbox' \in [User -> Seq(Job)]
      <4>1. CASE inbox' = inbox
        BY <1>q, <4>1 DEF QueuesOK
      <4>2. CASE inbox' = [inbox EXCEPT ![mover[k]] = Append(@, [op |-> "go", nr |-> k])]
        BY <1>q, <2>3, <3>1, <4>2 DEF QueuesOK
      <4> QED
        BY <1>12, <4>1, <4>2 DEF ReplyToAway
    <3> QED
      BY <2>2, <3>2, <3>3, <3>4 DEF QueuesOK
  <2>5. stage' \in [Move -> Stage] /\ sess' \in [User -> {"away", "live", "closing"}]
    <3>1. \/ stage' = [stage EXCEPT ![k] = "done"]
          \/ stage' = [stage EXCEPT ![k] = "going"]
      BY <1>12 DEF ReplyToAway
    <3>2. sess' = sess \/ sess' = [sess EXCEPT ![mover[k]] = "live"]
      BY <1>12 DEF ReplyToAway
    <3>3. stage \in [Move -> Stage] /\ sess \in [User -> {"away", "live", "closing"}]
      BY DEF TypeOK
    <3> QED
      BY <2>3, <3>1, <3>2, <3>3, StageNames
  <2>6. local' \subseteq User /\ abroad' \subseteq Move
    BY <1>12, <2>3 DEF TypeOK, ReplyToAway
  <2> QED
    BY <1>12, <2>4, <2>5, <2>6 DEF TypeOK, ReplyToAway, places
<1>13. ASSUME NEW i \in Instance, Reserve(i) PROVE TypeOK'
  <2> DEFINE k == Head(calls[i]).nr
  <2>1. k \in Placed /\ Tail(calls[i]) \in Seq(Call)
    BY <1>13, <1>q, HeadCall DEF Reserve
  <2>2. Call' = Call /\ Post' = Post /\ Job' = Job
    BY <1>13, SamePlaced DEF Reserve, moves
  <2>3. k \in Move /\ mover[k] \in User
    BY <2>1 DEF Placed
  <2>4. open[i] \in Int /\ open[i] - 1 \in Int
    BY DEF TypeOK
  <2>5. posts' \in [Instance -> Seq(Post)]
    <3>1. /\ [op |-> "reply", nr |-> k, ok |-> TRUE] \in Post
          /\ [op |-> "reply", nr |-> k, ok |-> FALSE] \in Post
          /\ [op |-> "open", n |-> open[i] - 1] \in Post
      BY <2>1, <2>4 DEF Post
    <3>2. CASE posts' = [posts EXCEPT ![i] = Append(@, [op |-> "reply", nr |-> k, ok |-> FALSE])]
      BY <1>q, <3>1, <3>2 DEF QueuesOK
    <3>3. CASE posts' = [posts EXCEPT ![i] =
                           Append(Append(@, [op |-> "open", n |-> open[i] - 1]),
                                  [op |-> "reply", nr |-> k, ok |-> TRUE])]
      BY <1>q, <3>1, <3>3 DEF QueuesOK
    <3> QED
      BY <1>13, <3>2, <3>3 DEF Reserve, Announce
  <2>6. QueuesOK'
    BY <1>13, <1>q, <2>1, <2>2, <2>5 DEF QueuesOK, Reserve
  <2>7. /\ held' \in [Instance -> SUBSET User] /\ open' \in [Instance -> Int]
        /\ timers' \in [Instance -> [User -> Int]]
    <3>1. open' = open \/ open' = [open EXCEPT ![i] = @ - 1]
      BY <1>13 DEF Reserve
    <3>2. held' = held \/ held' = [held EXCEPT ![i] = @ \cup {mover[k]}]
      BY <1>13 DEF Reserve
    <3>3. timers' = timers \/ timers' = [timers EXCEPT ![i][mover[k]] = @ + 1]
      BY <1>13 DEF Reserve
    <3>4. timers' \in [Instance -> [User -> Int]]
      <4> DEFINE v == mover[k]
      <4>1. v \in User /\ (timers' = timers \/ timers' = [timers EXCEPT ![i][v] = @ + 1])
        BY <2>3, <3>3
      <4> HIDE DEF v
      <4> QED
        BY <4>1 DEF TypeOK
    <3>5. held \in [Instance -> SUBSET User] /\ open \in [Instance -> Int]
      BY DEF TypeOK
    <3>6. held' \in [Instance -> SUBSET User]
      BY <2>3, <3>2, <3>5
    <3> QED
      BY <2>4, <3>1, <3>4, <3>5, <3>6
  <2>8. lost' \in [Instance -> Nat]
    BY <1>13 DEF TypeOK, Reserve
  <2> QED
    BY <1>13, <2>6, <2>7, <2>8 DEF TypeOK, Reserve, people, moves
<1>14. ASSUME NEW i \in Instance, Cancel(i) PROVE TypeOK'
  <2>1. Head(calls[i]).user \in User /\ Tail(calls[i]) \in Seq(Call)
    BY <1>14, <1>q, HeadCall DEF Cancel
  <2>2. Call' = Call /\ Post' = Post /\ Job' = Job
    BY <1>14, SamePlaced DEF Cancel, moves
  <2>3. /\ held' \in [Instance -> SUBSET User] /\ open' \in [Instance -> Int]
        /\ timers' \in [Instance -> [User -> Int]] /\ posts' \in [Instance -> Seq(Post)]
    BY <1>14, <2>1, GiveUpType DEF Cancel
  <2>4. QueuesOK'
    BY <1>14, <1>q, <2>1, <2>2, <2>3 DEF QueuesOK, Cancel
  <2> QED
    BY <1>14, <2>3, <2>4 DEF TypeOK, Cancel, people, moves
<1>15. ASSUME NEW i \in Instance, Resize(i) PROVE TypeOK'
  <2> DEFINE n == Head(calls[i]).pop
  <2>1. n \in Pop /\ n \in Nat /\ Tail(calls[i]) \in Seq(Call)
    BY <1>15, <1>q, HeadCall, PopAssumption DEF Resize
  <2>2. Call' = Call /\ Post' = Post /\ Job' = Job
    BY <1>15, SamePlaced DEF Resize, moves
  <2>3. maxPop[i] \in Int /\ open[i] \in Int /\ open[i] + (n - maxPop[i]) \in Int
    <3>1. maxPop[i] \in Nat
      BY DEF TypeOK
    <3>2. open[i] \in Int
      BY DEF TypeOK
    <3> QED
      BY <2>1, <3>1, <3>2
  <2>4. open' \in [Instance -> Int] /\ maxPop' \in [Instance -> Nat]
    BY <1>15, <2>1, <2>3 DEF TypeOK, Resize
  <2>5. Announce(posts[i], open[i] + (n - maxPop[i])) \in Seq(Post)
    BY <1>q, <2>3, OpenPost DEF QueuesOK, Announce
  <2>6. QueuesOK'
    BY <1>15, <1>q, <2>1, <2>2, <2>5 DEF QueuesOK, Resize
  <2> QED
    BY <1>15, <2>4, <2>6 DEF TypeOK, Resize, people, moves
<1>16. ASSUME NEW i \in Instance, NEW u \in User, Expire(i, u) PROVE TypeOK'
  <2>1. Call' = Call /\ Post' = Post /\ Job' = Job
    BY <1>16, SamePlaced DEF Expire, moves
  <2>2. /\ held' \in [Instance -> SUBSET User] /\ open' \in [Instance -> Int]
        /\ timers' \in [Instance -> [User -> Int]] /\ posts' \in [Instance -> Seq(Post)]
    BY <1>16, GiveUpType DEF Expire
  <2>3. QueuesOK'
    BY <1>16, <1>q, <2>1, <2>2 DEF QueuesOK, Expire
  <2> QED
    BY <1>16, <2>2, <2>3 DEF TypeOK, Expire, people, moves
<1>17. ASSUME NEW u \in User, Go(u) PROVE TypeOK'
  <2>1. Head(inbox[u]).nr \in Placed /\ Tail(inbox[u]) \in Seq(Job)
    BY <1>17, <1>q, HeadJob DEF Go
  <2>2. Call' = Call /\ Post' = Post /\ Job' = Job
    BY <1>17, SamePlaced DEF Go, moves
  <2>3. inbox' \in [User -> Seq(Job)]
    <3>1. [op |-> "enter", nr |-> Head(inbox[u]).nr] \in Job
      BY <2>1 DEF Job
    <3> QED
      BY <1>17, <1>q, <2>1, <3>1 DEF QueuesOK, Go
  <2>4. open' \in [Instance -> Int] /\ posts' \in [Instance -> Seq(Post)]
    <3>1. CASE at[u] = None
      BY <1>17, <1>q, <3>1 DEF TypeOK, QueuesOK, Go
    <3>2. CASE at[u] # None
      <4>1. at[u] \in Instance /\ open[at[u]] + 1 \in Int
        BY <3>2 DEF TypeOK
      <4>2. Announce(posts[at[u]], open[at[u]] + 1) \in Seq(Post)
        BY <1>q, <4>1, OpenPost DEF QueuesOK, Announce
      <4> QED
        <5>1. /\ open' = [open EXCEPT ![at[u]] = @ + 1]
              /\ posts' = [posts EXCEPT ![at[u]] = Announce(@, open[at[u]] + 1)]
          BY <1>17, <3>2 DEF Go
        <5> QED
          BY <1>q, <4>1, <4>2, <5>1 DEF TypeOK, QueuesOK
    <3> QED
      BY <3>1, <3>2
  <2>5. QueuesOK'
    BY <1>17, <1>q, <2>2, <2>3, <2>4 DEF QueuesOK, Go
  <2> QED
    BY <1>17, <2>4, <2>5 DEF TypeOK, Go, moves
<1>18. ASSUME NEW u \in User, Enter(u) PROVE TypeOK'
  <2> DEFINE k == Head(inbox[u]).nr
  <2>1. k \in Move /\ inst[k] \in made /\ made \subseteq Instance /\ Tail(inbox[u]) \in Seq(Job)
    BY <1>18, <1>q, HeadJob DEF Enter, Placed, TypeOK
  <2>2. Call' = Call /\ Post' = Post /\ Job' = Job
    BY <1>18, SamePlaced DEF Enter
  <2>3. QueuesOK'
    BY <1>18, <1>q, <2>1, <2>2 DEF QueuesOK, Enter
  <2>4. lost' \in [Instance -> Nat] /\ extra' \in [Instance -> Nat]
    <3>1. /\ lost' = [j \in Instance |-> lost[j] + (IF at[u] = j THEN 1 ELSE 0)]
          /\ extra' = [extra EXCEPT ![inst[k]] = @ + (IF u \in held[inst[k]] THEN 0 ELSE 1)]
      BY <1>18 DEF Enter
    <3>2. lost \in [Instance -> Nat] /\ extra \in [Instance -> Nat]
      BY DEF TypeOK
    <3>3. lost' \in [Instance -> Nat]
      BY <3>1, <3>2
    <3>4. extra' \in [Instance -> Nat]
      <4> DEFINE i == inst[k]
                 d == IF u \in held[i] THEN 0 ELSE 1
      <4>1. d \in Nat /\ extra' = [extra EXCEPT ![i] = @ + d]
        BY <3>1
      <4>2. i \in Instance
        BY <2>1
      <4> HIDE DEF d, i
      <4>3. extra[i] + d \in Nat
        BY <3>2, <4>1, <4>2
      <4> QED
        BY <3>2, <4>1, <4>3
    <3> QED
      BY <3>3, <3>4
  <2>5. held' \in [Instance -> SUBSET User] /\ at' \in [User -> made \cup {None}]
    BY <1>18, <2>1 DEF TypeOK, Enter
  <2>6. timers' \in [Instance -> [User -> Int]]
    <3> DEFINE i == inst[k]
               n == IF u \in held[i] THEN timers[i][u] - 1 ELSE timers[i][u]
    <3>1. i \in Instance
      BY <2>1
    <3>2. timers' = [timers EXCEPT ![i][u] = n]
      BY <1>18 DEF Enter
    <3> HIDE DEF i
    <3>3. n \in Int
      BY <3>1 DEF TypeOK
    <3> HIDE DEF n
    <3> QED
      BY <3>1, <3>2, <3>3 DEF TypeOK
  <2> QED
    BY <1>18, <2>3, <2>4, <2>5, <2>6, StageNames DEF TypeOK, Enter
<1>20. ASSUME NEW k \in Move, Returns(k) PROVE TypeOK'
  <2>1. /\ \E s \in {"asked", "done"} : stage' = [stage EXCEPT ![k] = s]
        /\ orphan' \subseteq orphan
        /\ UNCHANGED <<places, people, queues, record, view, updates, mover, goal, inst, abroad>>
    BY <1>20, Returned
  <2>2. QueuesOK'
    BY <1>q, <2>1, SamePlaced DEF QueuesOK, places, queues
  <2>3. stage' \in [Move -> Stage]
    BY <2>1, StageNames DEF TypeOK
  <2> QED
    BY <2>1, <2>2, <2>3 DEF TypeOK, places, people
<1>19. CASE UNCHANGED vars
  BY <1>19, <1>q, SamePlaced DEF TypeOK, QueuesOK, vars, places, people, queues, moves
<1> QED
  <2>1. Roaming \subseteq User
    BY UserAssumption
  <2> QED
    BY <1>1, <1>2, <1>3, <1>4, <1>5, <1>6, <1>7, <1>8, <1>9, <1>10, <1>11, <1>12, <1>13, <1>14,
       <1>15, <1>16, <1>17, <1>18, <1>19, <1>20, <2>1 DEF Next, Returns

LEMMA OwnedStep == TypeOK /\ Owned /\ [Next]_vars => Owned'
<1> SUFFICES ASSUME TypeOK, Owned, [Next]_vars, NEW j \in Move PROVE (stage[j] # "idle" => mover[j] \in User)'
  BY DEF Owned
<1>q. QueuesOK
  BY DEF TypeOK
<1>0. stage[j] # "idle" => mover[j] \in User
  BY DEF Owned
<1> DEFINE Mv == (stage[j] # "idle" => mover[j] \in User)'
<1>1. ASSUME NEW u \in User, Login(u) \/ Close(u) \/ SessionRemoved(u) PROVE Mv
  BY <1>0, <1>1 DEF Login, Close, SessionRemoved, moves
<1>2. ASSUME NEW u \in User, Delete(u) PROVE Mv
  BY <1>0, <1>2 DEF Delete, Mine
<1>3. ASSUME NEW k \in Move, NEW u \in User, NEW z \in Zone, Ask(k, u, z) PROVE Mv
  BY <1>0, <1>3 DEF Ask, TypeOK
<1>4. ASSUME NEW k \in Move, NEW u \in User, NEW i \in Instance, AskFromAway(k, u, i) PROVE Mv
  BY <1>0, <1>4 DEF AskFromAway, TypeOK
<1>5. ASSUME NEW k \in Move, Choose(k) PROVE Mv
  BY <1>0, <1>5 DEF Choose, TypeOK
<1>6. ASSUME NEW k \in Move, NEW i \in Instance, Created(k, i) PROVE Mv
  BY <1>0, <1>6 DEF Created, TypeOK
<1>7. ASSUME NEW z \in Zone, NEW n \in Pop, ZoneUpdated(z, n) PROVE Mv
  BY <1>0, <1>7 DEF ZoneUpdated, moves
<1>8. ASSUME NEW i \in Instance, PlaceMaybeReserved(i) \/ ReplyToAway(i) PROVE Mv
  <2> DEFINE k == Head(posts[i]).nr
  <2>1. k \in Placed
    BY <1>8, <1>q, HeadPost DEF PlaceMaybeReserved, ReplyToAway
  <2>2. mover' = mover /\ mover[k] \in User
    BY <1>8, <2>1 DEF PlaceMaybeReserved, ReplyToAway, Placed
  <2>3. \E s \in Stage : stage' = [stage EXCEPT ![k] = s]
    BY <1>8, StageNames DEF PlaceMaybeReserved, ReplyToAway
  <2> HIDE DEF k
  <2> QED
    BY <1>0, <2>2, <2>3 DEF TypeOK
<1>9. ASSUME NEW i \in Instance, InstanceUpdated(i) \/ Reserve(i) \/ Cancel(i) \/ Resize(i) PROVE Mv
  BY <1>0, <1>9 DEF InstanceUpdated, Reserve, Cancel, Resize, moves
<1>10. ASSUME NEW i \in Instance, NEW u \in User, Expire(i, u) PROVE Mv
  BY <1>0, <1>10 DEF Expire, moves
<1>11. ASSUME NEW u \in User, Go(u) PROVE Mv
  BY <1>0, <1>11 DEF Go, moves
<1>12. ASSUME NEW u \in User, Enter(u) PROVE Mv
  <2>1. Head(inbox[u]).nr \in Placed
    BY <1>12, <1>q, HeadJob DEF Enter
  <2> QED
    BY <1>0, <1>12, <2>1 DEF Enter, TypeOK, Placed
<1>14. ASSUME NEW k \in Move, Returns(k) PROVE Mv
  BY <1>0, <1>14, Returned DEF TypeOK
<1>13. CASE UNCHANGED vars
  BY <1>0, <1>13 DEF vars, moves
<1> QED
  <2>1. Roaming \subseteq User
    BY UserAssumption
  <2> QED
    BY <1>1, <1>2, <1>3, <1>4, <1>5, <1>6, <1>7, <1>8, <1>9, <1>10, <1>11, <1>12, <1>13, <1>14, <2>1
       DEF Next, Returns

LEMMA UntouchedStep == TypeOK /\ Untouched /\ [Next]_vars => Untouched'
<1> SUFFICES ASSUME TypeOK, Untouched, [Next]_vars, NEW j \in Instance, j \notin made'
             PROVE  /\ held'[j] = {} /\ timers'[j] = [u \in User |-> 0]
                    /\ calls'[j] = <<>> /\ posts'[j] = <<>>
                    /\ lost'[j] = 0 /\ extra'[j] = 0
  BY DEF Untouched
<1>q. QueuesOK
  BY DEF TypeOK
<1> DEFINE Bare == /\ held'[j] = {} /\ timers'[j] = [u \in User |-> 0] /\ calls'[j] = <<>> /\ posts'[j] = <<>>
                   /\ lost'[j] = 0 /\ extra'[j] = 0
<1>0. /\ held \in [Instance -> SUBSET User] /\ calls \in [Instance -> Seq(Call)]
      /\ posts \in [Instance -> Seq(Post)] /\ lost \in [Instance -> Nat]
      /\ extra \in [Instance -> Nat] /\ made \subseteq Instance
      /\ timers \in [Instance -> [User -> Int]]
  BY DEF TypeOK, QueuesOK
<1>a. \A i \in Instance : i \notin made => /\ held[i] = {} /\ timers[i] = [u \in User |-> 0]
                                           /\ calls[i] = <<>> /\ posts[i] = <<>>
                                           /\ lost[i] = 0 /\ extra[i] = 0
  BY DEF Untouched
<1>1. ASSUME NEW u \in User, Login(u) \/ Close(u) \/ SessionRemoved(u) PROVE Bare
  BY <1>a, <1>1 DEF Login, Close, SessionRemoved, places, queues
<1>2. ASSUME NEW u \in User, Delete(u) PROVE Bare
  <2>1. at[u] # j /\ j \notin made
    BY <1>2, InstanceAssumption DEF Delete, TypeOK
  <2> QED
    BY <1>a, <1>2, <2>1 DEF Delete
<1>3. ASSUME NEW k \in Move, NEW u \in User, NEW z \in Zone, Ask(k, u, z) PROVE Bare
  BY <1>a, <1>3 DEF Ask, places, queues
<1>4. ASSUME NEW k \in Move, NEW u \in User, NEW i \in Instance, AskFromAway(k, u, i) PROVE Bare
  BY <1>0, <1>a, <1>4 DEF AskFromAway, places
<1>5. ASSUME NEW k \in Move, Choose(k) PROVE Bare
  BY <1>0, <1>a, <1>5 DEF Choose, places, Believed
<1>6. ASSUME NEW k \in Move, NEW i \in Instance, Created(k, i) PROVE Bare
  BY <1>0, <1>a, <1>6 DEF Created
<1>7. ASSUME NEW z \in Zone, NEW n \in Pop, ZoneUpdated(z, n) PROVE Bare
  BY <1>a, <1>7 DEF ZoneUpdated, places
<1>8. ASSUME NEW i \in Instance, PlaceMaybeReserved(i) PROVE Bare
  <2>1. i \in made /\ i # j /\ j \notin made
    BY <1>a, <1>8 DEF PlaceMaybeReserved, places
  <2> QED
    BY <1>0, <1>a, <1>8, <2>1 DEF PlaceMaybeReserved, places
<1>9. ASSUME NEW i \in Instance, ReplyToAway(i) PROVE Bare
  <2>1. i \in made /\ i # j /\ j \notin made
    BY <1>a, <1>9 DEF ReplyToAway, places
  <2> QED
    BY <1>0, <1>a, <1>9, <2>1 DEF ReplyToAway, places
<1>10. ASSUME NEW i \in Instance, InstanceUpdated(i) PROVE Bare
  <2>1. i \in made /\ i # j /\ j \notin made
    BY <1>a, <1>10 DEF InstanceUpdated, places
  <2> QED
    BY <1>0, <1>a, <1>10, <2>1 DEF InstanceUpdated, places
<1>11. ASSUME NEW i \in Instance, Reserve(i) PROVE Bare
  <2>1. i \in made /\ i # j /\ j \notin made
    BY <1>a, <1>11 DEF Reserve
  <2> QED
    BY <1>0, <1>a, <1>11, <2>1 DEF Reserve
<1>12. ASSUME NEW i \in Instance, Cancel(i) PROVE Bare
  <2>1. i \in made /\ i # j /\ j \notin made
    BY <1>a, <1>12 DEF Cancel
  <2> QED
    BY <1>0, <1>a, <1>12, <2>1 DEF Cancel, GiveUp
<1>13. ASSUME NEW i \in Instance, Resize(i) PROVE Bare
  <2>1. i \in made /\ i # j /\ j \notin made
    BY <1>a, <1>13 DEF Resize
  <2> QED
    BY <1>0, <1>a, <1>13, <2>1 DEF Resize
<1>14. ASSUME NEW i \in Instance, NEW u \in User, Expire(i, u) PROVE Bare
  <2>1. i \in made /\ i # j /\ j \notin made
    BY <1>a, <1>14 DEF Expire
  <2> QED
    BY <1>0, <1>a, <1>14, <2>1 DEF Expire, GiveUp
<1>15. ASSUME NEW u \in User, Go(u) PROVE Bare
  <2>1. j \notin made /\ UNCHANGED <<held, timers, lost, extra, calls>>
    BY <1>15 DEF Go
  <2>2. CASE at[u] = None
    BY <1>a, <1>15, <2>1, <2>2 DEF Go
  <2>3. CASE at[u] # None
    <3>1. at[u] \in made /\ at[u] # j
      BY <2>1, <2>3 DEF TypeOK
    <3> QED
      BY <1>0, <1>a, <1>15, <2>1, <3>1 DEF Go
  <2> QED
    BY <2>2, <2>3
<1>16. ASSUME NEW u \in User, Enter(u) PROVE Bare
  <2> DEFINE i == inst[Head(inbox[u]).nr]
  <2>1. j \notin made /\ UNCHANGED <<calls, posts>>
    BY <1>16 DEF Enter
  <2>2. i \in made /\ i # j
    BY <1>16, <1>q, <2>1, HeadJob DEF Enter, Placed
  <2>3. at[u] # j
    BY <2>1, InstanceAssumption DEF TypeOK
  <2>4. lost'[j] = lost[j] + 0
    BY <1>16, <2>3 DEF Enter
  <2>5. held'[j] = held[j] /\ timers'[j] = timers[j] /\ extra'[j] = extra[j]
    BY <1>0, <1>16, <2>2 DEF Enter
  <2>6. held[j] = {} /\ timers[j] = [u1 \in User |-> 0] /\ calls[j] = <<>> /\ posts[j] = <<>>
    BY <1>a, <2>1
  <2>7. lost[j] = 0 /\ extra[j] = 0
    BY <1>a, <2>1
  <2> QED
    BY <2>1, <2>4, <2>5, <2>6, <2>7
<1>18. ASSUME NEW k \in Move, Returns(k) PROVE Bare
  BY <1>a, <1>18, Returned DEF places, queues
<1>17. CASE UNCHANGED vars
  BY <1>a, <1>17 DEF vars, places, queues
<1> QED
  <2>1. Roaming \subseteq User
    BY UserAssumption
  <2> QED
    BY <1>1, <1>2, <1>3, <1>4, <1>5, <1>6, <1>7, <1>8, <1>9, <1>10, <1>11, <1>12, <1>13, <1>14,
       <1>15, <1>16, <1>17, <1>18, <2>1 DEF Next, Returns

(* The inductive invariant.                                                *)
THEOREM Invariance == Spec => []IInv
<1>1. Init => IInv
  BY TypeInit DEF Init, IInv, Untouched, Owned
<1>2. IInv /\ [Next]_vars => IInv'
  BY TypeStep, OwnedStep, UntouchedStep DEF IInv
<1> QED
  BY <1>1, <1>2, PTL DEF Spec

(* Every variable keeps its shape, and no message speaks of a move or an   *)
(* instance that is not there: queued calls outlive closing sessions.      *)
THEOREM TypeCorrect == Spec => []TypeOK
BY Invariance, PTL DEF IInv

-----------------------------------------------------------------------------
(* Counting: a set of users with one more, and with one fewer.             *)
LEMMA CountUsers ==
  ASSUME NEW S \in SUBSET User
  PROVE  IsFiniteSet(S) /\ Cardinality(S) \in Nat
BY UserAssumption, FS_Subset, FS_CardinalityType

LEMMA CountIn ==
  ASSUME NEW S \in SUBSET User, NEW u \in User, u \notin S
  PROVE  Cardinality(S \cup {u}) = Cardinality(S) + 1
BY CountUsers, FS_AddElement

LEMMA CountOut ==
  ASSUME NEW S \in SUBSET User, NEW u \in S
  PROVE  Cardinality(S \ {u}) = Cardinality(S) - 1
BY CountUsers, FS_RemoveElement

(* The books of one instance, and what they are sums of.                   *)
Books(i) == open[i] = maxPop[i] - Cardinality(held[i]) - Cardinality(Occupants(i)) - lost[i] + extra[i]

LEMMA Sums ==
  ASSUME TypeOK, NEW i \in Instance
  PROVE  /\ open[i] \in Int /\ maxPop[i] \in Int /\ lost[i] \in Int /\ extra[i] \in Int
         /\ held[i] \in SUBSET User /\ Occupants(i) \in SUBSET User
         /\ Cardinality(held[i]) \in Int /\ Cardinality(Occupants(i)) \in Int
<1>1. /\ open[i] \in Int /\ maxPop[i] \in Nat /\ lost[i] \in Nat /\ extra[i] \in Nat
      /\ held[i] \in SUBSET User /\ Occupants(i) \in SUBSET User
  BY DEF TypeOK, Occupants
<1> QED
  BY <1>1, CountUsers

(* A session that goes from one place to another is counted in the second. *)
LEMMA OccupantsMove ==
  ASSUME TypeOK, NEW u \in User, NEW v \in Instance \cup {None}, at' = [at EXCEPT ![u] = v],
         NEW i \in Instance
  PROVE  /\ v = i => Occupants(i)' = Occupants(i) \cup {u}
         /\ v # i => Occupants(i)' = Occupants(i) \ {u}
         /\ u \in Occupants(i) <=> at[u] = i
BY DEF TypeOK, Occupants

(* A place given up goes from the reservations to the open places.         *)
LEMMA GiveUpCounts ==
  ASSUME TypeOK, NEW i \in Instance, NEW u \in User, GiveUp(i, u), NEW j \in Instance
  PROVE  /\ open'[j] \in Int /\ Cardinality(held'[j]) \in Int
         /\ open'[j] + Cardinality(held'[j]) = open[j] + Cardinality(held[j])
         /\ Cardinality(held'[j]) <= Cardinality(held[j])
<1>1. CASE u \in held[i] /\ j = i
  <2>1. held'[i] = held[i] \ {u} /\ open'[i] = open[i] + 1
    BY <1>1 DEF TypeOK, GiveUp
  <2>2. Cardinality(held'[i]) = Cardinality(held[i]) - 1
    BY <1>1, <2>1, Sums, CountOut
  <2> QED
    BY <1>1, <2>1, <2>2, Sums
<1>2. CASE u \notin held[i] \/ j # i
  <2>1. open'[j] = open[j] /\ held'[j] = held[j]
    BY <1>2 DEF TypeOK, GiveUp
  <2> QED
    BY <2>1, Sums
<1> QED
  BY <1>1, <1>2

(* The books still balance when a place has only changed hands between the *)
(* open ones and the reserved ones.                                        *)
LEMMA BooksKept ==
  ASSUME TypeOK, Ledger, NEW j \in made, UNCHANGED <<maxPop, lost, extra, at>>,
         open'[j] \in Int, Cardinality(held'[j]) \in Int,
         open'[j] + Cardinality(held'[j]) = open[j] + Cardinality(held[j])
  PROVE  Books(j)'
<1>1. Occupants(j)' = Occupants(j) /\ j \in Instance
  BY DEF Occupants, TypeOK
<1>2. open[j] = maxPop[j] - Cardinality(held[j]) - Cardinality(Occupants(j)) - lost[j] + extra[j]
  BY DEF Ledger
<1>3. /\ open[j] \in Int /\ maxPop[j] \in Int /\ lost[j] \in Int /\ extra[j] \in Int
      /\ Cardinality(held[j]) \in Int /\ Cardinality(Occupants(j)) \in Int
  BY <1>1, Sums
<1>4. open'[j] = maxPop[j] - Cardinality(held'[j]) - Cardinality(Occupants(j)) - lost[j] + extra[j]
  BY <1>2, <1>3
<1> QED
  BY <1>1, <1>4 DEF Books

LEMMA LedgerStep == IInv /\ Ledger /\ [Next]_vars => Ledger'
<1> SUFFICES ASSUME IInv, Ledger, [Next]_vars, NEW j \in made' PROVE Books(j)'
  BY DEF Ledger, Books
<1>t. TypeOK /\ QueuesOK /\ Untouched
  BY DEF IInv, TypeOK
<1>q. ASSUME UNCHANGED <<made, open, maxPop, held, at, lost, extra>> PROVE Books(j)'
  BY <1>q DEF Ledger, Books, Occupants
<1>1. ASSUME NEW u \in User, Login(u) \/ Close(u) \/ SessionRemoved(u) PROVE Books(j)'
  BY <1>q, <1>1 DEF Login, Close, SessionRemoved, places
<1>2. ASSUME NEW u \in User, Delete(u) PROVE Books(j)'
  <2>1. /\ j \in made /\ j \in Instance /\ UNCHANGED <<open, maxPop, held, extra>>
        /\ lost'[j] = lost[j] + (IF at[u] = j THEN 1 ELSE 0)
    BY <1>t, <1>2 DEF Delete, TypeOK
  <2>2. Occupants(j)' = Occupants(j) \ {u} /\ (u \in Occupants(j) <=> at[u] = j)
    BY <1>t, <1>2, <2>1, OccupantsMove, InstanceAssumption DEF Delete
  <2>3. Cardinality(Occupants(j)') = Cardinality(Occupants(j)) - (IF at[u] = j THEN 1 ELSE 0)
    <3>1. CASE at[u] = j
      BY <1>t, <2>1, <2>2, <3>1, Sums, CountOut
    <3>2. CASE at[u] # j
      <4>1. Occupants(j)' = Occupants(j)
        BY <2>2, <3>2
      <4> QED
        BY <1>t, <2>1, <3>2, <4>1, Sums
    <3> QED
      BY <3>1, <3>2
  <2> QED
    BY <1>t, <2>1, <2>3, Sums DEF Ledger, Books
<1>3. ASSUME NEW k \in Move, NEW u \in User, NEW z \in Zone, Ask(k, u, z) PROVE Books(j)'
  BY <1>q, <1>3 DEF Ask, places, people
<1>4. ASSUME NEW k \in Move, NEW u \in User, NEW i \in Instance, AskFromAway(k, u, i) PROVE Books(j)'
  BY <1>q, <1>4 DEF AskFromAway, places, people
<1>5. ASSUME NEW k \in Move, Choose(k) PROVE Books(j)'
  BY <1>q, <1>5 DEF Choose, places, people
<1>6. ASSUME NEW k \in Move, NEW i \in Instance, Created(k, i) PROVE Books(j)'
  <2>1. CASE j = i
    <3>1. /\ held'[i] = {} /\ lost'[i] = 0 /\ extra'[i] = 0 /\ record[ZoneOf[i]] \in Nat
          /\ open'[i] = record[ZoneOf[i]] /\ maxPop'[i] = record[ZoneOf[i]]
      BY <1>t, <1>6, ZoneOfAssumption, PopAssumption DEF Created, Untouched, TypeOK
    <3>2. Occupants(i)' = {}
      BY <1>t, <1>6, InstanceAssumption DEF Created, TypeOK, Occupants, people
    <3> QED
      BY <2>1, <3>1, <3>2, FS_EmptySet DEF Books
  <2>2. CASE j # i
    BY <1>t, <1>6, <2>2 DEF Created, TypeOK, Ledger, Books, Occupants, people
  <2> QED
    BY <2>1, <2>2
<1>7. ASSUME NEW z \in Zone, NEW n \in Pop, ZoneUpdated(z, n) PROVE Books(j)'
  BY <1>q, <1>7 DEF ZoneUpdated, places, people
<1>8. ASSUME NEW i \in Instance, PlaceMaybeReserved(i) PROVE Books(j)'
  BY <1>q, <1>8 DEF PlaceMaybeReserved, places, people
<1>9. ASSUME NEW i \in Instance, ReplyToAway(i) PROVE Books(j)'
  BY <1>q, <1>9 DEF ReplyToAway, places
<1>10. ASSUME NEW i \in Instance, InstanceUpdated(i) PROVE Books(j)'
  BY <1>q, <1>10 DEF InstanceUpdated, places, people
<1>11. ASSUME NEW i \in Instance, Reserve(i) PROVE Books(j)'
  <2> DEFINE u == mover[Head(calls[i]).nr]
  <2>1. u \in User
    BY <1>t, <1>11, HeadCall DEF Reserve, Placed
  <2>2. UNCHANGED <<made, maxPop, extra, at>> /\ j \in made /\ j \in Instance
    BY <1>t, <1>11 DEF Reserve, people, TypeOK
  <2>3. CASE j # i
    BY <1>t, <1>11, <2>2, <2>3 DEF Reserve, TypeOK, Ledger, Books, Occupants
  <2>4. CASE open[i] <= 0
    <3>1. UNCHANGED <<open, held, lost>>
      BY <1>t, <1>11, <2>4 DEF Reserve, TypeOK
    <3> QED
      BY <1>q, <2>2, <3>1
  <2>5. CASE open[i] > 0 /\ j = i
    <3>1. /\ held' = [held EXCEPT ![i] = @ \cup {u}] /\ open' = [open EXCEPT ![i] = @ - 1]
          /\ lost' = [lost EXCEPT ![i] = @ + (IF u \in held[i] THEN 1 ELSE 0)]
      BY <1>t, <1>11, <2>5 DEF Reserve, TypeOK
    <3>2. /\ held'[i] = held[i] \cup {u} /\ open'[i] = open[i] - 1
          /\ lost'[i] = lost[i] + (IF u \in held[i] THEN 1 ELSE 0)
      BY <1>t, <3>1 DEF TypeOK
    <3>3. Cardinality(held'[i]) = Cardinality(held[i]) + (IF u \in held[i] THEN 0 ELSE 1)
      <4>1. CASE u \in held[i]
        <5>1. held'[i] = held[i]
          BY <3>2, <4>1
        <5> QED
          BY <1>t, <4>1, <5>1, Sums
      <4>2. CASE u \notin held[i]
        BY <1>t, <2>1, <3>2, <4>2, Sums, CountIn
      <4> QED
        BY <4>1, <4>2
    <3>4. Cardinality(Occupants(i)') = Cardinality(Occupants(i))
      BY <2>2 DEF Occupants
    <3> HIDE DEF u
    <3> QED
      BY <1>t, <2>2, <2>5, <3>2, <3>3, <3>4, Sums DEF Ledger, Books
  <2> QED
    BY <1>t, <2>3, <2>4, <2>5, Sums
<1>12. ASSUME NEW i \in Instance, Cancel(i) PROVE Books(j)'
  <2>1. Head(calls[i]).user \in User /\ GiveUp(i, Head(calls[i]).user)
    BY <1>t, <1>12, HeadCall DEF Cancel
  <2>2. UNCHANGED <<maxPop, lost, extra, at>> /\ j \in made /\ j \in Instance
    BY <1>t, <1>12 DEF Cancel, people, TypeOK
  <2> QED
    BY <1>t, <2>1, <2>2, GiveUpCounts, BooksKept
<1>13. ASSUME NEW i \in Instance, NEW u \in User, Expire(i, u) PROVE Books(j)'
  <2>1. GiveUp(i, u)
    BY <1>13 DEF Expire
  <2>2. UNCHANGED <<maxPop, lost, extra, at>> /\ j \in made /\ j \in Instance
    BY <1>t, <1>13 DEF Expire, people, TypeOK
  <2> QED
    BY <1>t, <2>1, <2>2, GiveUpCounts, BooksKept
<1>14. ASSUME NEW i \in Instance, Resize(i) PROVE Books(j)'
  <2> DEFINE n == Head(calls[i]).pop
  <2>1. n \in Int
    <3>1. n \in Pop
      BY <1>t, <1>14, HeadCall DEF Resize
    <3> HIDE DEF n
    <3> QED
      BY <3>1, PopAssumption
  <2>2. /\ UNCHANGED <<held, lost, extra, at>> /\ j \in made /\ j \in Instance
        /\ open' = [open EXCEPT ![i] = @ + (n - maxPop[i])]
        /\ maxPop' = [maxPop EXCEPT ![i] = n]
    BY <1>t, <1>14 DEF Resize, people, TypeOK
  <2>3. CASE j = i
    <3>1. open'[j] = open[j] + (n - maxPop[j]) /\ maxPop'[j] = n
      BY <1>t, <2>2, <2>3 DEF TypeOK
    <3> HIDE DEF n
    <3> QED
      BY <1>t, <2>1, <2>2, <3>1, Sums DEF Ledger, Books, Occupants
  <2>4. CASE j # i
    BY <1>t, <2>2, <2>4 DEF TypeOK, Ledger, Books, Occupants
  <2> QED
    BY <2>3, <2>4
<1>15. ASSUME NEW u \in User, Go(u) PROVE Books(j)'
  <2>1. UNCHANGED <<maxPop, held, lost, extra>> /\ j \in made /\ j \in Instance
    BY <1>t, <1>15 DEF Go, TypeOK
  <2>2. Occupants(j)' = Occupants(j) \ {u} /\ (u \in Occupants(j) <=> at[u] = j)
    BY <1>t, <1>15, <2>1, OccupantsMove, InstanceAssumption DEF Go
  <2>3. CASE at[u] = j
    <3>1. open'[j] = open[j] + 1
      BY <1>t, <1>15, <2>1, <2>3, InstanceAssumption DEF Go, TypeOK
    <3>2. Cardinality(Occupants(j)') = Cardinality(Occupants(j)) - 1
      BY <1>t, <2>1, <2>2, <2>3, Sums, CountOut
    <3> QED
      BY <1>t, <2>1, <3>1, <3>2, Sums DEF Ledger, Books
  <2>4. CASE at[u] # j
    <3>1. open'[j] = open[j]
      BY <1>t, <1>15, <2>1, <2>4 DEF Go, TypeOK
    <3>2. Occupants(j)' = Occupants(j)
      BY <2>2, <2>4
    <3> QED
      BY <1>t, <2>1, <3>1, <3>2 DEF Ledger, Books
  <2> QED
    BY <2>3, <2>4
<1>16. ASSUME NEW u \in User, Enter(u) PROVE Books(j)'
  <2> DEFINE i == inst[Head(inbox[u]).nr]
  <2>1. i \in made /\ made \subseteq Instance
    BY <1>t, <1>16, HeadJob DEF Enter, Placed, TypeOK
  <2>2. /\ UNCHANGED <<maxPop, open>> /\ j \in made /\ j \in Instance
        /\ lost'[j] = lost[j] + (IF at[u] = j THEN 1 ELSE 0)
        /\ at' = [at EXCEPT ![u] = i]
        /\ held' = [held EXCEPT ![i] = @ \ {u}]
        /\ extra' = [extra EXCEPT ![i] = @ + (IF u \in held[i] THEN 0 ELSE 1)]
    BY <1>t, <1>16, <2>1 DEF Enter
  <2> HIDE DEF i
  <2>3. /\ i = j => Occupants(j)' = Occupants(j) \cup {u}
        /\ i # j => Occupants(j)' = Occupants(j) \ {u}
        /\ u \in Occupants(j) <=> at[u] = j
    BY <1>t, <2>1, <2>2, OccupantsMove
  <2>4. CASE i = j
    <3>1. held'[j] = held[j] \ {u} /\ extra'[j] = extra[j] + (IF u \in held[j] THEN 0 ELSE 1)
      BY <1>t, <2>1, <2>2, <2>4 DEF TypeOK
    <3>2. Cardinality(held'[j]) = Cardinality(held[j]) - (IF u \in held[j] THEN 1 ELSE 0)
      <4>1. CASE u \in held[j]
        BY <1>t, <2>2, <3>1, <4>1, Sums, CountOut
      <4>2. CASE u \notin held[j]
        <5>1. held'[j] = held[j]
          BY <3>1, <4>2
        <5> QED
          BY <1>t, <2>2, <4>2, <5>1, Sums
      <4> QED
        BY <4>1, <4>2
    <3>3. Cardinality(Occupants(j)') = Cardinality(Occupants(j)) + (IF at[u] = j THEN 0 ELSE 1)
      <4>1. CASE at[u] = j
        <5>1. Occupants(j)' = Occupants(j)
          BY <2>3, <2>4, <4>1
        <5> QED
          BY <1>t, <2>2, <4>1, <5>1, Sums
      <4>2. CASE at[u] # j
        BY <1>t, <2>2, <2>3, <2>4, <4>2, Sums, CountIn
      <4> QED
        BY <4>1, <4>2
    <3> QED
      BY <1>t, <2>2, <3>1, <3>2, <3>3, Sums DEF Ledger, Books
  <2>5. CASE i # j
    <3>1. held'[j] = held[j] /\ extra'[j] = extra[j]
      BY <1>t, <2>1, <2>2, <2>5 DEF TypeOK
    <3>2. Cardinality(Occupants(j)') = Cardinality(Occupants(j)) - (IF at[u] = j THEN 1 ELSE 0)
      <4>1. CASE at[u] = j
        BY <1>t, <2>2, <2>3, <2>5, <4>1, Sums, CountOut
      <4>2. CASE at[u] # j
        <5>1. Occupants(j)' = Occupants(j)
          BY <2>3, <2>5, <4>2
        <5> QED
          BY <1>t, <2>2, <4>2, <5>1, Sums
      <4> QED
        BY <4>1, <4>2
    <3> QED
      BY <1>t, <2>2, <3>1, <3>2, Sums DEF Ledger, Books
  <2> QED
    BY <2>4, <2>5
<1>18. ASSUME NEW k \in Move, Returns(k) PROVE Books(j)'
  BY <1>t, <1>q, <1>18, Returned DEF places, people
<1>17. CASE UNCHANGED vars
  BY <1>q, <1>17 DEF vars, places, people
<1> QED
  <2>1. Roaming \subseteq User
    BY UserAssumption
  <2> QED
    BY <1>1, <1>2, <1>3, <1>4, <1>5, <1>6, <1>7, <1>8, <1>9, <1>10, <1>11, <1>12, <1>13, <1>14,
       <1>15, <1>16, <1>17, <1>18, <2>1 DEF Next, Returns

(* The books of every instance balance, whatever order the reservations,   *)
(* timers, arrivals, departures and limit changes of Zone.cpp come in.     *)
THEOREM LedgerHolds == Spec => []Ledger
<1>1. Init => Ledger
  BY DEF Init, Ledger
<1>2. IInv /\ Ledger /\ [Next]_vars => Ledger'
  BY LedgerStep
<1> QED
  BY <1>1, <1>2, Invariance, PTL DEF Spec

(* Timers run for reservations, or are left over from replaced ones.       *)
Spare(i, u) == timers[i][u] - (IF u \in held[i] THEN 1 ELSE 0)

LEMMA TimersStep == IInv /\ TimersKept /\ [Next]_vars => TimersKept'
<1> SUFFICES ASSUME IInv, TimersKept, [Next]_vars, NEW j \in Instance, NEW v \in User
             PROVE  (Spare(j, v) \in 0 .. lost[j])'
  BY DEF TimersKept, Spare
<1> DEFINE Kept == (Spare(j, v) \in 0 .. lost[j])'
<1>t. /\ TypeOK /\ QueuesOK /\ held \in [Instance -> SUBSET User] /\ made \subseteq Instance
      /\ timers \in [Instance -> [User -> Int]] /\ lost \in [Instance -> Nat]
      /\ timers[j][v] \in Int /\ lost[j] \in Nat
  BY DEF IInv, TypeOK
<1>0. Spare(j, v) \in 0 .. lost[j]
  BY DEF TimersKept, Spare
<1>k. ASSUME Spare(j, v)' = Spare(j, v), NEW n \in Nat, lost'[j] = lost[j] + n PROVE Kept
  BY <1>0, <1>t, <1>k
<1>q. ASSUME UNCHANGED <<timers, held, lost>> PROVE Kept
  BY <1>0, <1>q DEF Spare
\* A reservation ends with its timer.
<1>e. ASSUME NEW i \in Instance, NEW u \in User, u \in held[i],
             held' = [held EXCEPT ![i] = @ \ {u}], timers' = [timers EXCEPT ![i][u] = @ - 1]
      PROVE  Spare(j, v)' = Spare(j, v)
  <2>1. CASE j = i /\ v = u
    <3>1. v \in held[j] /\ v \notin held'[j] /\ timers'[j][v] = timers[j][v] - 1
      BY <1>t, <1>e, <2>1
    <3> QED
      BY <1>t, <3>1 DEF Spare
  <2>2. CASE ~(j = i /\ v = u)
    <3>1. (v \in held'[j] <=> v \in held[j]) /\ timers'[j][v] = timers[j][v]
      BY <1>t, <1>e, <2>2
    <3> QED
      BY <3>1 DEF Spare
  <2> QED
    BY <2>1, <2>2
<1>g. ASSUME NEW i \in Instance, NEW u \in User, GiveUp(i, u), lost' = lost PROVE Kept
  <2>1. CASE u \in held[i]
    <3>1. held' = [held EXCEPT ![i] = @ \ {u}] /\ timers' = [timers EXCEPT ![i][u] = @ - 1]
      BY <1>g, <2>1 DEF GiveUp
    <3>2. Spare(j, v)' = Spare(j, v)
      BY <1>e, <2>1, <3>1
    <3>3. lost'[j] = lost[j] + 0
      BY <1>t, <1>g
    <3> QED
      BY <1>k, <3>2, <3>3
  <2>2. CASE u \notin held[i]
    BY <1>q, <1>g, <2>2 DEF GiveUp
  <2> QED
    BY <2>1, <2>2
<1>1. ASSUME NEW u \in User, Login(u) \/ Close(u) \/ SessionRemoved(u) \/ Go(u) PROVE Kept
  BY <1>q, <1>1 DEF Login, Close, SessionRemoved, Go, places
<1>2. ASSUME NEW u \in User, Delete(u) PROVE Kept
  <2>1. /\ UNCHANGED <<timers, held>>
        /\ lost'[j] = lost[j] + (IF at[u] = j THEN 1 ELSE 0)
    BY <1>2 DEF Delete
  <2>2. Spare(j, v)' = Spare(j, v)
    BY <2>1 DEF Spare
  <2> QED
    BY <1>k, <2>1, <2>2
<1>3. ASSUME NEW k \in Move, NEW u \in User, NEW z \in Zone, Ask(k, u, z) PROVE Kept
  BY <1>q, <1>3 DEF Ask, places
<1>4. ASSUME NEW k \in Move, NEW u \in User, NEW i \in Instance, AskFromAway(k, u, i) PROVE Kept
  BY <1>q, <1>4 DEF AskFromAway, places
<1>5. ASSUME NEW k \in Move, Choose(k) \/ Returns(k) PROVE Kept
  BY <1>q, <1>t, <1>5, Returned DEF Choose, places
<1>6. ASSUME NEW k \in Move, NEW i \in Instance, Created(k, i) PROVE Kept
  BY <1>q, <1>6 DEF Created
<1>7. ASSUME NEW z \in Zone, NEW n \in Pop, ZoneUpdated(z, n) PROVE Kept
  BY <1>q, <1>7 DEF ZoneUpdated, places
<1>8. ASSUME NEW i \in Instance, InstanceUpdated(i) \/ PlaceMaybeReserved(i) \/ ReplyToAway(i) PROVE Kept
  BY <1>q, <1>8 DEF InstanceUpdated, PlaceMaybeReserved, ReplyToAway, places
<1>9. ASSUME NEW i \in Instance, Reserve(i) PROVE Kept
  <2>0. PICK u : u = mover[Head(calls[i]).nr]
    OBVIOUS
  <2>1. u \in User
    BY <1>t, <1>9, <2>0, HeadCall DEF Reserve, Placed
  <2>2. \/ UNCHANGED <<held, timers, lost>>
        \/ /\ held' = [held EXCEPT ![i] = @ \cup {u}] /\ timers' = [timers EXCEPT ![i][u] = @ + 1]
           /\ lost' = [lost EXCEPT ![i] = @ + (IF u \in held[i] THEN 1 ELSE 0)]
    BY <1>9, <2>0 DEF Reserve
  <2>3. ASSUME held' = [held EXCEPT ![i] = @ \cup {u}], timers' = [timers EXCEPT ![i][u] = @ + 1],
               lost' = [lost EXCEPT ![i] = @ + (IF u \in held[i] THEN 1 ELSE 0)]
        PROVE  Kept
    <3>1. CASE j = i /\ v = u
      <4>1. /\ v \in held'[j] /\ timers'[j][v] = timers[j][v] + 1
            /\ lost'[j] = lost[j] + (IF v \in held[j] THEN 1 ELSE 0)
        BY <1>t, <2>1, <2>3, <3>1
      <4> QED
        BY <1>0, <1>t, <4>1 DEF Spare
    <3>2. CASE ~(j = i /\ v = u)
      <4>1. /\ (v \in held'[j] <=> v \in held[j]) /\ timers'[j][v] = timers[j][v]
            /\ lost'[j] = lost[j] + (IF j = i /\ u \in held[i] THEN 1 ELSE 0)
        BY <1>t, <2>1, <2>3, <3>2
      <4>2. Spare(j, v)' = Spare(j, v)
        BY <4>1 DEF Spare
      <4> QED
        BY <1>k, <4>1, <4>2
    <3> QED
      BY <3>1, <3>2
  <2> QED
    BY <1>q, <2>2, <2>3
<1>10. ASSUME NEW i \in Instance, Cancel(i) PROVE Kept
  <2>1. Head(calls[i]).user \in User
    BY <1>t, <1>10, HeadCall DEF Cancel
  <2> QED
    BY <1>g, <1>10, <2>1 DEF Cancel
<1>11. ASSUME NEW i \in Instance, Resize(i) PROVE Kept
  BY <1>q, <1>11 DEF Resize
<1>12. ASSUME NEW i \in Instance, NEW u \in User, Expire(i, u) PROVE Kept
  BY <1>g, <1>12 DEF Expire
<1>13. ASSUME NEW u \in User, Enter(u) PROVE Kept
  <2>0. PICK i : i = inst[Head(inbox[u]).nr]
    OBVIOUS
  <2>1. i \in Instance
    BY <1>t, <1>13, <2>0, HeadJob DEF Enter, Placed
  <2>2. /\ held' = [held EXCEPT ![i] = @ \ {u}]
        /\ timers' = [timers EXCEPT ![i][u] = IF u \in held[i] THEN @ - 1 ELSE @]
        /\ lost'[j] = lost[j] + (IF at[u] = j THEN 1 ELSE 0)
    BY <1>13, <2>0 DEF Enter
  <2>3. CASE u \in held[i]
    <3>1. timers' = [timers EXCEPT ![i][u] = @ - 1]
      BY <2>2, <2>3
    <3>2. Spare(j, v)' = Spare(j, v)
      BY <1>e, <2>1, <2>2, <2>3, <3>1
    <3> QED
      BY <1>k, <2>2, <3>2
  <2>4. CASE u \notin held[i]
    <3>1. held' = held /\ timers'[j][v] = timers[j][v]
      BY <1>t, <2>1, <2>2, <2>4
    <3>2. Spare(j, v)' = Spare(j, v)
      BY <3>1 DEF Spare
    <3> QED
      BY <1>k, <2>2, <3>2
  <2> QED
    BY <2>3, <2>4
<1>14. CASE UNCHANGED vars
  BY <1>q, <1>14 DEF vars, places
<1> QED
  <2>1. Roaming \subseteq User
    BY UserAssumption
  <2> QED
    BY <1>1, <1>2, <1>3, <1>4, <1>5, <1>6, <1>7, <1>8, <1>9, <1>10, <1>11, <1>12, <1>13, <1>14, <2>1
       DEF Next, Returns

(* A timer runs for every reservation, so that none is kept for ever; and  *)
(* the timers that run for none are no more than the places lost, each of  *)
(* a reservation replaced by a second one of its user (Zone.cpp:108-112).  *)
THEOREM TimersHold == Spec => []TimersKept
<1>1. Init => TimersKept
  BY DEF Init, TimersKept
<1>2. IInv /\ TimersKept /\ [Next]_vars => TimersKept'
  BY TimersStep
<1> QED
  BY <1>1, <1>2, Invariance, PTL DEF Spec

-----------------------------------------------------------------------------
(* Before the first change of a limit no instance has been told of one, so *)
(* nothing but a reservation takes the open count down, and that only when *)
(* it is positive.                                                         *)
Steady == updates = 0 => \A i \in Instance :
    /\ open[i] >= 0
    /\ \A n \in 1 .. Len(calls[i]) : calls[i][n].op # "updated"

LEMMA SteadyStep == IInv /\ Steady /\ [Next]_vars => Steady'
<1> SUFFICES ASSUME IInv, Steady, [Next]_vars, updates' = 0, NEW j \in Instance
             PROVE  /\ open'[j] >= 0
                    /\ \A n \in 1 .. Len(calls'[j]) : calls'[j][n].op # "updated"
  BY DEF Steady
<1> DEFINE Even == /\ open'[j] >= 0
                   /\ \A n \in 1 .. Len(calls'[j]) : calls'[j][n].op # "updated"
<1>t. /\ TypeOK /\ QueuesOK /\ Untouched
      /\ open \in [Instance -> Int] /\ calls \in [Instance -> Seq(Call)]
  BY DEF IInv, TypeOK, QueuesOK
<1>u. updates = 0
  <2>1. ASSUME NEW z \in Zone, NEW n \in Pop, ZoneUpdated(z, n) PROVE FALSE
    BY <1>t, <2>1 DEF ZoneUpdated, TypeOK
  <2> QED
    BY <2>1 DEF Next, vars, Login, Close, SessionRemoved, Delete, Ask, AskFromAway, Choose, Created,
       InstanceUpdated, PlaceMaybeReserved, ReplyToAway, Reserve, Cancel, Resize, Expire, Go, Enter,
       CreateFails, RefusedElsewhere, GoneElsewhere, Refused
<1>0. \A i \in Instance : /\ open[i] >= 0
                          /\ \A n \in 1 .. Len(calls[i]) : calls[i][n].op # "updated"
  BY <1>u DEF Steady
<1>q. ASSUME UNCHANGED <<open, calls>> PROVE Even
  BY <1>0, <1>q
<1>a. ASSUME NEW i \in Instance, NEW c, c.op # "updated", calls' = [calls EXCEPT ![i] = Append(@, c)],
             open' = open
      PROVE  Even
  <2>1. CASE j = i
    <3>1. calls'[j] = Append(calls[j], c) /\ calls[j] \in Seq(Call)
      BY <1>t, <1>a, <2>1
    <3>2. \A n \in 1 .. Len(calls'[j]) :
             calls'[j][n] = IF n = Len(calls[j]) + 1 THEN c ELSE calls[j][n]
      BY <3>1
    <3>3. Len(calls'[j]) = Len(calls[j]) + 1
      BY <3>1
    <3> QED
      BY <1>0, <1>a, <3>1, <3>2, <3>3
  <2>2. CASE j # i
    BY <1>0, <1>t, <1>a, <2>2
  <2> QED
    BY <2>1, <2>2
<1>p. ASSUME NEW i \in Instance, calls[i] # <<>>, calls' = [calls EXCEPT ![i] = Tail(@)]
      PROVE  \A n \in 1 .. Len(calls'[j]) : calls'[j][n].op # "updated"
  <2>1. CASE j = i
    <3>1. calls'[j] = Tail(calls[j]) /\ calls[j] \in Seq(Call) /\ calls[j] # <<>>
      BY <1>t, <1>p, <2>1
    <3>2. \A n \in 1 .. Len(calls'[j]) : calls'[j][n] = calls[j][n + 1] /\ n + 1 \in 1 .. Len(calls[j])
      BY <3>1
    <3> QED
      BY <1>0, <3>2
  <2>2. CASE j # i
    BY <1>0, <1>t, <1>p, <2>2
  <2> QED
    BY <2>1, <2>2
<1>h. ASSUME NEW i \in Instance, calls[i] # <<>> PROVE Head(calls[i]).op # "updated"
  BY <1>0, <1>t, <1>h
<1>1. ASSUME NEW u \in User, Login(u) \/ Close(u) \/ SessionRemoved(u) \/ Delete(u) \/ Enter(u) PROVE Even
  BY <1>q, <1>1 DEF Login, Close, SessionRemoved, Delete, Enter, places, queues
<1>2. ASSUME NEW k \in Move, NEW u \in User, NEW z \in Zone, Ask(k, u, z) PROVE Even
  BY <1>q, <1>2 DEF Ask, places, queues
<1>3. ASSUME NEW k \in Move, NEW u \in User, NEW i \in Instance, AskFromAway(k, u, i) PROVE Even
  <2> DEFINE c == [op |-> "reserve", nr |-> k]
  <2>1. c.op # "updated" /\ calls' = [calls EXCEPT ![i] = Append(@, c)] /\ open' = open
    BY <1>3 DEF AskFromAway, places
  <2> HIDE DEF c
  <2> QED
    BY <1>a, <2>1
<1>4. ASSUME NEW k \in Move, Choose(k) PROVE Even
  <2>1. CASE calls' = calls
    BY <1>q, <1>4, <2>1 DEF Choose, places
  <2>2. ASSUME NEW i \in Believed(goal[k]),
               calls' = [calls EXCEPT ![i] = Append(@, [op |-> "reserve", nr |-> k])]
        PROVE  Even
    <3> DEFINE c == [op |-> "reserve", nr |-> k]
    <3>1. c.op # "updated" /\ calls' = [calls EXCEPT ![i] = Append(@, c)] /\ open' = open
      BY <1>4, <2>2 DEF Choose, places
    <3>2. i \in Instance
      BY <1>t, <2>2 DEF Believed, TypeOK
    <3> HIDE DEF c
    <3> QED
      BY <1>a, <3>1, <3>2
  <2> QED
    BY <1>4, <2>1, <2>2 DEF Choose
<1>5. ASSUME NEW k \in Move, NEW i \in Instance, Created(k, i) PROVE Even
  <2>1. record[ZoneOf[i]] >= 0 /\ calls' = calls
    <3>1. record[ZoneOf[i]] \in Nat
      BY <1>t, ZoneOfAssumption, PopAssumption DEF TypeOK
    <3> QED
      BY <1>5, <3>1 DEF Created
  <2> QED
    BY <1>0, <1>t, <1>5, <2>1 DEF Created
<1>6. ASSUME NEW i \in Instance, InstanceUpdated(i) PROVE Even
  BY <1>q, <1>6 DEF InstanceUpdated, places
<1>7. ASSUME NEW i \in Instance, PlaceMaybeReserved(i) \/ ReplyToAway(i) PROVE Even
  <2>1. open' = open
    BY <1>7 DEF PlaceMaybeReserved, ReplyToAway, places
  <2> DEFINE c == [op |-> "cancel", user |-> mover[Head(posts[i]).nr]]
  <2>2. calls' = calls \/ calls' = [calls EXCEPT ![i] = Append(@, c)]
    BY <1>7 DEF PlaceMaybeReserved, ReplyToAway
  <2>3. c.op # "updated"
    OBVIOUS
  <2> HIDE DEF c
  <2>4. CASE calls' = calls
    BY <1>q, <2>1, <2>4
  <2>5. CASE calls' = [calls EXCEPT ![i] = Append(@, c)]
    BY <1>a, <2>1, <2>3, <2>5
  <2> QED
    BY <2>2, <2>4, <2>5
<1>8. ASSUME NEW i \in Instance, Reserve(i) PROVE Even
  <2>1. \/ open' = open
        \/ open[i] > 0 /\ open' = [open EXCEPT ![i] = @ - 1]
    BY <1>8 DEF Reserve
  <2>2. open'[j] >= 0
    <3>1. CASE open' = open
      BY <1>0, <3>1
    <3>2. CASE open[i] > 0 /\ open' = [open EXCEPT ![i] = @ - 1]
      BY <1>0, <1>t, <3>2
    <3> QED
      BY <2>1, <3>1, <3>2
  <2> QED
    BY <1>p, <1>8, <2>2 DEF Reserve
<1>9. ASSUME NEW i \in Instance, Cancel(i) PROVE Even
  <2>1. open'[j] >= 0
    <3>1. CASE open' = open
      BY <1>0, <3>1
    <3>2. CASE open' = [open EXCEPT ![i] = @ + 1]
      BY <1>0, <1>t, <3>2
    <3> QED
      BY <1>9, <3>1, <3>2 DEF Cancel, GiveUp
  <2> QED
    BY <1>p, <1>9, <2>1 DEF Cancel
<1>10. ASSUME NEW i \in Instance, NEW u \in User, Expire(i, u) PROVE Even
  <2>1. calls' = calls
    BY <1>10 DEF Expire
  <2>2. CASE open' = open
    BY <1>0, <2>1, <2>2
  <2>3. CASE open' = [open EXCEPT ![i] = @ + 1]
    BY <1>0, <1>t, <2>1, <2>3
  <2> QED
    BY <1>10, <2>2, <2>3 DEF Expire, GiveUp
<1>11. ASSUME NEW i \in Instance, Resize(i) PROVE Even
  BY <1>h, <1>11 DEF Resize
<1>12. ASSUME NEW u \in User, Go(u) PROVE Even
  <2>1. calls' = calls
    BY <1>12 DEF Go
  <2>2. CASE at[u] = None
    BY <1>q, <1>12, <2>1, <2>2 DEF Go
  <2>3. CASE at[u] # None
    <3>1. open' = [open EXCEPT ![at[u]] = @ + 1] /\ at[u] \in Instance
      BY <1>t, <1>12, <2>3 DEF Go, TypeOK
    <3> QED
      BY <1>0, <1>t, <2>1, <3>1
  <2> QED
    BY <2>2, <2>3
<1>13. ASSUME NEW z \in Zone, NEW n \in Pop, ZoneUpdated(z, n) PROVE Even
  BY <1>t, <1>u, <1>13 DEF ZoneUpdated
<1>15. ASSUME NEW k \in Move, Returns(k) PROVE Even
  BY <1>t, <1>q, <1>15, Returned DEF places, queues
<1>14. CASE UNCHANGED vars
  BY <1>q, <1>14 DEF vars, places, queues
<1> QED
  <2>1. Roaming \subseteq User
    BY UserAssumption
  <2> QED
    BY <1>1, <1>2, <1>3, <1>4, <1>5, <1>6, <1>7, <1>8, <1>9, <1>10, <1>11, <1>12, <1>13, <1>14, <1>15, <2>1
       DEF Next, Returns

(* Until a limit changes, an instance holds more sessions, reservations    *)
(* and lost places than its limit only by the sessions it took in without  *)
(* a reservation (Instance::addSession).                                   *)
THEOREM NeverOverbooked == Spec => []NoOverbooking
<1>1. Init => Steady
  BY DEF Init, Steady
<1>2. IInv /\ Steady /\ [Next]_vars => Steady'
  BY SteadyStep
<1>3. IInv /\ Ledger /\ Steady => NoOverbooking
  <2> SUFFICES ASSUME IInv, Ledger, Steady, updates = 0, NEW i \in made
               PROVE  Cardinality(held[i]) + Cardinality(Occupants(i)) + lost[i] <= maxPop[i] + extra[i]
    BY DEF NoOverbooking
  <2>1. TypeOK /\ i \in Instance /\ open[i] >= 0
    BY DEF IInv, TypeOK, Steady
  <2>2. open[i] = maxPop[i] - Cardinality(held[i]) - Cardinality(Occupants(i)) - lost[i] + extra[i]
    BY DEF Ledger
  <2> QED
    BY <2>1, <2>2, Sums
<1> QED
  BY <1>1, <1>2, <1>3, Invariance, LedgerHolds, PTL DEF Spec

-----------------------------------------------------------------------------
(* The belief v, brought up to date with the posts s, is the count o.      *)
Follows(s, v, o) == \E n \in 0 .. Len(s) :
    /\ n > 0 => s[n].op = "open"
    /\ \A m \in n + 1 .. Len(s) : s[m].op # "open"
    /\ o = IF n = 0 THEN v ELSE s[n].n

LEMMA FollowsTold ==
  ASSUME NEW S, NEW s \in Seq(S), NEW v, NEW o
  PROVE  Follows(Announce(s, o), v, o)
<1> DEFINE t == Append(s, [op |-> "open", n |-> o])
<1>1. Len(t) = Len(s) + 1 /\ Len(s) \in Nat /\ t[Len(s) + 1] = [op |-> "open", n |-> o]
  OBVIOUS
<1> HIDE DEF t
<1>2. Follows(t, v, o)
  <2> DEFINE n == Len(s) + 1
  <2>1. n \in 0 .. Len(t) /\ t[n].op = "open" /\ t[n].n = o /\ n # 0
    BY <1>1
  <2>2. \A m \in n + 1 .. Len(t) : t[m].op # "open"
    BY <1>1
  <2> HIDE DEF n
  <2> QED
    BY <2>1, <2>2 DEF Follows
<1> QED
  BY <1>2 DEF Announce, t

LEMMA FollowsReply ==
  ASSUME NEW S, NEW s \in Seq(S), NEW v, NEW o, NEW c, c.op # "open", Follows(s, v, o)
  PROVE  Follows(Append(s, c), v, o)
<1> DEFINE t == Append(s, c)
<1>1. /\ Len(t) = Len(s) + 1 /\ Len(s) \in Nat /\ t[Len(s) + 1] = c
      /\ \A m \in 1 .. Len(s) : t[m] = s[m]
  OBVIOUS
<1> HIDE DEF t
<1>2. PICK n \in 0 .. Len(s) : /\ n > 0 => s[n].op = "open"
                               /\ \A m \in n + 1 .. Len(s) : s[m].op # "open"
                               /\ o = IF n = 0 THEN v ELSE s[n].n
  BY DEF Follows
<1>3. \A m \in n + 1 .. Len(t) : t[m].op # "open"
  <2> TAKE m \in n + 1 .. Len(t)
  <2>1. CASE m = Len(s) + 1
    BY <1>1, <2>1
  <2>2. CASE m # Len(s) + 1
    <3>1. m \in n + 1 .. Len(s) /\ m \in 1 .. Len(s)
      BY <1>1, <1>2, <2>2
    <3> QED
      BY <1>1, <1>2, <3>1
  <2> QED
    BY <2>1, <2>2
<1>4. n \in 0 .. Len(t) /\ (n > 0 => t[n] = s[n])
  BY <1>1, <1>2
<1>5. Follows(t, v, o)
  BY <1>2, <1>3, <1>4 DEF Follows
<1> QED
  BY <1>5 DEF t

LEMMA FollowsRead ==
  ASSUME NEW S, NEW s \in Seq(S), s # <<>>, NEW v, NEW o, Follows(s, v, o)
  PROVE  /\ Head(s).op = "open" => Follows(Tail(s), Head(s).n, o)
         /\ Head(s).op # "open" => Follows(Tail(s), v, o)
<1> DEFINE t == Tail(s)
<1>1. /\ Len(s) \in Nat /\ Len(s) > 0 /\ Len(t) = Len(s) - 1 /\ Head(s) = s[1]
      /\ \A m \in 1 .. Len(t) : t[m] = s[m + 1]
  OBVIOUS
<1> HIDE DEF t
<1>2. PICK n \in 0 .. Len(s) : /\ n > 0 => s[n].op = "open"
                               /\ \A m \in n + 1 .. Len(s) : s[m].op # "open"
                               /\ o = IF n = 0 THEN v ELSE s[n].n
  BY DEF Follows
<1>3. \A m \in 1 .. Len(t) : m > n - 1 => t[m].op # "open"
  <2> SUFFICES ASSUME NEW m \in 1 .. Len(t), m > n - 1 PROVE t[m].op # "open"
    OBVIOUS
  <2>1. m + 1 \in n + 1 .. Len(s)
    BY <1>1, <1>2
  <2> QED
    BY <1>1, <1>2, <2>1
<1>4. CASE n = 0
  <2>1. Head(s).op # "open" /\ o = v
    BY <1>1, <1>2, <1>4
  <2>2. \A m \in 0 + 1 .. Len(t) : t[m].op # "open"
    BY <1>1, <1>3, <1>4
  <2>3. 0 \in 0 .. Len(t)
    BY <1>1
  <2>4. Follows(t, v, o)
    BY <2>1, <2>2, <2>3 DEF Follows
  <2> QED
    BY <2>1, <2>4 DEF t
<1>5. CASE n = 1
  <2>1. Head(s).op = "open" /\ o = Head(s).n
    BY <1>1, <1>2, <1>5
  <2>2. \A m \in 0 + 1 .. Len(t) : t[m].op # "open"
    BY <1>1, <1>3, <1>5
  <2>3. 0 \in 0 .. Len(t)
    BY <1>1
  <2>4. Follows(t, Head(s).n, o)
    BY <2>1, <2>2, <2>3 DEF Follows
  <2> QED
    BY <2>1, <2>4 DEF t
<1>6. CASE n > 1
  <2> DEFINE p == n - 1
  <2>1. p \in 0 .. Len(t) /\ p # 0 /\ t[p] = s[n] /\ s[n].op = "open" /\ o = s[n].n
    BY <1>1, <1>2, <1>6
  <2>2. \A m \in p + 1 .. Len(t) : t[m].op # "open"
    BY <1>1, <1>2, <1>3, <1>6
  <2> HIDE DEF p
  <2>3. ASSUME NEW w PROVE Follows(t, w, o)
    BY <2>1, <2>2 DEF Follows
  <2> QED
    BY <2>3 DEF t
<1> QED
  BY <1>2, <1>4, <1>5, <1>6

LEMMA ViewStep == IInv /\ ViewFollows /\ [Next]_vars => ViewFollows'
<1> SUFFICES ASSUME IInv, ViewFollows, [Next]_vars, NEW j \in made'
             PROVE  Follows(posts'[j], view'[j], open'[j])
  BY DEF ViewFollows, LastTold, Follows
<1> DEFINE Good == Follows(posts'[j], view'[j], open'[j])
<1>t. /\ TypeOK /\ QueuesOK /\ Untouched /\ made \subseteq Instance
      /\ open \in [Instance -> Int] /\ view \in [Instance -> Int]
      /\ posts \in [Instance -> Seq(Post)]
  BY DEF IInv, TypeOK, QueuesOK
<1>0. \A i \in made : Follows(posts[i], view[i], open[i])
  BY DEF ViewFollows, LastTold, Follows
<1>q. ASSUME UNCHANGED <<open, posts, view, made>> PROVE Good
  BY <1>0, <1>q
<1>a. ASSUME NEW i \in Instance, NEW n, open' = [open EXCEPT ![i] = n], UNCHANGED <<view, made>>,
             posts' = [posts EXCEPT ![i] = Announce(@, n)]
      PROVE  Good
  <2>1. CASE j = i
    <3>1. /\ posts'[j] = Announce(posts[j], n) /\ open'[j] = n /\ view'[j] = view[j]
          /\ posts[j] \in Seq(Post)
      BY <1>t, <1>a, <2>1
    <3> QED
      BY <3>1, FollowsTold
  <2>2. CASE j # i
    BY <1>0, <1>t, <1>a, <2>2
  <2> QED
    BY <2>1, <2>2
<1>p. ASSUME NEW i \in Instance, posts[i] # <<>>, posts' = [posts EXCEPT ![i] = Tail(@)],
             UNCHANGED <<open, made>>,
             \/ Head(posts[i]).op = "open" /\ view' = [view EXCEPT ![i] = Head(posts[i]).n]
             \/ Head(posts[i]).op # "open" /\ view' = view
      PROVE  Good
  <2>1. CASE j = i
    <3>1. /\ posts'[j] = Tail(posts[j]) /\ posts[j] # <<>> /\ open'[j] = open[j]
          /\ posts[j] \in Seq(Post) /\ Follows(posts[j], view[j], open[j])
      BY <1>0, <1>t, <1>p, <2>1
    <3>2. CASE Head(posts[j]).op = "open"
      <4>1. view'[j] = Head(posts[j]).n
        BY <1>t, <1>p, <2>1, <3>2
      <4> QED
        BY <3>1, <3>2, <4>1, FollowsRead
    <3>3. CASE Head(posts[j]).op # "open"
      <4>1. view'[j] = view[j]
        BY <1>p, <2>1, <3>3
      <4> QED
        BY <3>1, <3>3, <4>1, FollowsRead
    <3> QED
      BY <3>2, <3>3
  <2>2. CASE j # i
    BY <1>0, <1>t, <1>p, <2>2
  <2> QED
    BY <2>1, <2>2
<1>1. ASSUME NEW u \in User, Login(u) \/ Close(u) \/ SessionRemoved(u) \/ Delete(u) \/ Enter(u) PROVE Good
  BY <1>q, <1>1 DEF Login, Close, SessionRemoved, Delete, Enter, places, queues
<1>2. ASSUME NEW k \in Move, NEW u \in User, NEW z \in Zone, Ask(k, u, z) PROVE Good
  BY <1>q, <1>2 DEF Ask, places, queues
<1>3. ASSUME NEW k \in Move, NEW u \in User, NEW i \in Instance, AskFromAway(k, u, i) PROVE Good
  BY <1>q, <1>3 DEF AskFromAway, places
<1>4. ASSUME NEW k \in Move, Choose(k) PROVE Good
  BY <1>q, <1>4 DEF Choose, places
<1>5. ASSUME NEW k \in Move, NEW i \in Instance, Created(k, i) PROVE Good
  <2>1. CASE j = i
    <3> DEFINE c == [op |-> "reply", nr |-> k, ok |-> TRUE]
    <3>1. posts[i] = <<>> /\ <<>> \in Seq({c}) /\ c.op # "open"
      BY <1>t, <1>5 DEF Created, Untouched
    <3>2. posts'[i] = Append(<<>>, c) /\ open'[i] = view'[i]
      BY <1>t, <1>5, <3>1 DEF Created
    <3> HIDE DEF c
    <3>3. Follows(<<>>, view'[i], open'[i])
      BY <3>2 DEF Follows
    <3> QED
      BY <2>1, <3>1, <3>2, <3>3, FollowsReply
  <2>2. CASE j # i
    BY <1>0, <1>t, <1>5, <2>2 DEF Created
  <2> QED
    BY <2>1, <2>2
<1>6. ASSUME NEW z \in Zone, NEW n \in Pop, ZoneUpdated(z, n) PROVE Good
  BY <1>q, <1>6 DEF ZoneUpdated, places
<1>7. ASSUME NEW i \in Instance, InstanceUpdated(i) PROVE Good
  BY <1>p, <1>7 DEF InstanceUpdated, places
<1>8. ASSUME NEW i \in Instance, PlaceMaybeReserved(i) \/ ReplyToAway(i) PROVE Good
  <2>1. /\ posts[i] # <<>> /\ posts' = [posts EXCEPT ![i] = Tail(@)] /\ UNCHANGED <<open, made, view>>
        /\ Head(posts[i]).op # "open"
    BY <1>8 DEF PlaceMaybeReserved, ReplyToAway, places
  <2> QED
    BY <1>p, <2>1
<1>9. ASSUME NEW i \in Instance, Reserve(i) PROVE Good
  <2> DEFINE c(ok) == [op |-> "reply", nr |-> Head(calls[i]).nr, ok |-> ok]
  <2>1. UNCHANGED <<view, made>> /\ c(TRUE).op # "open" /\ c(FALSE).op # "open"
    BY <1>9 DEF Reserve
  <2>2. CASE open' = open /\ posts' = [posts EXCEPT ![i] = Append(@, c(FALSE))]
    <3> HIDE DEF c
    <3>1. CASE j = i
      <4>1. posts'[j] = Append(posts[j], c(FALSE)) /\ posts[j] \in Seq(Post)
        BY <1>t, <2>2, <3>1
      <4> QED
        BY <1>0, <2>1, <2>2, <4>1, FollowsReply
    <3>2. CASE j # i
      BY <1>0, <1>t, <2>1, <2>2, <3>2
    <3> QED
      BY <3>1, <3>2
  <2>3. CASE /\ open' = [open EXCEPT ![i] = @ - 1]
             /\ posts' = [posts EXCEPT ![i] = Append(Announce(@, open[i] - 1), c(TRUE))]
    <3> HIDE DEF c
    <3>1. CASE j = i
      <4> DEFINE s == Announce(posts[j], open[j] - 1)
      <4>1. posts'[j] = Append(s, c(TRUE)) /\ open'[j] = open[j] - 1 /\ posts[j] \in Seq(Post)
        BY <1>t, <2>3, <3>1
      <4>2. s \in Seq(Post)
        BY <1>t, <3>1, OpenPost DEF Announce
      <4>3. Follows(s, view[j], open[j] - 1)
        BY <4>1, FollowsTold
      <4> HIDE DEF s
      <4> QED
        BY <2>1, <4>1, <4>2, <4>3, FollowsReply
    <3>2. CASE j # i
      BY <1>0, <1>t, <2>1, <2>3, <3>2
    <3> QED
      BY <3>1, <3>2
  <2> QED
    BY <1>9, <2>2, <2>3 DEF Reserve
<1>10. ASSUME NEW i \in Instance, NEW u, GiveUp(i, u), UNCHANGED <<view, made>> PROVE Good
  <2>1. CASE UNCHANGED <<open, posts>>
    BY <1>q, <1>10, <2>1
  <2>2. CASE /\ open' = [open EXCEPT ![i] = open[i] + 1]
             /\ posts' = [posts EXCEPT ![i] = Announce(@, open[i] + 1)]
    BY <1>a, <1>10, <2>2
  <2> QED
    BY <1>10, <2>1, <2>2 DEF GiveUp
<1>11. ASSUME NEW i \in Instance, Cancel(i) PROVE Good
  BY <1>10, <1>11 DEF Cancel
<1>12. ASSUME NEW i \in Instance, NEW u \in User, Expire(i, u) PROVE Good
  BY <1>10, <1>12 DEF Expire
<1>13. ASSUME NEW i \in Instance, Resize(i) PROVE Good
  <2> DEFINE n == Head(calls[i]).pop
  <2>1. /\ UNCHANGED <<view, made>> /\ open' = [open EXCEPT ![i] = open[i] + (n - maxPop[i])]
        /\ posts' = IF n = maxPop[i] THEN posts
                    ELSE [posts EXCEPT ![i] = Announce(@, open[i] + (n - maxPop[i]))]
    BY <1>13 DEF Resize
  <2>2. n \in Int /\ maxPop[i] \in Int /\ open[i] \in Int
    <3>1. n \in Pop
      BY <1>t, <1>13, HeadCall DEF Resize
    <3>2. maxPop[i] \in Nat /\ open[i] \in Int
      BY <1>t DEF TypeOK
    <3> HIDE DEF n
    <3> QED
      BY <3>1, <3>2, PopAssumption
  <2> HIDE DEF n
  <2>3. CASE n = maxPop[i]
    <3>1. open' = open
      BY <1>t, <2>1, <2>2, <2>3
    <3> QED
      BY <1>q, <2>1, <2>3, <3>1
  <2>4. CASE n # maxPop[i]
    BY <1>a, <2>1, <2>4
  <2> QED
    BY <2>3, <2>4
<1>14. ASSUME NEW u \in User, Go(u) PROVE Good
  <2>1. UNCHANGED <<view, made>>
    BY <1>14 DEF Go
  <2>2. CASE at[u] = None
    BY <1>q, <1>14, <2>1, <2>2 DEF Go
  <2>3. CASE at[u] # None
    <3>1. at[u] \in Instance
      BY <1>t, <2>3 DEF TypeOK
    <3>2. /\ open' = [open EXCEPT ![at[u]] = open[at[u]] + 1]
          /\ posts' = [posts EXCEPT ![at[u]] = Announce(@, open[at[u]] + 1)]
      BY <1>14, <2>3 DEF Go
    <3> QED
      BY <1>a, <2>1, <3>1, <3>2
  <2> QED
    BY <2>2, <2>3
<1>16. ASSUME NEW k \in Move, Returns(k) PROVE Good
  BY <1>t, <1>q, <1>16, Returned DEF places, queues
<1>15. CASE UNCHANGED vars
  BY <1>q, <1>15 DEF vars, places, queues
<1> QED
  <2>1. Roaming \subseteq User
    BY UserAssumption
  <2> QED
    BY <1>1, <1>2, <1>3, <1>4, <1>5, <1>6, <1>7, <1>8, <1>9, <1>11, <1>12, <1>13, <1>14, <1>15, <1>16, <2>1
       DEF Next, Returns

(* What the PeerManager believes of an instance, brought up to date with   *)
(* the announcements still under way, is the instance's own count.         *)
THEOREM ViewIsFollowing == Spec => []ViewFollows
<1>1. Init => ViewFollows
  BY DEF Init, ViewFollows
<1>2. IInv /\ ViewFollows /\ [Next]_vars => ViewFollows'
  BY ViewStep
<1> QED
  BY <1>1, <1>2, Invariance, PTL DEF Spec

-----------------------------------------------------------------------------
(* What a queue speaks of, as calls are put into it and taken from it.     *)
LEMMA AppendNumbers ==
  ASSUME NEW S, NEW q \in Seq(S), NEW e, NEW ops
  PROVE  /\ e.op \in ops => Numbers(Append(q, e), ops) = Numbers(q, ops) \cup {e.nr}
         /\ e.op \notin ops => Numbers(Append(q, e), ops) = Numbers(q, ops)
         /\ Single(q, ops) /\ (e.op \in ops => e.nr \notin Numbers(q, ops)) => Single(Append(q, e), ops)
<1> DEFINE r == Append(q, e)
<1>1. DOMAIN q = 1 .. Len(q) /\ Len(q) \in Nat /\ DOMAIN r = 1 .. Len(q) + 1
  OBVIOUS
<1>2. \A n \in DOMAIN r : r[n] = IF n = Len(q) + 1 THEN e ELSE q[n]
  OBVIOUS
<1>3. DOMAIN r = DOMAIN q \cup {Len(q) + 1} /\ Len(q) + 1 \notin DOMAIN q
  BY <1>1
<1>4. r[Len(q) + 1] = e /\ \A n \in DOMAIN q : r[n] = q[n]
  BY <1>2, <1>3
<1> HIDE DEF r
<1>5. /\ e.op \in ops => Numbers(r, ops) = Numbers(q, ops) \cup {e.nr}
      /\ e.op \notin ops => Numbers(r, ops) = Numbers(q, ops)
  BY <1>3, <1>4 DEF Numbers
<1>6. Single(q, ops) /\ (e.op \in ops => e.nr \notin Numbers(q, ops)) => Single(r, ops)
  BY <1>3, <1>4 DEF Numbers, Single
<1> QED
  BY <1>5, <1>6 DEF r

LEMMA TailNumbers ==
  ASSUME NEW S, NEW q \in Seq(S), q # <<>>, NEW ops, Single(q, ops)
  PROVE  /\ Numbers(Tail(q), ops) = Numbers(q, ops) \ (IF Head(q).op \in ops THEN {Head(q).nr} ELSE {})
         /\ Head(q).op \in ops => Head(q).nr \in Numbers(q, ops)
         /\ Single(Tail(q), ops)
<1> DEFINE r == Tail(q)
<1>1. /\ DOMAIN q = 1 .. Len(q) /\ Len(q) \in Nat \ {0} /\ DOMAIN r = 1 .. Len(q) - 1
      /\ \A n \in DOMAIN r : r[n] = q[n + 1]
      /\ Head(q) = q[1]
  OBVIOUS
<1>2. \A n \in DOMAIN r : n + 1 \in DOMAIN q /\ n + 1 # 1
  BY <1>1
<1>3. \A m \in DOMAIN q : m = 1 \/ \E n \in DOMAIN r : q[m] = r[n]
  <2> SUFFICES ASSUME NEW m \in DOMAIN q, m # 1 PROVE m - 1 \in DOMAIN r /\ q[m] = r[m - 1]
    OBVIOUS
  <2>1. m \in 1 .. Len(q) /\ m - 1 \in 1 .. Len(q) - 1
    BY <1>1
  <2> QED
    BY <1>1, <2>1
<1>4. 1 \in DOMAIN q
  BY <1>1
<1>5. \A m, n \in DOMAIN r : m + 1 = n + 1 => m = n
  BY <1>1
<1> HIDE DEF r
<1>6. Numbers(r, ops) \subseteq Numbers(q, ops)
  BY <1>1, <1>2 DEF Numbers
<1>7. Head(q).op \in ops => Head(q).nr \in Numbers(q, ops)
  BY <1>1, <1>4 DEF Numbers
<1>8. Head(q).op \in ops => Head(q).nr \notin Numbers(r, ops)
  BY <1>1, <1>2, <1>4 DEF Numbers, Single
<1>9. \A k \in Numbers(q, ops) : k \in Numbers(r, ops) \/ (Head(q).op \in ops /\ k = Head(q).nr)
  BY <1>1, <1>3 DEF Numbers
<1>10. Single(r, ops)
  BY <1>1, <1>2, <1>5 DEF Single
<1> QED
  BY <1>6, <1>7, <1>8, <1>9, <1>10 DEF r

(* The same of the queues of instances and sessions.                       *)
LEMMA CallPut ==
  ASSUME QueuesOK, Once, NEW i \in Instance, NEW e, calls' = [calls EXCEPT ![i] = Append(@, e)],
         e.op = "reserve" => e.nr \notin Reserving(i)
  PROVE  \A j \in Instance :
           /\ Single(calls[j], {"reserve"})'
           /\ Reserving(j)' = IF j = i /\ e.op = "reserve" THEN Reserving(j) \cup {e.nr} ELSE Reserving(j)
<1> TAKE j \in Instance
<1>1. calls[j] \in Seq(Call) /\ calls'[j] = IF j = i THEN Append(calls[j], e) ELSE calls[j]
  BY DEF QueuesOK
<1>2. Single(calls[j], {"reserve"})
  BY DEF Once
<1>3. CASE j # i
  BY <1>1, <1>2, <1>3 DEF Reserving
<1>4. CASE j = i
  <2>1. e.op \in {"reserve"} <=> e.op = "reserve"
    OBVIOUS
  <2>2. e.op = "reserve" => e.nr \notin Numbers(calls[j], {"reserve"})
    BY <1>4 DEF Reserving
  <2>3. Single(Append(calls[j], e), {"reserve"})
    BY <1>1, <1>2, <2>1, <2>2, AppendNumbers
  <2>4. /\ e.op = "reserve" => Numbers(Append(calls[j], e), {"reserve"}) = Numbers(calls[j], {"reserve"}) \cup {e.nr}
        /\ e.op # "reserve" => Numbers(Append(calls[j], e), {"reserve"}) = Numbers(calls[j], {"reserve"})
    BY <1>1, <2>1, AppendNumbers
  <2> QED
    BY <1>1, <1>4, <2>3, <2>4 DEF Reserving
<1> QED
  BY <1>3, <1>4

LEMMA CallTaken ==
  ASSUME QueuesOK, Once, NEW i \in Instance, calls[i] # <<>>, calls' = [calls EXCEPT ![i] = Tail(@)]
  PROVE  LET e == Head(calls[i]) IN
         /\ \A j \in Instance :
              /\ Single(calls[j], {"reserve"})'
              /\ Reserving(j)' = Reserving(j) \ (IF j = i /\ e.op = "reserve" THEN {e.nr} ELSE {})
         /\ e.op = "reserve" => e.nr \in Reserving(i)
<1>1. \A j \in Instance : calls[j] \in Seq(Call) /\ calls'[j] = IF j = i THEN Tail(calls[j]) ELSE calls[j]
  BY DEF QueuesOK
<1>2. \A j \in Instance : Single(calls[j], {"reserve"})
  BY DEF Once
<1> QED
  BY <1>1, <1>2, TailNumbers DEF Reserving

LEMMA PostPut ==
  ASSUME QueuesOK, Once, NEW i \in Instance, NEW e, posts' = [posts EXCEPT ![i] = Append(@, e)],
         e.op = "reply" => e.nr \notin Replying(i)
  PROVE  \A j \in Instance :
           /\ Single(posts[j], {"reply"})'
           /\ Replying(j)' = IF j = i /\ e.op = "reply" THEN Replying(j) \cup {e.nr} ELSE Replying(j)
<1> TAKE j \in Instance
<1>1. posts[j] \in Seq(Post) /\ posts'[j] = IF j = i THEN Append(posts[j], e) ELSE posts[j]
  BY DEF QueuesOK
<1>2. Single(posts[j], {"reply"})
  BY DEF Once
<1>3. CASE j # i
  BY <1>1, <1>2, <1>3 DEF Replying
<1>4. CASE j = i
  <2>1. e.op \in {"reply"} <=> e.op = "reply"
    OBVIOUS
  <2>2. e.op = "reply" => e.nr \notin Numbers(posts[j], {"reply"})
    BY <1>4 DEF Replying
  <2>3. Single(Append(posts[j], e), {"reply"})
    BY <1>1, <1>2, <2>1, <2>2, AppendNumbers
  <2>4. /\ e.op = "reply" => Numbers(Append(posts[j], e), {"reply"}) = Numbers(posts[j], {"reply"}) \cup {e.nr}
        /\ e.op # "reply" => Numbers(Append(posts[j], e), {"reply"}) = Numbers(posts[j], {"reply"})
    BY <1>1, <2>1, AppendNumbers
  <2> QED
    BY <1>1, <1>4, <2>3, <2>4 DEF Replying
<1> QED
  BY <1>3, <1>4

LEMMA PostsPut ==
  ASSUME QueuesOK, Once, NEW i \in Instance, NEW n \in Int, NEW e,
         posts' = [posts EXCEPT ![i] = Append(Announce(@, n), e)],
         e.op = "reply" => e.nr \notin Replying(i)
  PROVE  \A j \in Instance :
           /\ Single(posts[j], {"reply"})'
           /\ Replying(j)' = IF j = i /\ e.op = "reply" THEN Replying(j) \cup {e.nr} ELSE Replying(j)
<1> TAKE j \in Instance
<1> DEFINE o == [op |-> "open", n |-> n]
           s == Append(posts[j], o)
<1>1. posts[j] \in Seq(Post) /\ posts'[j] = IF j = i THEN Append(s, e) ELSE posts[j]
  BY DEF QueuesOK, Announce
<1>2. Single(posts[j], {"reply"})
  BY DEF Once
<1>3. s \in Seq(Post) /\ o.op # "reply"
  BY <1>1, OpenPost
<1>5. s = Append(posts[j], o)
  OBVIOUS
<1> HIDE DEF o, s
<1>4. Single(s, {"reply"}) /\ Numbers(s, {"reply"}) = Numbers(posts[j], {"reply"})
  <2>1. o.op \notin {"reply"}
    BY <1>3
  <2>2. Numbers(s, {"reply"}) = Numbers(posts[j], {"reply"})
    BY <1>1, <1>5, <2>1, AppendNumbers
  <2>3. Single(s, {"reply"})
    BY <1>1, <1>2, <1>5, <2>1, AppendNumbers
  <2> QED
    BY <2>2, <2>3
<1>6. CASE j # i
  BY <1>1, <1>2, <1>6 DEF Replying
<1>7. CASE j = i
  <2>1. e.op \in {"reply"} <=> e.op = "reply"
    OBVIOUS
  <2>2. e.op = "reply" => e.nr \notin Numbers(s, {"reply"})
    BY <1>4, <1>7 DEF Replying
  <2>3. Single(Append(s, e), {"reply"})
    BY <1>3, <1>4, <2>1, <2>2, AppendNumbers
  <2>4. /\ e.op = "reply" => Numbers(Append(s, e), {"reply"}) = Numbers(s, {"reply"}) \cup {e.nr}
        /\ e.op # "reply" => Numbers(Append(s, e), {"reply"}) = Numbers(s, {"reply"})
    BY <1>3, <2>1, AppendNumbers
  <2> QED
    BY <1>1, <1>4, <1>7, <2>3, <2>4 DEF Replying
<1> QED
  BY <1>6, <1>7

LEMMA PostTaken ==
  ASSUME QueuesOK, Once, NEW i \in Instance, posts[i] # <<>>, posts' = [posts EXCEPT ![i] = Tail(@)]
  PROVE  LET e == Head(posts[i]) IN
         /\ \A j \in Instance :
              /\ Single(posts[j], {"reply"})'
              /\ Replying(j)' = Replying(j) \ (IF j = i /\ e.op = "reply" THEN {e.nr} ELSE {})
         /\ e.op = "reply" => e.nr \in Replying(i)
<1>1. \A j \in Instance : posts[j] \in Seq(Post) /\ posts'[j] = IF j = i THEN Tail(posts[j]) ELSE posts[j]
  BY DEF QueuesOK
<1>2. \A j \in Instance : Single(posts[j], {"reply"})
  BY DEF Once
<1> QED
  BY <1>1, <1>2, TailNumbers DEF Replying

LEMMA JobPut ==
  ASSUME QueuesOK, Once, NEW u \in User, NEW k, k \notin Going(u),
         inbox' = [inbox EXCEPT ![u] = Append(@, [op |-> "go", nr |-> k])]
  PROVE  \A v \in User :
           /\ Single(inbox[v], {"go", "enter"})'
           /\ Going(v)' = IF v = u THEN Going(v) \cup {k} ELSE Going(v)
<1> TAKE v \in User
<1> DEFINE e == [op |-> "go", nr |-> k]
<1>1. inbox[v] \in Seq(Job) /\ inbox'[v] = IF v = u THEN Append(inbox[v], e) ELSE inbox[v]
  BY DEF QueuesOK
<1>2. Single(inbox[v], {"go", "enter"}) /\ e.op \in {"go", "enter"} /\ e.nr = k
  BY DEF Once
<1> HIDE DEF e
<1>3. CASE v # u
  BY <1>1, <1>2, <1>3 DEF Going
<1>4. CASE v = u
  <2>1. k \notin Numbers(inbox[v], {"go", "enter"})
    BY <1>4 DEF Going
  <2>2. Single(Append(inbox[v], e), {"go", "enter"})
    BY <1>1, <1>2, <2>1, AppendNumbers
  <2>3. Numbers(Append(inbox[v], e), {"go", "enter"}) = Numbers(inbox[v], {"go", "enter"}) \cup {k}
    BY <1>1, <1>2, AppendNumbers
  <2> QED
    BY <1>1, <1>4, <2>2, <2>3 DEF Going
<1> QED
  BY <1>3, <1>4

LEMMA JobTaken ==
  ASSUME QueuesOK, Once, NEW u \in User, inbox[u] # <<>>, inbox' = [inbox EXCEPT ![u] = Tail(@)]
  PROVE  LET k == Head(inbox[u]).nr IN
         /\ \A v \in User :
              /\ Single(inbox[v], {"go", "enter"})'
              /\ Going(v)' = Going(v) \ (IF v = u THEN {k} ELSE {})
         /\ k \in Going(u)
<1>1. \A v \in User : inbox[v] \in Seq(Job) /\ inbox'[v] = IF v = u THEN Tail(inbox[v]) ELSE inbox[v]
  BY DEF QueuesOK
<1>2. \A v \in User : Single(inbox[v], {"go", "enter"})
  BY DEF Once
<1>3. Head(inbox[u]).op \in {"go", "enter"}
  BY HeadJob DEF Job
<1> QED
  BY <1>1, <1>2, <1>3, TailNumbers DEF Going

LEMMA JobPassed ==
  ASSUME QueuesOK, Once, NEW u \in User, inbox[u] # <<>>,
         inbox' = [inbox EXCEPT ![u] = Append(Tail(@), [op |-> "enter", nr |-> Head(@).nr])]
  PROVE  \A v \in User : Single(inbox[v], {"go", "enter"})' /\ Going(v)' = Going(v)
<1> TAKE v \in User
<1> DEFINE e == [op |-> "enter", nr |-> Head(inbox[u]).nr]
           s == Tail(inbox[u])
<1>1. inbox[v] \in Seq(Job) /\ s \in Seq(Job) /\ inbox'[v] = IF v = u THEN Append(s, e) ELSE inbox[v]
  BY HeadJob DEF QueuesOK
<1>2. Single(inbox[v], {"go", "enter"}) /\ e.op \in {"go", "enter"} /\ e.nr = Head(inbox[u]).nr
  BY DEF Once
<1>3. Head(inbox[u]).op \in {"go", "enter"}
  BY HeadJob DEF Job
<1>4. /\ Single(inbox[u], {"go", "enter"}) /\ inbox[u] \in Seq(Job)
  BY DEF Once, QueuesOK
<1>5. /\ Single(s, {"go", "enter"}) /\ e.nr \in Numbers(inbox[u], {"go", "enter"})
      /\ Numbers(s, {"go", "enter"}) = Numbers(inbox[u], {"go", "enter"}) \ {e.nr}
  BY <1>2, <1>3, <1>4, TailNumbers
<1> HIDE DEF e, s
<1>6. Single(Append(s, e), {"go", "enter"})
  BY <1>1, <1>2, <1>5, AppendNumbers
<1>7. Numbers(Append(s, e), {"go", "enter"}) = Numbers(inbox[u], {"go", "enter"})
  <2>1. Numbers(Append(s, e), {"go", "enter"}) = Numbers(s, {"go", "enter"}) \cup {e.nr}
    BY <1>1, <1>2, AppendNumbers
  <2> QED
    BY <1>5, <2>1
<1> QED
  BY <1>1, <1>2, <1>6, <1>7 DEF Going

-----------------------------------------------------------------------------
(* A step that moves one move k on keeps every move spoken of once.        *)
LEMMA OneMoveOn ==
  ASSUME Once, NEW k,
         \A j \in Move \ {k} : stage'[j] = stage[j] /\ inst'[j] = inst[j] /\ mover'[j] = mover[j],
         \A i \in Instance :
           /\ Single(calls[i], {"reserve"})' /\ Single(posts[i], {"reply"})'
           /\ Reserving(i)' \subseteq Reserving(i) \cup {k}
           /\ Replying(i)' \subseteq Replying(i) \cup {k}
           /\ (Reserving(i) \cup Replying(i)) \subseteq Move
           /\ k \in Reserving(i)' \cup Replying(i)' => stage'[k] = "reserving" /\ inst'[k] = i
           /\ k \notin Reserving(i)' \cap Replying(i)',
         \A u \in User :
           /\ Single(inbox[u], {"go", "enter"})'
           /\ Going(u)' \subseteq Going(u) \cup {k}
           /\ Going(u) \subseteq Move
           /\ k \in Going(u)' => stage'[k] = "going" /\ mover'[k] = u
  PROVE  Once'
<1>1. ASSUME NEW i \in Instance
      PROVE  /\ Single(calls[i], {"reserve"})' /\ Single(posts[i], {"reply"})'
             /\ (Reserving(i) \cap Replying(i))' = {}
             /\ \A j \in (Reserving(i) \cup Replying(i))' : stage'[j] = "reserving" /\ inst'[j] = i
  <2>1. /\ Reserving(i) \cap Replying(i) = {}
        /\ \A j \in Reserving(i) \cup Replying(i) : stage[j] = "reserving" /\ inst[j] = i
    BY DEF Once
  <2> QED
    BY <2>1
<1>2. ASSUME NEW u \in User
      PROVE  /\ Single(inbox[u], {"go", "enter"})'
             /\ \A j \in Going(u)' : stage'[j] = "going" /\ mover'[j] = u
  <2>1. \A j \in Going(u) : stage[j] = "going" /\ mover[j] = u
    BY DEF Once
  <2> QED
    BY <2>1
<1> QED
  BY <1>1, <1>2 DEF Once

(* What the queues speak of are moves that have come that far.             *)
LEMMA Spoken ==
  ASSUME QueuesOK
  PROVE  /\ \A i \in Instance : Reserving(i) \subseteq Placed /\ Replying(i) \subseteq Placed
         /\ \A u \in User : Going(u) \subseteq Placed
         /\ Placed \subseteq Move
<1>1. ASSUME NEW i \in Instance PROVE Reserving(i) \subseteq Placed
  <2> SUFFICES ASSUME NEW n \in DOMAIN calls[i], calls[i][n].op = "reserve" PROVE calls[i][n].nr \in Placed
    BY DEF Reserving, Numbers
  <2>1. calls[i][n] \in Call
    BY DEF QueuesOK
  <2> QED
    BY <2>1 DEF Call
<1>2. ASSUME NEW i \in Instance PROVE Replying(i) \subseteq Placed
  <2> SUFFICES ASSUME NEW n \in DOMAIN posts[i], posts[i][n].op = "reply" PROVE posts[i][n].nr \in Placed
    BY DEF Replying, Numbers
  <2>1. posts[i][n] \in Post
    BY DEF QueuesOK
  <2> QED
    BY <2>1 DEF Post
<1>3. ASSUME NEW u \in User PROVE Going(u) \subseteq Placed
  <2> SUFFICES ASSUME NEW n \in DOMAIN inbox[u] PROVE inbox[u][n].nr \in Placed
    BY DEF Going, Numbers
  <2>1. inbox[u][n] \in Job
    BY DEF QueuesOK
  <2> QED
    BY <2>1 DEF Job
<1> QED
  BY <1>1, <1>2, <1>3 DEF Placed

LEMMA OnceStep == IInv /\ Travels /\ [Next]_vars => Once'
<1> SUFFICES ASSUME IInv, Travels, [Next]_vars PROVE Once'
  OBVIOUS
<1>t. /\ QueuesOK /\ Once /\ Headed /\ Parted
      /\ stage \in [Move -> Stage] /\ inst \in [Move -> made \cup {None}] /\ mover \in [Move -> User \cup {None}]
      /\ made \subseteq Instance /\ open \in [Instance -> Int]
  BY DEF IInv, TypeOK, Travels
<1>s. /\ \A i \in Instance : Reserving(i) \subseteq Move /\ Replying(i) \subseteq Move
      /\ \A u \in User : Going(u) \subseteq Move
  BY <1>t, Spoken
<1>0. /\ \A i \in Instance :
           /\ Single(calls[i], {"reserve"}) /\ Single(posts[i], {"reply"})
           /\ Reserving(i) \cap Replying(i) = {}
           /\ \A k \in Reserving(i) \cup Replying(i) : stage[k] = "reserving" /\ inst[k] = i
      /\ \A u \in User :
           /\ Single(inbox[u], {"go", "enter"})
           /\ \A k \in Going(u) : stage[k] = "going" /\ mover[k] = u
  BY <1>t DEF Once
<1>c. ASSUME calls' = calls
      PROVE  \A i \in Instance : Reserving(i)' = Reserving(i) /\ Single(calls[i], {"reserve"})'
  BY <1>0, <1>c DEF Reserving
<1>p. ASSUME posts' = posts
      PROVE  \A i \in Instance : Replying(i)' = Replying(i) /\ Single(posts[i], {"reply"})'
  BY <1>0, <1>p DEF Replying
<1>i. ASSUME inbox' = inbox
      PROVE  \A u \in User : Going(u)' = Going(u) /\ Single(inbox[u], {"go", "enter"})'
  BY <1>0, <1>i DEF Going
\* Nothing but the queues changes, and what they speak of is the same.
<1>e. ASSUME UNCHANGED <<stage, inst, mover>>,
             \A i \in Instance :
               /\ Single(calls[i], {"reserve"})' /\ Single(posts[i], {"reply"})'
               /\ Reserving(i)' = Reserving(i) /\ Replying(i)' = Replying(i),
             \A u \in User : Single(inbox[u], {"go", "enter"})' /\ Going(u)' = Going(u)
      PROVE  Once'
  BY <1>0, <1>e DEF Once
<1>f. ASSUME UNCHANGED <<stage, inst, mover, calls, posts, inbox>> PROVE Once'
  BY <1>c, <1>p, <1>i, <1>e, <1>f
<1>1. ASSUME NEW u \in User, Login(u) \/ Close(u) \/ SessionRemoved(u) PROVE Once'
  BY <1>f, <1>1 DEF Login, Close, SessionRemoved, queues, moves
<1>2. ASSUME NEW u \in User, Delete(u) PROVE Once'
  <2>1. /\ UNCHANGED <<calls, posts, inst, mover>> /\ inbox' = [inbox EXCEPT ![u] = <<>>]
        /\ \A k \in Move : stage'[k] = IF Mine(u, k) /\ stage[k] = "going" THEN "done" ELSE stage[k]
    BY <1>2 DEF Delete
  <2>2. \A i \in Instance :
          /\ Reserving(i)' = Reserving(i) /\ Single(calls[i], {"reserve"})'
          /\ Replying(i)' = Replying(i) /\ Single(posts[i], {"reply"})'
    BY <1>c, <1>p, <2>1
  <2>3. ASSUME NEW v \in User
        PROVE  /\ Single(inbox[v], {"go", "enter"})'
               /\ \A k \in Going(v)' : stage'[k] = "going" /\ mover'[k] = v
    <3>1. CASE v = u
      <4>1. inbox'[v] = <<>>
        BY <1>t, <2>1, <3>1 DEF QueuesOK
      <4> QED
        BY <4>1 DEF Going, Numbers, Single
    <3>2. CASE v # u
      <4>1. inbox'[v] = inbox[v]
        BY <1>t, <2>1, <3>2 DEF QueuesOK
      <4>2. Going(v)' = Going(v) /\ Single(inbox[v], {"go", "enter"})'
        BY <1>0, <4>1 DEF Going
      <4> QED
        BY <1>0, <1>s, <2>1, <3>2, <4>2 DEF Mine
    <3> QED
      BY <3>1, <3>2
  <2>4. \A i \in Instance : \A k \in (Reserving(i) \cup Replying(i)) : stage'[k] = "reserving" /\ inst'[k] = i
    BY <1>0, <1>s, <2>1
  <2> QED
    BY <1>0, <2>2, <2>3, <2>4 DEF Once
<1>3. ASSUME NEW k \in Move, NEW u \in User, NEW z \in Zone, Ask(k, u, z) PROVE Once'
  <2>1. /\ UNCHANGED <<calls, posts, inbox, inst>> /\ stage[k] = "idle"
        /\ mover' = [mover EXCEPT ![k] = u] /\ stage' = [stage EXCEPT ![k] = "asked"]
    BY <1>3 DEF Ask, queues, Fresh
  <2>2. /\ \A i \in Instance : k \notin Reserving(i) \cup Replying(i)
        /\ \A v \in User : k \notin Going(v)
    BY <1>0, <2>1
  <2>3. \A j \in Move \ {k} : stage'[j] = stage[j] /\ inst'[j] = inst[j] /\ mover'[j] = mover[j]
    BY <1>t, <2>1
  <2> QED
    BY <1>t, <1>s, <1>c, <1>p, <1>i, <2>1, <2>2, <2>3, OneMoveOn
<1>4. ASSUME NEW k \in Move, NEW u \in User, NEW i \in Instance, AskFromAway(k, u, i) PROVE Once'
  <2>1. /\ UNCHANGED <<posts, inbox>> /\ stage[k] = "idle"
        /\ mover' = [mover EXCEPT ![k] = u] /\ stage' = [stage EXCEPT ![k] = "reserving"]
        /\ inst' = [inst EXCEPT ![k] = i]
    BY <1>4 DEF AskFromAway, Fresh
  <2>2. /\ \A j \in Instance : k \notin Reserving(j) \cup Replying(j)
        /\ \A v \in User : k \notin Going(v)
    BY <1>0, <2>1
  <2>3. /\ \A j \in Move \ {k} : stage'[j] = stage[j] /\ inst'[j] = inst[j] /\ mover'[j] = mover[j]
        /\ stage'[k] = "reserving" /\ inst'[k] = i
    BY <1>t, <2>1
  <2>4. PICK e : e = [op |-> "reserve", nr |-> k]
    OBVIOUS
  <2>5. \A j \in Instance :
           /\ Single(calls[j], {"reserve"})'
           /\ Reserving(j)' = IF j = i THEN Reserving(j) \cup {k} ELSE Reserving(j)
    <3>1. calls' = [calls EXCEPT ![i] = Append(@, e)]
      BY <1>4, <2>4 DEF AskFromAway
    <3>2. e.op = "reserve" /\ e.nr = k
      BY <2>4
    <3>3. e.op = "reserve" => e.nr \notin Reserving(i)
      BY <2>2, <3>2
    <3>4. \A j \in Instance :
             /\ Single(calls[j], {"reserve"})'
             /\ Reserving(j)' = IF j = i /\ e.op = "reserve" THEN Reserving(j) \cup {e.nr} ELSE Reserving(j)
      BY <1>t, <3>1, <3>3, CallPut
    <3> QED
      BY <3>2, <3>4
  <2> QED
    BY <1>t, <1>s, <1>p, <1>i, <2>1, <2>2, <2>3, <2>5, OneMoveOn
<1>5. ASSUME NEW k \in Move, Choose(k) PROVE Once'
  <2>1. /\ UNCHANGED <<posts, inbox, mover>> /\ stage[k] = "asked"
    BY <1>5 DEF Choose
  <2>2. /\ \A j \in Instance : k \notin Reserving(j) \cup Replying(j)
        /\ \A v \in User : k \notin Going(v)
    BY <1>0, <2>1
  <2>3. ASSUME NEW s, stage' = [stage EXCEPT ![k] = s], UNCHANGED <<calls, inst>> PROVE Once'
    <3>1. \A j \in Move \ {k} : stage'[j] = stage[j] /\ inst'[j] = inst[j] /\ mover'[j] = mover[j]
      BY <1>t, <2>1, <2>3
    <3> QED
      BY <1>t, <1>s, <1>c, <1>p, <1>i, <2>1, <2>2, <2>3, <3>1, OneMoveOn
  <2>4. ASSUME NEW i \in Believed(goal[k]), stage' = [stage EXCEPT ![k] = "reserving"],
               inst' = [inst EXCEPT ![k] = i],
               calls' = [calls EXCEPT ![i] = Append(@, [op |-> "reserve", nr |-> k])]
        PROVE  Once'
    <3>1. i \in Instance
      BY <1>t DEF Believed
    <3>2. /\ \A j \in Move \ {k} : stage'[j] = stage[j] /\ inst'[j] = inst[j] /\ mover'[j] = mover[j]
          /\ stage'[k] = "reserving" /\ inst'[k] = i
      BY <1>t, <2>1, <2>4
    <3>3. PICK e : e = [op |-> "reserve", nr |-> k]
      OBVIOUS
    <3>4. \A j \in Instance :
             /\ Single(calls[j], {"reserve"})'
             /\ Reserving(j)' = IF j = i THEN Reserving(j) \cup {k} ELSE Reserving(j)
      <4>1. calls' = [calls EXCEPT ![i] = Append(@, e)]
        BY <2>4, <3>3
      <4>2. e.op = "reserve" /\ e.nr = k
        BY <3>3
      <4>3. e.op = "reserve" => e.nr \notin Reserving(i)
        BY <2>2, <3>1, <4>2
      <4>4. \A j \in Instance :
               /\ Single(calls[j], {"reserve"})'
               /\ Reserving(j)' = IF j = i /\ e.op = "reserve" THEN Reserving(j) \cup {e.nr} ELSE Reserving(j)
        BY <1>t, <3>1, <4>1, <4>3, CallPut
      <4> QED
        BY <4>2, <4>4
    <3> QED
      BY <1>t, <1>s, <1>p, <1>i, <2>1, <2>2, <3>1, <3>2, <3>4, OneMoveOn
  <2> QED
    BY <1>5, <2>3, <2>4 DEF Choose
<1>6. ASSUME NEW k \in Move, NEW i \in Instance, Created(k, i) PROVE Once'
  <2>1. /\ UNCHANGED <<calls, inbox, mover>> /\ stage[k] = "creating"
        /\ stage' = [stage EXCEPT ![k] = "reserving"] /\ inst' = [inst EXCEPT ![k] = i]
    BY <1>6 DEF Created
  <2>2. /\ \A j \in Instance : k \notin Reserving(j) \cup Replying(j)
        /\ \A v \in User : k \notin Going(v)
    BY <1>0, <2>1
  <2>3. /\ \A j \in Move \ {k} : stage'[j] = stage[j] /\ inst'[j] = inst[j] /\ mover'[j] = mover[j]
        /\ stage'[k] = "reserving" /\ inst'[k] = i
    BY <1>t, <2>1
  <2>4. PICK e : e = [op |-> "reply", nr |-> k, ok |-> TRUE]
    OBVIOUS
  <2>5. \A j \in Instance :
           /\ Single(posts[j], {"reply"})'
           /\ Replying(j)' = IF j = i THEN Replying(j) \cup {k} ELSE Replying(j)
    <3>1. posts' = [posts EXCEPT ![i] = Append(@, e)]
      BY <1>6, <2>4 DEF Created
    <3>2. e.op = "reply" /\ e.nr = k
      BY <2>4
    <3>3. e.op = "reply" => e.nr \notin Replying(i)
      BY <2>2, <3>2
    <3>4. \A j \in Instance :
             /\ Single(posts[j], {"reply"})'
             /\ Replying(j)' = IF j = i /\ e.op = "reply" THEN Replying(j) \cup {e.nr} ELSE Replying(j)
      BY <1>t, <3>1, <3>3, PostPut
    <3> QED
      BY <3>2, <3>4
  <2> QED
    BY <1>t, <1>s, <1>c, <1>i, <2>1, <2>2, <2>3, <2>5, OneMoveOn
<1>r. ASSUME NEW k \in Move, Returns(k) PROVE Once'
  <2>1. /\ UNCHANGED <<calls, posts, inbox, inst, mover>> /\ stage[k] \in {"creating", "elsewhere"}
        /\ \E s \in {"asked", "done"} : stage' = [stage EXCEPT ![k] = s]
    <3>1. TypeOK
      BY DEF IInv
    <3> QED
      BY <1>r, <3>1, Returned DEF queues
  <2>2. /\ \A j \in Instance : k \notin Reserving(j) \cup Replying(j)
        /\ \A v \in User : k \notin Going(v)
    BY <1>0, <2>1
  <2>3. \A j \in Move \ {k} : stage'[j] = stage[j] /\ inst'[j] = inst[j] /\ mover'[j] = mover[j]
    BY <1>t, <2>1
  <2> QED
    BY <1>t, <1>s, <1>c, <1>p, <1>i, <2>1, <2>2, <2>3, OneMoveOn
<1>7. ASSUME NEW z \in Zone, NEW n \in Pop, ZoneUpdated(z, n) PROVE Once'
  <2>1. UNCHANGED <<posts, inbox, stage, inst, mover>>
    BY <1>7 DEF ZoneUpdated, moves
  <2>2. PICK e : e = [op |-> "updated", pop |-> n]
    OBVIOUS
  <2>3. ASSUME NEW i \in Instance PROVE Single(calls[i], {"reserve"})' /\ Reserving(i)' = Reserving(i)
    <3>1. calls'[i] = calls[i] \/ calls'[i] = Append(calls[i], e)
      BY <1>7, <2>2 DEF ZoneUpdated
    <3>2. e.op \notin {"reserve"} /\ calls[i] \in Seq(Call)
      BY <1>t, <2>2 DEF QueuesOK
    <3>3. CASE calls'[i] = calls[i]
      BY <1>0, <3>3 DEF Reserving
    <3>4. CASE calls'[i] = Append(calls[i], e)
      BY <1>0, <3>2, <3>4, AppendNumbers DEF Reserving
    <3> QED
      BY <3>1, <3>3, <3>4
  <2> QED
    BY <1>e, <1>p, <1>i, <2>1, <2>3
<1>8. ASSUME NEW i \in Instance, InstanceUpdated(i) PROVE Once'
  <2>1. /\ UNCHANGED <<calls, inbox, stage, inst, mover>> /\ posts[i] # <<>>
        /\ Head(posts[i]).op # "reply" /\ posts' = [posts EXCEPT ![i] = Tail(@)]
    BY <1>8 DEF InstanceUpdated, moves
  <2>2. \A j \in Instance : Single(posts[j], {"reply"})' /\ Replying(j)' = Replying(j)
    BY <1>t, <2>1, PostTaken
  <2> QED
    BY <1>e, <1>c, <1>i, <2>1, <2>2
<1>9. ASSUME NEW i \in Instance, PlaceMaybeReserved(i) \/ ReplyToAway(i) PROVE Once'
  <2> DEFINE k == Head(posts[i]).nr
             u == mover[k]
  <2>1. /\ UNCHANGED <<inst, mover>> /\ posts[i] # <<>> /\ Head(posts[i]).op = "reply"
        /\ posts' = [posts EXCEPT ![i] = Tail(@)]
    BY <1>9 DEF PlaceMaybeReserved, ReplyToAway
  <2>2. /\ \A j \in Instance : Single(posts[j], {"reply"})' /\ Replying(j)' = Replying(j) \ (IF j = i THEN {k} ELSE {})
        /\ k \in Replying(i)
    BY <1>t, <2>1, PostTaken
  <2>3. k \in Move /\ u \in User /\ stage[k] = "reserving"
    BY <1>0, <1>t, <2>1, <2>2, HeadPost DEF Placed
  <2>4. /\ \A j \in Instance : k \notin Reserving(j) /\ k \notin Replying(j)'
        /\ \A v \in User : k \notin Going(v)
    BY <1>0, <2>2, <2>3
  <2>5. /\ \/ calls' = calls
           \/ calls' = [calls EXCEPT ![i] = Append(@, [op |-> "cancel", user |-> u])]
        /\ \/ inbox' = inbox /\ (stage' = [stage EXCEPT ![k] = "done"] \/ stage' = [stage EXCEPT ![k] = "asked"])
           \/ /\ inbox' = [inbox EXCEPT ![u] = Append(@, [op |-> "go", nr |-> k])]
              /\ stage' = [stage EXCEPT ![k] = "going"]
    BY <1>9 DEF PlaceMaybeReserved, ReplyToAway
  <2> HIDE DEF k, u
  <2>6. \A j \in Instance : Reserving(j)' = Reserving(j) /\ Single(calls[j], {"reserve"})'
    <3>1. PICK e : e = [op |-> "cancel", user |-> u]
      OBVIOUS
    <3>2. CASE calls' = [calls EXCEPT ![i] = Append(@, e)]
      <4>1. e.op # "reserve"
        BY <3>1
      <4> QED
        BY <1>t, <3>2, <4>1, CallPut
    <3> QED
      BY <1>c, <2>5, <3>1, <3>2
  <2>7. \A j \in Move \ {k} : stage'[j] = stage[j] /\ inst'[j] = inst[j] /\ mover'[j] = mover[j]
    BY <1>t, <2>1, <2>5
  <2>8. CASE inbox' = inbox
    BY <1>t, <1>s, <1>i, <2>2, <2>4, <2>6, <2>7, <2>8, OneMoveOn
  <2>9. CASE /\ inbox' = [inbox EXCEPT ![u] = Append(@, [op |-> "go", nr |-> k])]
             /\ stage' = [stage EXCEPT ![k] = "going"]
    <3>1. \A v \in User : Single(inbox[v], {"go", "enter"})' /\ Going(v)' = IF v = u THEN Going(v) \cup {k} ELSE Going(v)
      BY <1>t, <2>3, <2>4, <2>9, JobPut
    <3>2. stage'[k] = "going" /\ mover'[k] = u
      BY <1>t, <2>1, <2>3, <2>9 DEF u
    <3> QED
      BY <1>t, <1>s, <2>2, <2>4, <2>6, <2>7, <3>1, <3>2, OneMoveOn
  <2> QED
    BY <2>5, <2>8, <2>9
<1>10. ASSUME NEW i \in Instance, Reserve(i) PROVE Once'
  <2> DEFINE k == Head(calls[i]).nr
  <2>1. /\ UNCHANGED <<inbox, stage, inst, mover>> /\ calls[i] # <<>> /\ Head(calls[i]).op = "reserve"
        /\ calls' = [calls EXCEPT ![i] = Tail(@)]
    BY <1>10 DEF Reserve, moves
  <2>2. /\ \A j \in Instance : Single(calls[j], {"reserve"})' /\ Reserving(j)' = Reserving(j) \ (IF j = i THEN {k} ELSE {})
        /\ k \in Reserving(i)
    BY <1>t, <2>1, CallTaken
  <2>3. k \in Move /\ stage[k] = "reserving" /\ inst[k] = i
    BY <1>0, <1>s, <2>2
  <2>4. \A j \in Instance : k \notin Replying(j) /\ k \notin Reserving(j)'
    BY <1>0, <2>2, <2>3
  <2>5. \A v \in User : k \notin Going(v)
    BY <1>0, <2>3
  <2>6. \A j \in Instance : Single(posts[j], {"reply"})' /\ Replying(j)' = IF j = i THEN Replying(j) \cup {k} ELSE Replying(j)
    <3> DEFINE c(ok) == [op |-> "reply", nr |-> k, ok |-> ok]
    <3>1. \A ok : c(ok).op = "reply" /\ c(ok).nr = k
      OBVIOUS
    <3>2. \/ posts' = [posts EXCEPT ![i] = Append(@, c(FALSE))]
          \/ posts' = [posts EXCEPT ![i] = Append(Announce(@, open[i] - 1), c(TRUE))]
      BY <1>10 DEF Reserve
    <3> HIDE DEF c, k
    <3>3. open[i] - 1 \in Int
      BY <1>t
    <3>4. CASE posts' = [posts EXCEPT ![i] = Append(@, c(FALSE))]
      <4>1. PICK e : e = c(FALSE)
        OBVIOUS
      <4> QED
        BY <1>t, <2>4, <3>1, <3>4, <4>1, PostPut
    <3>5. CASE posts' = [posts EXCEPT ![i] = Append(Announce(@, open[i] - 1), c(TRUE))]
      <4>1. PICK e : e = c(TRUE)
        OBVIOUS
      <4>2. e.op = "reply" => e.nr \notin Replying(i)
        BY <2>4, <3>1, <4>1
      <4>3. posts' = [posts EXCEPT ![i] = Append(Announce(@, open[i] - 1), e)]
        BY <3>5, <4>1
      <4>4. \A j \in Instance :
               /\ Single(posts[j], {"reply"})'
               /\ Replying(j)' = IF j = i /\ e.op = "reply" THEN Replying(j) \cup {e.nr} ELSE Replying(j)
        BY <1>t, <3>3, <4>2, <4>3, PostsPut
      <4> QED
        BY <3>1, <4>1, <4>4
    <3> QED
      BY <3>2, <3>4, <3>5
  <2> HIDE DEF k
  <2>7. \A j \in Move \ {k} : stage'[j] = stage[j] /\ inst'[j] = inst[j] /\ mover'[j] = mover[j]
    BY <2>1
  <2> QED
    BY <1>t, <1>s, <1>i, <2>1, <2>2, <2>3, <2>4, <2>5, <2>6, <2>7, OneMoveOn
<1>a. ASSUME NEW i \in Instance, posts' = posts \/ \E n \in Int : posts' = [posts EXCEPT ![i] = Announce(@, n)]
      PROVE  \A j \in Instance : Single(posts[j], {"reply"})' /\ Replying(j)' = Replying(j)
  <2>1. ASSUME NEW n \in Int, posts' = [posts EXCEPT ![i] = Announce(@, n)]
        PROVE  \A j \in Instance : Single(posts[j], {"reply"})' /\ Replying(j)' = Replying(j)
    <3>1. PICK e : e = [op |-> "open", n |-> n]
      OBVIOUS
    <3>2. posts' = [posts EXCEPT ![i] = Append(@, e)] /\ e.op # "reply"
      BY <2>1, <3>1 DEF Announce
    <3> QED
      BY <1>t, <3>2, PostPut
  <2> QED
    BY <1>a, <1>p, <2>1
<1>g. ASSUME NEW i \in Instance, NEW u, GiveUp(i, u)
      PROVE  posts' = posts \/ \E n \in Int : posts' = [posts EXCEPT ![i] = Announce(@, n)]
  BY <1>t, <1>g DEF GiveUp
<1>11. ASSUME NEW i \in Instance, Cancel(i) \/ Resize(i) PROVE Once'
  <2>1. /\ UNCHANGED <<inbox, stage, inst, mover>> /\ calls[i] # <<>> /\ Head(calls[i]).op # "reserve"
        /\ calls' = [calls EXCEPT ![i] = Tail(@)]
    BY <1>11 DEF Cancel, Resize, moves
  <2>2. \A j \in Instance : Single(calls[j], {"reserve"})' /\ Reserving(j)' = Reserving(j)
    BY <1>t, <2>1, CallTaken
  <2>3. ASSUME Resize(i) PROVE posts' = posts \/ \E n \in Int : posts' = [posts EXCEPT ![i] = Announce(@, n)]
    <3>1. PICK n : n = Head(calls[i]).pop
      OBVIOUS
    <3>3. n \in Pop /\ maxPop[i] \in Nat
      BY <1>t, <2>3, <3>1, HeadCall DEF Resize, IInv, TypeOK
    <3>2. open[i] + (Head(calls[i]).pop - maxPop[i]) \in Int
      BY <1>t, <3>1, <3>3, PopAssumption
    <3> QED
      BY <2>3, <3>2 DEF Resize
  <2>4. \A j \in Instance : Single(posts[j], {"reply"})' /\ Replying(j)' = Replying(j)
    BY <1>a, <1>g, <1>11, <2>3 DEF Cancel
  <2> QED
    BY <1>e, <1>i, <2>1, <2>2, <2>4
<1>12. ASSUME NEW i \in Instance, NEW u \in User, Expire(i, u) PROVE Once'
  <2>1. /\ UNCHANGED <<calls, inbox, stage, inst, mover>>
    BY <1>12 DEF Expire, moves
  <2>2. \A j \in Instance : Single(posts[j], {"reply"})' /\ Replying(j)' = Replying(j)
    BY <1>a, <1>g, <1>12 DEF Expire
  <2> QED
    BY <1>e, <1>c, <1>i, <2>1, <2>2
<1>13. ASSUME NEW u \in User, Go(u) PROVE Once'
  <2>1. UNCHANGED <<calls, stage, inst, mover>>
    BY <1>13 DEF Go, moves
  <2>2. \A v \in User : Single(inbox[v], {"go", "enter"})' /\ Going(v)' = Going(v)
    BY <1>t, <1>13, JobPassed DEF Go
  <2>3. CASE at[u] = None
    <3>1. posts' = posts
      BY <1>13, <2>3 DEF Go
    <3> QED
      BY <1>e, <1>c, <1>p, <2>1, <2>2, <3>1
  <2>4. CASE at[u] # None
    <3>1. at[u] \in Instance
      BY <2>4 DEF IInv, TypeOK
    <3>2. posts' = [posts EXCEPT ![at[u]] = Announce(@, open[at[u]] + 1)] /\ open[at[u]] + 1 \in Int
      BY <1>t, <1>13, <2>4, <3>1 DEF Go
    <3>3. \A j \in Instance : Single(posts[j], {"reply"})' /\ Replying(j)' = Replying(j)
      BY <1>a, <3>1, <3>2
    <3> QED
      BY <1>e, <1>c, <2>1, <2>2, <3>3
  <2> QED
    BY <2>3, <2>4
<1>14. ASSUME NEW u \in User, Enter(u) PROVE Once'
  <2> DEFINE k == Head(inbox[u]).nr
  <2>1. /\ UNCHANGED <<calls, posts, inst, mover>> /\ inbox[u] # <<>> /\ inbox' = [inbox EXCEPT ![u] = Tail(@)]
        /\ stage' = [stage EXCEPT ![k] = "done"]
    BY <1>14 DEF Enter
  <2>2. /\ \A v \in User : Single(inbox[v], {"go", "enter"})' /\ Going(v)' = Going(v) \ (IF v = u THEN {k} ELSE {})
        /\ k \in Going(u)
    BY <1>t, <2>1, JobTaken
  <2>3. k \in Move /\ stage[k] = "going" /\ mover[k] = u
    BY <1>0, <1>s, <2>2
  <2>4. /\ \A j \in Instance : k \notin Reserving(j) \cup Replying(j)
        /\ \A v \in User : k \notin Going(v)'
    BY <1>0, <2>2, <2>3
  <2> HIDE DEF k
  <2>5. \A j \in Move \ {k} : stage'[j] = stage[j] /\ inst'[j] = inst[j] /\ mover'[j] = mover[j]
    BY <1>t, <2>1
  <2> QED
    BY <1>t, <1>s, <1>c, <1>p, <2>1, <2>2, <2>4, <2>5, OneMoveOn
<1>15. CASE UNCHANGED vars
  BY <1>f, <1>15 DEF vars, queues, moves
<1> QED
  <2>1. Roaming \subseteq User
    BY UserAssumption
  <2> QED
    BY <1>1, <1>2, <1>3, <1>4, <1>5, <1>6, <1>7, <1>8, <1>9, <1>10, <1>11, <1>12, <1>13, <1>14, <1>15, <1>r, <2>1
       DEF Next, Returns

LEMMA HeadedStep == IInv /\ Travels /\ [Next]_vars => Headed'
<1> SUFFICES ASSUME IInv, Travels, [Next]_vars, NEW j \in Move
             PROVE  /\ stage'[j] = "idle" => mover'[j] = None /\ goal'[j] = None
                    /\ stage'[j] \in {"reserving", "going"} =>
                         inst'[j] \in made' /\ goal'[j] \in {None, ZoneOf[inst'[j]]}
  BY DEF Headed
<1> DEFINE Near == /\ stage[j] = "idle" => mover[j] = None /\ goal[j] = None
                   /\ stage[j] \in {"reserving", "going"} => inst[j] \in made /\ goal[j] \in {None, ZoneOf[inst[j]]}
<1>t. /\ QueuesOK /\ Once /\ Headed
      /\ stage \in [Move -> Stage] /\ inst \in [Move -> made \cup {None}] /\ goal \in [Move -> Zone \cup {None}]
      /\ mover \in [Move -> User \cup {None}]
  BY DEF IInv, TypeOK, Travels
<1>0. Near
  BY <1>t DEF Headed
<1>q. ASSUME UNCHANGED <<stage, inst, goal, made, mover>> PROVE Near'
  BY <1>0, <1>q
<1>1. ASSUME NEW u \in User, \/ Login(u) \/ Close(u) \/ SessionRemoved(u) \/ Go(u) PROVE Near'
  BY <1>q, <1>1 DEF Login, Close, SessionRemoved, Go, places, moves
<1>2. ASSUME NEW u \in User, Delete(u) \/ Enter(u) PROVE Near'
  <2>1. UNCHANGED <<inst, goal, made, mover>> /\ stage'[j] \in {stage[j], "done"}
    BY <1>t, <1>2 DEF Delete, Enter
  <2> QED
    BY <1>0, <2>1
<1>3. ASSUME NEW k \in Move, NEW u \in User, NEW z \in Zone, Ask(k, u, z) PROVE Near'
  <2>1. /\ UNCHANGED <<inst, made>> /\ stage' = [stage EXCEPT ![k] = "asked"] /\ goal' = [goal EXCEPT ![k] = z]
        /\ mover' = [mover EXCEPT ![k] = u]
    BY <1>3 DEF Ask, places
  <2> QED
    BY <1>0, <1>t, <2>1
<1>4. ASSUME NEW k \in Move, NEW u \in User, NEW i \in Instance, AskFromAway(k, u, i) PROVE Near'
  <2>1. /\ UNCHANGED <<goal, made>> /\ stage' = [stage EXCEPT ![k] = "reserving"] /\ inst' = [inst EXCEPT ![k] = i]
        /\ i \in made /\ Fresh(k) /\ mover' = [mover EXCEPT ![k] = u]
    BY <1>4 DEF AskFromAway, places
  <2>2. goal[k] = None
    BY <1>t, <2>1 DEF Headed, Fresh
  <2> QED
    BY <1>0, <1>t, <2>1, <2>2
<1>5. ASSUME NEW k \in Move, Choose(k) PROVE Near'
  <2>1. UNCHANGED <<goal, made, mover>>
    BY <1>5 DEF Choose, places
  <2>2. CASE inst' = inst /\ \E s \in {"creating", "elsewhere"} : stage' = [stage EXCEPT ![k] = s]
    BY <1>0, <1>t, <2>1, <2>2
  <2>3. ASSUME NEW i \in Believed(goal[k]), stage' = [stage EXCEPT ![k] = "reserving"], inst' = [inst EXCEPT ![k] = i]
        PROVE  Near'
    BY <1>0, <1>t, <2>1, <2>3 DEF Believed
  <2> QED
    BY <1>5, <2>2, <2>3 DEF Choose
<1>6. ASSUME NEW k \in Move, NEW i \in Instance, Created(k, i) PROVE Near'
  <2>1. /\ UNCHANGED <<goal, mover>> /\ stage' = [stage EXCEPT ![k] = "reserving"] /\ inst' = [inst EXCEPT ![k] = i]
        /\ made' = made \cup {i} /\ ZoneOf[i] = goal[k]
    BY <1>6 DEF Created
  <2> QED
    BY <1>0, <1>t, <2>1
<1>r. ASSUME NEW k \in Move, Returns(k) PROVE Near'
  <2>1. /\ UNCHANGED <<goal, inst, made, mover>> /\ stage[k] \in {"creating", "elsewhere"}
        /\ \E s \in {"asked", "done"} : stage' = [stage EXCEPT ![k] = s]
    <3>1. TypeOK
      BY DEF IInv
    <3> QED
      BY <1>r, <3>1, Returned DEF places
  <2> QED
    BY <1>0, <1>t, <2>1
<1>7. ASSUME NEW z \in Zone, NEW n \in Pop, ZoneUpdated(z, n) PROVE Near'
  BY <1>q, <1>7 DEF ZoneUpdated, places, moves
<1>8. ASSUME NEW i \in Instance, InstanceUpdated(i) \/ Reserve(i) \/ Cancel(i) \/ Resize(i) PROVE Near'
  BY <1>q, <1>8 DEF InstanceUpdated, Reserve, Cancel, Resize, places, moves
<1>9. ASSUME NEW i \in Instance, PlaceMaybeReserved(i) \/ ReplyToAway(i) PROVE Near'
  <2> DEFINE k == Head(posts[i]).nr
  <2>1. /\ UNCHANGED <<goal, inst, made, mover>> /\ posts[i] # <<>> /\ Head(posts[i]).op = "reply"
        /\ \E s \in {"done", "asked", "going"} : stage' = [stage EXCEPT ![k] = s]
    BY <1>9 DEF PlaceMaybeReserved, ReplyToAway, places
  <2>2. k \in Replying(i) /\ stage[k] = "reserving"
    <3>1. posts[i] \in Seq(Post) /\ Head(posts[i]) = posts[i][1] /\ 1 \in DOMAIN posts[i]
      BY <1>t, <2>1 DEF QueuesOK
    <3>2. k \in Replying(i)
      BY <2>1, <3>1 DEF Replying, Numbers
    <3> QED
      BY <1>t, <3>2 DEF Once
  <2> HIDE DEF k
  <2>3. stage'[j] = stage[j] \/ j = k
    BY <1>t, <2>1
  <2> QED
    BY <1>0, <2>1, <2>2, <2>3
<1>10. ASSUME NEW i \in Instance, NEW u \in User, Expire(i, u) PROVE Near'
  BY <1>q, <1>10 DEF Expire, moves
<1>11. CASE UNCHANGED vars
  BY <1>q, <1>11 DEF vars, places, moves
<1> QED
  <2>1. Roaming \subseteq User
    BY UserAssumption
  <2> QED
    BY <1>1, <1>2, <1>3, <1>4, <1>5, <1>6, <1>7, <1>8, <1>9, <1>10, <1>11, <1>r, <2>1
       DEF Next, Returns

\* What Parted says of one pair of moves.
Apart(j, k) ==
    /\ k \in abroad /\ stage[k] # "done" => stage[k] = "reserving" /\ sess[mover[k]] = "away"
    /\ j \in abroad /\ k \in abroad /\ mover[j] = mover[k] /\ stage[j] # "done" /\ stage[k] # "done" => j = k
    /\ k \in orphan => k \notin abroad /\ stage[k] \in {"asked", "creating", "elsewhere", "reserving"}

LEMMA PartedStep == IInv /\ Travels /\ [Next]_vars => Parted'
<1> SUFFICES ASSUME IInv, Travels, [Next]_vars PROVE Parted'
  OBVIOUS
<1> SUFFICES \A j, k \in Move : Apart(j, k)'
  <2>0. TypeOK'
    BY TypeStep DEF IInv
  <2>1. abroad' \subseteq Move /\ orphan' \subseteq Move
    BY <2>0 DEF TypeOK
  <2> QED
    BY <2>1 DEF Parted, Apart
<1>t. /\ QueuesOK /\ Once /\ Parted /\ Owned /\ abroad \subseteq Move /\ orphan \subseteq Move
      /\ stage \in [Move -> Stage] /\ mover \in [Move -> User \cup {None}]
      /\ sess \in [User -> {"away", "live", "closing"}]
      /\ \A k \in Move : stage[k] # "idle" => mover[k] \in User
      /\ \A k \in Move : stage[k] = "idle" => mover[k] \notin User
  BY InstanceAssumption DEF IInv, TypeOK, Travels, Owned, Headed
<1>0. \A j, k \in Move : Apart(j, k)
  BY <1>t DEF Parted, Apart
<1>m. \A k \in abroad : stage[k] # "done" => mover[k] \in User
  BY <1>t DEF Parted
<1> TAKE x \in Move, y \in Move
<1>z. Apart(x, y) /\ Apart(y, x)
  BY <1>0
<1>q. ASSUME UNCHANGED <<stage, mover, abroad, orphan, sess>> PROVE Apart(x, y)'
  BY <1>z, <1>q DEF Apart
\* A session of a user who is not being moved by another peer changes.
<1>s. ASSUME NEW u \in User, NEW v, sess' = [sess EXCEPT ![u] = v], UNCHANGED <<stage, mover, abroad, orphan>>,
             \A k \in abroad : mover[k] = u => stage[k] = "done"
      PROVE  Apart(x, y)'
  <2>1. y \in abroad /\ stage[y] # "done" => sess'[mover[y]] = sess[mover[y]]
    BY <1>t, <1>m, <1>s
  <2> QED
    BY <1>z, <1>s, <2>1 DEF Apart
<1>1. ASSUME NEW u \in User, Login(u) PROVE Apart(x, y)'
  BY <1>s, <1>1 DEF Login, moves, AwayMove
<1>2. ASSUME NEW u \in User, Close(u) PROVE Apart(x, y)'
  <2>1. \A k \in abroad : mover[k] = u => stage[k] = "done"
    BY <1>t, <1>2 DEF Close, Parted
  <2> QED
    BY <1>s, <1>2, <2>1 DEF Close, moves
<1>3. ASSUME NEW u \in User, SessionRemoved(u) \/ Go(u) PROVE Apart(x, y)'
  BY <1>q, <1>3 DEF SessionRemoved, Go, moves
<1>4. ASSUME NEW u \in User, Delete(u) PROVE Apart(x, y)'
  <2>1. /\ UNCHANGED <<mover, abroad>> /\ sess' = [sess EXCEPT ![u] = "away"]
        /\ \A k \in Move : stage'[k] = IF Mine(u, k) /\ stage[k] = "going" THEN "done" ELSE stage[k]
        /\ orphan' = orphan \cup {k \in Move : Mine(u, k) /\ stage[k] \notin {"going", "done"}}
    BY <1>4 DEF Delete
  <2>2. y \in abroad /\ stage'[y] # "done" => stage'[y] = stage[y] /\ stage[y] # "done" /\ sess'[mover[y]] = "away"
    BY <1>t, <1>m, <1>z, <2>1 DEF Mine, Apart
  <2>3. x \in abroad /\ stage'[x] # "done" => stage'[x] = stage[x] /\ stage[x] # "done"
    BY <1>z, <2>1 DEF Mine
  <2>4. y \in orphan' => y \notin abroad /\ stage'[y] \in {"asked", "creating", "elsewhere", "reserving"}
    <3>1. CASE y \in orphan
      BY <1>z, <2>1, <3>1 DEF Apart, Mine
    <3>2. CASE Mine(u, y) /\ stage[y] \notin {"going", "done"}
      <4>1. stage[y] # "idle"
        BY <1>t, <3>2 DEF Mine
      <4> QED
        BY <1>t, <2>1, <3>2, <4>1 DEF Mine, Stage
    <3> QED
      BY <2>1, <3>1, <3>2
  <2> QED
    BY <1>z, <2>1, <2>2, <2>3, <2>4 DEF Apart
\* A move that no other peer makes goes on.
<1>h. ASSUME NEW k \in Move, k \notin abroad, NEW s \in Stage, stage' = [stage EXCEPT ![k] = s],
             UNCHANGED <<abroad, sess>>, \A j \in Move \ {k} : mover'[j] = mover[j],
             orphan' \subseteq orphan,
             k \in orphan' => s \in {"asked", "creating", "elsewhere", "reserving"}
      PROVE  Apart(x, y)'
  <2>1. \A j \in Move \ {k} : stage'[j] = stage[j] /\ mover'[j] = mover[j]
    BY <1>t, <1>h
  <2>2. stage'[k] = s
    BY <1>t, <1>h
  <2> QED
    BY <1>z, <1>h, <2>1, <2>2 DEF Apart
<1>5. ASSUME NEW k \in Move, NEW u \in User, NEW z \in Zone, Ask(k, u, z) PROVE Apart(x, y)'
  <2>1. k \notin abroad /\ k \notin orphan
    BY <1>0, <1>5 DEF Ask, Fresh, Apart
  <2>2. UNCHANGED <<abroad, sess, orphan>> /\ stage' = [stage EXCEPT ![k] = "asked"] /\ mover' = [mover EXCEPT ![k] = u]
    BY <1>5 DEF Ask, people
  <2>3. \A j \in Move \ {k} : mover'[j] = mover[j]
    BY <1>t, <2>2
  <2> QED
    BY <1>h, <2>1, <2>2, <2>3, StageNames
<1>6. ASSUME NEW k \in Move, NEW u \in User, NEW i \in Instance, AskFromAway(k, u, i) PROVE Apart(x, y)'
  <2>1. k \notin abroad /\ k \notin orphan
    BY <1>0, <1>6 DEF AskFromAway, Fresh, Apart
  <2>2. /\ UNCHANGED <<sess, orphan>> /\ stage' = [stage EXCEPT ![k] = "reserving"] /\ mover' = [mover EXCEPT ![k] = u]
        /\ abroad' = abroad \cup {k} /\ sess[u] = "away"
        /\ \A j \in abroad : mover[j] = u => stage[j] = "done"
    BY <1>6 DEF AskFromAway, people, AwayMove
  <2>3. /\ \A j \in Move \ {k} : stage'[j] = stage[j] /\ mover'[j] = mover[j]
        /\ stage'[k] = "reserving" /\ mover'[k] = u
    BY <1>t, <2>2
  <2> QED
    BY <1>z, <2>1, <2>2, <2>3 DEF Apart
<1>7. ASSUME NEW k \in Move, Choose(k) PROVE Apart(x, y)'
  <2>1. /\ UNCHANGED <<abroad, sess, orphan, mover>> /\ stage[k] = "asked"
        /\ \E s \in {"reserving", "creating", "elsewhere"} : stage' = [stage EXCEPT ![k] = s]
    BY <1>7 DEF Choose, people
  <2>2. k \notin abroad
    BY <1>0, <2>1 DEF Apart
  <2> QED
    BY <1>h, <2>1, <2>2, StageNames
<1>8. ASSUME NEW k \in Move, NEW i \in Instance, Created(k, i) PROVE Apart(x, y)'
  <2>1. /\ UNCHANGED <<abroad, sess, orphan, mover>> /\ stage[k] = "creating"
        /\ stage' = [stage EXCEPT ![k] = "reserving"]
    BY <1>8 DEF Created, people
  <2>2. k \notin abroad
    BY <1>0, <2>1 DEF Apart
  <2> QED
    BY <1>h, <2>1, <2>2, StageNames
<1>r. ASSUME NEW k \in Move, Returns(k) PROVE Apart(x, y)'
  <2>1. /\ UNCHANGED <<abroad, sess, mover>> /\ stage[k] \in {"creating", "elsewhere"}
        /\ \E s \in {"asked", "done"} : stage' = [stage EXCEPT ![k] = s]
        /\ orphan' \subseteq orphan /\ (stage'[k] = "done" => k \notin orphan')
    <3>1. TypeOK
      BY DEF IInv
    <3> QED
      BY <1>r, <3>1, Returned DEF people
  <2>2. k \notin abroad
    BY <1>0, <2>1 DEF Apart
  <2>3. ASSUME NEW s \in {"asked", "done"}, stage' = [stage EXCEPT ![k] = s] PROVE Apart(x, y)'
    <3>1. stage'[k] = s /\ s \in Stage
      BY <1>t, <2>3, StageNames
    <3> QED
      BY <1>h, <2>1, <2>2, <2>3, <3>1
  <2> QED
    BY <2>1, <2>3
<1>9. ASSUME NEW z \in Zone, NEW n \in Pop, ZoneUpdated(z, n) PROVE Apart(x, y)'
  BY <1>q, <1>9 DEF ZoneUpdated, people, moves
<1>10. ASSUME NEW i \in Instance, InstanceUpdated(i) \/ Reserve(i) \/ Cancel(i) \/ Resize(i) PROVE Apart(x, y)'
  BY <1>q, <1>10 DEF InstanceUpdated, Reserve, Cancel, Resize, people, moves
<1>11. ASSUME NEW i \in Instance, PlaceMaybeReserved(i) PROVE Apart(x, y)'
  <2> DEFINE k == Head(posts[i]).nr
  <2>1. /\ UNCHANGED <<abroad, sess, mover>> /\ k \notin abroad /\ posts[i] # <<>> /\ Head(posts[i]).op = "reply"
        /\ orphan' = {j \in orphan : stage'[j] # "done"}
        /\ \/ \E s \in {"done", "asked"} : stage' = [stage EXCEPT ![k] = s]
           \/ stage' = [stage EXCEPT ![k] = "going"] /\ k \notin orphan
    BY <1>11 DEF PlaceMaybeReserved, people
  <2>2. k \in Move
    BY <1>t, <2>1, HeadPost DEF Placed
  <2> HIDE DEF k
  <2>3. ASSUME NEW s \in {"done", "asked"}, stage' = [stage EXCEPT ![k] = s] PROVE Apart(x, y)'
    <3>1. stage'[k] = s /\ s \in Stage
      BY <1>t, <2>2, <2>3, StageNames
    <3> QED
      BY <1>h, <2>1, <2>2, <2>3, <3>1
  <2>4. CASE stage' = [stage EXCEPT ![k] = "going"] /\ k \notin orphan
    BY <1>h, <2>1, <2>2, <2>4, StageNames
  <2> QED
    BY <2>1, <2>3, <2>4
<1>12. ASSUME NEW i \in Instance, ReplyToAway(i) PROVE Apart(x, y)'
  <2> DEFINE k == Head(posts[i]).nr
             u == mover[k]
  <2>1. /\ UNCHANGED <<mover, orphan>> /\ k \in abroad /\ posts[i] # <<>> /\ Head(posts[i]).op = "reply"
        /\ \/ UNCHANGED <<abroad, sess>> /\ stage' = [stage EXCEPT ![k] = "done"]
           \/ /\ stage' = [stage EXCEPT ![k] = "going"] /\ sess' = [sess EXCEPT ![u] = "live"]
              /\ abroad' = abroad \ {k}
    BY <1>12 DEF ReplyToAway
  <2>2. k \in Move /\ u \in User /\ stage[k] # "done"
    <3>1. k \in Placed
      BY <1>t, <2>1, HeadPost
    <3>2. posts[i] \in Seq(Post) /\ Head(posts[i]) = posts[i][1] /\ 1 \in DOMAIN posts[i]
      BY <1>t, <2>1 DEF QueuesOK
    <3>3. k \in Replying(i)
      BY <2>1, <3>2 DEF Replying, Numbers
    <3> QED
      BY <1>t, <3>1, <3>3 DEF Once, Placed
  <2>3. k \notin orphan /\ \A j \in abroad : mover[j] = u /\ stage[j] # "done" => j = k
    BY <1>0, <1>t, <2>1, <2>2 DEF Apart
  <2>4. /\ \A j \in Move \ {k} : stage'[j] = stage[j]
        /\ stage'[k] \in {"done", "going"}
    BY <1>t, <2>1, <2>2
  <2> HIDE DEF k, u
  <2>5. y \in abroad' /\ stage'[y] # "done" => stage'[y] = stage[y] /\ sess'[mover[y]] = sess[mover[y]] /\ y # k
    <3>1. CASE UNCHANGED <<abroad, sess>> /\ stage' = [stage EXCEPT ![k] = "done"]
      BY <1>t, <2>2, <2>4, <3>1
    <3>2. CASE sess' = [sess EXCEPT ![u] = "live"] /\ abroad' = abroad \ {k}
      <4>1. ASSUME y \in abroad', stage'[y] # "done" PROVE stage'[y] = stage[y] /\ mover[y] # u /\ mover[y] \in User /\ y # k
        BY <1>m, <2>3, <2>4, <3>2, <4>1
      <4> QED
        BY <1>t, <3>2, <4>1
    <3> QED
      BY <2>1, <3>1, <3>2
  <2>6. x \in abroad' /\ stage'[x] # "done" => x \in abroad /\ stage[x] # "done"
    BY <2>1, <2>2, <2>4
  <2>7. abroad' \subseteq abroad /\ (y \in orphan => y # k)
    BY <2>1, <2>3
  <2> QED
    BY <1>z, <2>1, <2>4, <2>5, <2>6, <2>7 DEF Apart
<1>13. ASSUME NEW i \in Instance, NEW u \in User, Expire(i, u) PROVE Apart(x, y)'
  BY <1>q, <1>13 DEF Expire, people, moves
<1>14. ASSUME NEW u \in User, Enter(u) PROVE Apart(x, y)'
  <2> DEFINE k == Head(inbox[u]).nr
  <2>1. /\ UNCHANGED <<abroad, sess, orphan, mover>> /\ inbox[u] # <<>> /\ stage' = [stage EXCEPT ![k] = "done"]
    BY <1>14 DEF Enter
  <2>2. k \in Move /\ stage[k] = "going"
    <3>1. k \in Placed
      BY <1>t, <2>1, HeadJob
    <3>2. Head(inbox[u]) \in Job /\ inbox[u] \in Seq(Job) /\ Head(inbox[u]) = inbox[u][1] /\ 1 \in DOMAIN inbox[u]
      BY <1>t, <2>1, HeadJob DEF QueuesOK
    <3>3. Head(inbox[u]).op \in {"go", "enter"}
      BY <3>2 DEF Job
    <3>4. k \in Going(u)
      BY <3>2, <3>3 DEF Going, Numbers
    <3> QED
      BY <1>t, <3>1, <3>4 DEF Once, Placed
  <2> HIDE DEF k
  <2>3. k \notin abroad /\ k \notin orphan
    BY <1>0, <2>2 DEF Apart
  <2> QED
    BY <1>h, <2>1, <2>2, <2>3, StageNames
<1>15. CASE UNCHANGED vars
  BY <1>q, <1>15 DEF vars, people, moves
<1> QED
  <2>1. Roaming \subseteq User
    BY UserAssumption
  <2> QED
    BY <1>1, <1>2, <1>3, <1>4, <1>5, <1>6, <1>7, <1>8, <1>9, <1>10, <1>11, <1>12, <1>13, <1>14, <1>15, <1>r, <2>1
       DEF Next, Returns

(* However requests, refusals, deletions and transfers interleave, a move  *)
(* is spoken of once in all the queues, by an instance of the zone it is   *)
(* to or by the calls of its own session: no answer is given twice and no  *)
(* session goes to two places for one request (reservePlace,               *)
(* instancePlaceMaybeReserved, continueMovingToZone).                      *)
THEOREM TravelsHolds == Spec => []Travels
<1>1. Init => Travels
  <2> SUFFICES ASSUME Init PROVE Travels
    OBVIOUS
  <2>1. /\ \A i \in Instance : DOMAIN calls[i] = {} /\ DOMAIN posts[i] = {}
        /\ \A u \in User : DOMAIN inbox[u] = {}
    BY DEF Init
  <2>2. Once
    BY <2>1 DEF Once, Reserving, Replying, Going, Numbers, Single
  <2> QED
    BY <2>2 DEF Init, Travels, Headed, Parted
<1>2. IInv /\ Travels /\ [Next]_vars => Travels'
  BY OnceStep, HeadedStep, PartedStep DEF Travels
<1> QED
  BY <1>1, <1>2, Invariance, PTL DEF Spec

-----------------------------------------------------------------------------
(* What a move has been promised, as ZonePlaces sees it.                   *)
Yes(q) == {q[n].nr : n \in {m \in DOMAIN q : q[m].op = "reply" /\ q[m].ok}}

Phases == [k \in Move |-> Phase(k)]
Givens == [k \in Move |-> IF Granted(k) THEN inst[k] ELSE None]

LEMMA AppendYes ==
  ASSUME NEW S, NEW q \in Seq(S), NEW e
  PROVE  /\ e.op = "reply" /\ e.ok => Yes(Append(q, e)) = Yes(q) \cup {e.nr}
         /\ ~(e.op = "reply" /\ e.ok) => Yes(Append(q, e)) = Yes(q)
<1> DEFINE r == Append(q, e)
<1>1. DOMAIN q = 1 .. Len(q) /\ Len(q) \in Nat /\ DOMAIN r = 1 .. Len(q) + 1
  OBVIOUS
<1>2. \A n \in DOMAIN r : r[n] = IF n = Len(q) + 1 THEN e ELSE q[n]
  OBVIOUS
<1>3. DOMAIN r = DOMAIN q \cup {Len(q) + 1} /\ Len(q) + 1 \notin DOMAIN q
  BY <1>1
<1>4. r[Len(q) + 1] = e /\ \A n \in DOMAIN q : r[n] = q[n]
  BY <1>2, <1>3
<1> HIDE DEF r
<1>5. /\ e.op = "reply" /\ e.ok => Yes(r) = Yes(q) \cup {e.nr}
      /\ ~(e.op = "reply" /\ e.ok) => Yes(r) = Yes(q)
  BY <1>3, <1>4 DEF Yes
<1> QED
  BY <1>5 DEF r

LEMMA TailYes ==
  ASSUME NEW S, NEW q \in Seq(S), q # <<>>, Single(q, {"reply"})
  PROVE  /\ Head(q).op = "reply" => Yes(Tail(q)) = Yes(q) \ {Head(q).nr}
         /\ Head(q).op # "reply" => Yes(Tail(q)) = Yes(q)
         /\ Head(q).op = "reply" => (Head(q).nr \in Yes(q) <=> Head(q).ok)
<1> DEFINE r == Tail(q)
<1>1. /\ DOMAIN q = 1 .. Len(q) /\ Len(q) \in Nat \ {0} /\ DOMAIN r = 1 .. Len(q) - 1
      /\ \A n \in DOMAIN r : r[n] = q[n + 1]
      /\ Head(q) = q[1]
  OBVIOUS
<1>2. \A n \in DOMAIN r : n + 1 \in DOMAIN q /\ n + 1 # 1
  BY <1>1
<1>3. \A m \in DOMAIN q : m = 1 \/ \E n \in DOMAIN r : q[m] = r[n]
  <2> SUFFICES ASSUME NEW m \in DOMAIN q, m # 1 PROVE m - 1 \in DOMAIN r /\ q[m] = r[m - 1]
    OBVIOUS
  <2>1. m \in 1 .. Len(q) /\ m - 1 \in 1 .. Len(q) - 1
    BY <1>1
  <2> QED
    BY <1>1, <2>1
<1>4. 1 \in DOMAIN q
  BY <1>1
<1> HIDE DEF r
<1>5. Yes(r) \subseteq Yes(q)
  BY <1>1, <1>2 DEF Yes
<1>6. Head(q).op = "reply" => Head(q).nr \notin Yes(r)
  BY <1>1, <1>2, <1>4 DEF Yes, Single
<1>7. \A k \in Yes(q) : k \in Yes(r) \/ (Head(q).op = "reply" /\ Head(q).ok /\ k = Head(q).nr)
  BY <1>1, <1>3 DEF Yes
<1>8. Head(q).op = "reply" => (Head(q).nr \in Yes(q) <=> Head(q).ok)
  <2>1. Head(q).op = "reply" /\ Head(q).ok => Head(q).nr \in Yes(q)
    BY <1>1, <1>4 DEF Yes
  <2> QED
    BY <1>6, <1>7, <2>1
<1> QED
  BY <1>5, <1>6, <1>7, <1>8 DEF r

LEMMA YesIsReplying == ASSUME NEW i PROVE Yes(posts[i]) \subseteq Replying(i)
BY DEF Yes, Replying, Numbers

(* An announcement promises nothing.                                       *)
LEMMA AnnounceYes ==
  ASSUME QueuesOK, NEW i \in Instance, NEW n, posts' = [posts EXCEPT ![i] = Announce(@, n)]
  PROVE  \A j \in Instance : Yes(posts[j])' = Yes(posts[j])
<1> TAKE j \in Instance
<1>1. PICK e : e = [op |-> "open", n |-> n]
  OBVIOUS
<1>2. e.op # "reply" /\ posts[j] \in Seq(Post) /\ (posts'[j] = posts[j] \/ posts'[j] = Append(posts[j], e))
  BY <1>1 DEF QueuesOK, Announce
<1>3. CASE posts'[j] = Append(posts[j], e)
  <2>1. ~(e.op = "reply" /\ e.ok)
    BY <1>2
  <2>2. Yes(Append(posts[j], e)) = Yes(posts[j])
    BY <1>2, <2>1, AppendYes
  <2> QED
    BY <1>3, <2>2 DEF Yes
<1> QED
  BY <1>2, <1>3

LEMMA IsGranted ==
  ASSUME NEW k
  PROVE  Granted(k) <=> stage[k] = "going" \/ (stage[k] = "reserving" /\ k \in Yes(posts[inst[k]]))
BY DEF Granted, Yes

LEMMA GrantedSame ==
  ASSUME Headed, made \subseteq Instance, NEW k \in Move, stage'[k] = stage[k], inst'[k] = inst[k],
         \A i \in Instance : k \in Yes(posts[i])' <=> k \in Yes(posts[i])
  PROVE  /\ Granted(k)' <=> Granted(k)
         /\ Phase(k)' = Phase(k)
         /\ Phases'[k] = Phases[k] /\ Givens'[k] = Givens[k]
<1>1. stage[k] = "reserving" => inst[k] \in Instance
  BY DEF Headed
<1>2. Granted(k)' <=> stage'[k] = "going" \/ (stage'[k] = "reserving" /\ k \in Yes(posts[inst[k]])')
  BY DEF Granted, Yes
<1>3. Granted(k)' <=> Granted(k)
  BY <1>1, <1>2, IsGranted
<1>4. Phase(k)' = Phase(k)
  BY <1>3 DEF Phase
<1> QED
  BY <1>3, <1>4 DEF Phases, Givens

(* Nothing changes for the moves when no promise is made or taken up.      *)
LEMMA MovesSame ==
  ASSUME Headed, made \subseteq Instance, UNCHANGED <<stage, inst>>,
         \A i \in Instance : Yes(posts[i])' = Yes(posts[i])
  PROVE  Phases' = Phases /\ Givens' = Givens
<1>1. \A k \in Move : Phase(k)' = Phase(k) /\ (Granted(k)' <=> Granted(k)) /\ inst'[k] = inst[k]
  BY GrantedSame
<1> QED
  BY <1>1 DEF Phases, Givens

(* One move changes, and all the others stay.                              *)
LEMMA MoveChanges ==
  ASSUME Headed, made \subseteq Instance, NEW k \in Move,
         \A j \in Move \ {k} :
           /\ stage'[j] = stage[j] /\ inst'[j] = inst[j]
           /\ \A i \in Instance : j \in Yes(posts[i])' <=> j \in Yes(posts[i])
  PROVE  /\ Phases' = [Phases EXCEPT ![k] = Phase(k)']
         /\ Givens' = [Givens EXCEPT ![k] = (IF Granted(k) THEN inst[k] ELSE None)']
<1>1. \A j \in Move \ {k} : Phase(j)' = Phase(j) /\ (Granted(j)' <=> Granted(j)) /\ inst'[j] = inst[j]
  BY GrantedSame
<1> QED
  BY <1>1 DEF Phases, Givens

\* Rooms and moves stay as they are.
Same == UNCHANGED <<made, maxPop, held, at, lost, extra, mover, goal, orphan>> /\ Phases' = Phases /\ Givens' = Givens

(* The steps of ZonePlaces, one by one.                                    *)
LEMMA SameSeen == Same => UNCHANGED Promise!vars
BY DEF Same, Promise!vars, Promise!rooms, Promise!moves, Phases, Givens

LEMMA PhaseChanges ==
  ASSUME NEW k \in Move, NEW p, Phases' = [Phases EXCEPT ![k] = p], Phase(k) # p
  PROVE  [j \in Move |-> Phase(j)]' # [j \in Move |-> Phase(j)]
<1>1. Phases'[k] = p /\ Phases[k] = Phase(k)
  BY DEF Phases
<1>2. Phases' # Phases
  BY <1>1
<1> QED
  BY <1>2 DEF Phases

LEMMA FailSeen ==
  ASSUME NEW k \in Move, Phase(k) \in {"wanted", "granted"}, Phases' = [Phases EXCEPT ![k] = "over"],
         Givens' = [Givens EXCEPT ![k] = None], orphan' = orphan \ {k},
         UNCHANGED <<made, maxPop, held, at, lost, extra, mover, goal>>
  PROVE  Promise!Next
<1>1. Promise!Fail(k)
  BY DEF Promise!Fail, Promise!rooms, Phases, Givens
<1> QED
  BY <1>1, PhaseChanges DEF Promise!Next

LEMMA WantSeen ==
  ASSUME NEW k \in Move, NEW u \in User, NEW z \in Zone \cup {None}, Phase(k) = "none",
         Phases' = [Phases EXCEPT ![k] = "wanted"], Givens' = Givens,
         mover' = [mover EXCEPT ![k] = u], goal' = [goal EXCEPT ![k] = z],
         UNCHANGED <<made, maxPop, held, at, lost, extra, orphan>>
  PROVE  Promise!Next
<1>1. Promise!Want(k, u, z)
  BY DEF Promise!Want, Promise!rooms, Phases, Givens
<1> QED
  BY <1>1, PhaseChanges DEF Promise!Next

LEMMA GrantSeen ==
  ASSUME TypeOK, Ledger, NEW k \in Move, NEW i \in made, open[i] > 0, Phase(k) = "wanted",
         goal[k] \in {None, ZoneOf[i]},
         Phases' = [Phases EXCEPT ![k] = "granted"], Givens' = [Givens EXCEPT ![k] = i],
         held' = [held EXCEPT ![i] = @ \cup {mover[k]}],
         lost' = [lost EXCEPT ![i] = @ + (IF mover[k] \in held[i] THEN 1 ELSE 0)],
         UNCHANGED <<made, maxPop, at, extra, mover, goal, orphan>>
  PROVE  Promise!Next
<1>1. i \in Instance
  BY DEF TypeOK
<1>2. Promise!Free(i) > 0
  <2>1. open[i] = maxPop[i] - Cardinality(held[i]) - Cardinality(Occupants(i)) - lost[i] + extra[i]
    BY DEF Ledger
  <2>2. Promise!Free(i) = maxPop[i] - Cardinality(held[i]) - Cardinality(Occupants(i)) - lost[i] + extra[i]
    <3>1. Occupants(i) = {u \in User : at[u] = i}
      BY DEF Occupants
    <3> QED
      BY <3>1 DEF Promise!Free, Promise!Cardinality, Cardinality
  <2> QED
    BY <2>1, <2>2
<1>3. Promise!Granted(k, i)
  BY DEF Promise!Granted, Phases, Givens
<1>4. Promise!Grant(k, i)
  BY <1>2, <1>3 DEF Promise!Grant
<1> QED
  BY <1>1, <1>4, PhaseChanges DEF Promise!Next

LEMMA BuildSeen ==
  ASSUME NEW k \in Move, NEW i \in Instance \ made, NEW n \in Pop, Phase(k) = "wanted", goal[k] \in {None, ZoneOf[i]},
         Phases' = [Phases EXCEPT ![k] = "granted"], Givens' = [Givens EXCEPT ![k] = i],
         made' = made \cup {i}, maxPop' = [maxPop EXCEPT ![i] = n],
         UNCHANGED <<held, at, lost, extra, mover, goal, orphan>>
  PROVE  Promise!Next
<1>1. Promise!Granted(k, i)
  BY DEF Promise!Granted, Phases, Givens
<1>2. Promise!Build(k, i, n)
  BY <1>1 DEF Promise!Build
<1> QED
  BY <1>2, PhaseChanges DEF Promise!Next

LEMMA ReturnSeen ==
  ASSUME held \in [Instance -> SUBSET User], NEW i \in Instance, NEW u \in held[i], held' = [held EXCEPT ![i] = @ \ {u}],
         UNCHANGED <<made, maxPop, at, lost, extra, mover, goal, orphan>>, Phases' = Phases, Givens' = Givens
  PROVE  Promise!Next
<1>1. Promise!Return(i, u)
  BY DEF Promise!Return, Promise!moves, Phases, Givens
<1>2. held' # held
  <2>1. u \notin held'[i]
    OBVIOUS
  <2> QED
    BY <2>1
<1>3. u \in User
  OBVIOUS
<1> QED
  BY <1>1, <1>2, <1>3 DEF Promise!Next, Promise!rooms

LEMMA ResizeSeen ==
  ASSUME made \subseteq Instance, NEW i \in made, NEW n \in Pop, maxPop' = [maxPop EXCEPT ![i] = n],
         UNCHANGED <<made, held, at, lost, extra, mover, goal, orphan>>, Phases' = Phases, Givens' = Givens
  PROVE  Promise!Next \/ UNCHANGED Promise!vars
<1>1. CASE maxPop' = maxPop
  BY <1>1, SameSeen DEF Same
<1>2. CASE maxPop' # maxPop
  <2>1. Promise!Resize(i, n)
    BY DEF Promise!Resize, Promise!moves, Phases, Givens
  <2> QED
    BY <1>2, <2>1 DEF Promise!Next, Promise!rooms
<1> QED
  BY <1>1, <1>2

LEMMA LeaveSeen ==
  ASSUME at \in [User -> made \cup {None}], NEW u \in User, at[u] # None, at' = [at EXCEPT ![u] = None],
         UNCHANGED <<made, maxPop, held, lost, extra, mover, goal, orphan>>, Phases' = Phases, Givens' = Givens
  PROVE  Promise!Next
<1>1. Promise!Leave(u)
  BY DEF Promise!Leave, Promise!moves, Phases, Givens
<1>2. at' # at
  <2>1. at'[u] = None
    OBVIOUS
  <2> QED
    BY <2>1
<1> QED
  BY <1>1, <1>2 DEF Promise!Next, Promise!rooms

LEMMA EnterSeen ==
  ASSUME NEW k \in Move, NEW u, NEW i, u = mover[k], i = inst[k], Granted(k), Phase(k) = "granted", k \notin orphan,
         Phases' = [Phases EXCEPT ![k] = "over"], Givens' = [Givens EXCEPT ![k] = None],
         at' = [at EXCEPT ![u] = i], held' = [held EXCEPT ![i] = @ \ {u}],
         extra' = [extra EXCEPT ![i] = @ + (IF u \in held[i] THEN 0 ELSE 1)],
         lost' = [j \in Instance |-> lost[j] + (IF at[u] = j THEN 1 ELSE 0)],
         UNCHANGED <<made, maxPop, mover, goal, orphan>>
  PROVE  Promise!Next
<1>1. Givens[k] = i
  BY DEF Givens
<1>2. Promise!Enter(k)
  BY <1>1 DEF Promise!Enter, Phases, Givens
<1> QED
  BY <1>2, PhaseChanges DEF Promise!Next

LEMMA VanishSeen ==
  ASSUME NEW u \in User, NEW gone \in SUBSET {k \in Move : mover[k] = u /\ Phase(k) = "granted"},
         at' = [at EXCEPT ![u] = None],
         lost' = [i \in Instance |-> lost[i] + (IF at[u] = i THEN 1 ELSE 0)],
         orphan' = orphan \cup {k \in Move \ gone : mover[k] = u /\ Phase(k) \in {"wanted", "granted"}},
         \A k \in Move : Phases'[k] = IF k \in gone THEN "over" ELSE Phases[k],
         \A k \in Move : Givens'[k] = IF k \in gone THEN None ELSE Givens[k],
         UNCHANGED <<made, maxPop, held, extra, mover, goal>>
  PROVE  Promise!Next
<1>1. Phases' = [k \in Move |-> IF k \in gone THEN "over" ELSE Phases[k]]
  BY DEF Phases
<1>2. Givens' = [k \in Move |-> IF k \in gone THEN None ELSE Givens[k]]
  BY DEF Givens
<1>3. Promise!Vanish(u)
  BY <1>1, <1>2 DEF Promise!Vanish, Phases, Givens
<1> QED
  BY <1>3 DEF Promise!Next

LEMMA StepsSeen == IInv /\ Ledger /\ Travels /\ [Next]_vars => [Promise!Next]_Promise!vars
<1> SUFFICES ASSUME IInv, Ledger, Travels, [Next]_vars PROVE Promise!Next \/ UNCHANGED Promise!vars
  OBVIOUS
<1> DEFINE Seen == Promise!Next \/ UNCHANGED Promise!vars
<1>t. /\ TypeOK /\ QueuesOK /\ Untouched /\ Once /\ Headed /\ Parted
      /\ stage \in [Move -> Stage] /\ inst \in [Move -> made \cup {None}] /\ mover \in [Move -> User \cup {None}]
      /\ goal \in [Move -> Zone \cup {None}]
      /\ made \subseteq Instance /\ open \in [Instance -> Int] /\ held \in [Instance -> SUBSET User]
      /\ at \in [User -> made \cup {None}]
      /\ abroad \subseteq Move /\ orphan \subseteq Move
  BY DEF IInv, TypeOK, Travels
<1>o. /\ \A k \in Move : stage[k] # "idle" => mover[k] \in User
      /\ \A k \in Move : stage[k] = "idle" => mover[k] \notin User /\ goal[k] = None
  BY <1>t, InstanceAssumption DEF IInv, Owned, Headed
\* What a move's phase is by its stage.
<1>f. ASSUME NEW k \in Move
      PROVE  /\ stage[k] = "idle" => Phase(k) = "none" /\ ~Granted(k)
             /\ stage[k] = "done" => Phase(k) = "over" /\ ~Granted(k)
             /\ stage[k] \in {"asked", "creating", "elsewhere"} => Phase(k) = "wanted" /\ ~Granted(k)
             /\ stage[k] = "going" => Phase(k) = "granted" /\ Granted(k)
             /\ stage[k] = "reserving" => IF Granted(k) THEN Phase(k) = "granted" ELSE Phase(k) = "wanted"
             /\ Phase(k) \in {"wanted", "granted"} <=> stage[k] \notin {"idle", "done"}
  <2>1. Granted(k) => stage[k] \in {"going", "reserving"}
    BY DEF Granted
  <2>2. stage[k] = "going" => Granted(k)
    BY DEF Granted
  <2> QED
    BY <1>t, <2>1, <2>2 DEF Phase, Stage
<1>g. ASSUME NEW k \in Move
      PROVE  /\ stage'[k] = "done" => Phase(k)' = "over" /\ ~Granted(k)'
             /\ stage'[k] \in {"asked", "creating", "elsewhere"} => Phase(k)' = "wanted" /\ ~Granted(k)'
             /\ stage'[k] = "going" => Phase(k)' = "granted" /\ Granted(k)'
             /\ stage'[k] = "reserving" => IF Granted(k)' THEN Phase(k)' = "granted" ELSE Phase(k)' = "wanted"
  <2>1. Granted(k)' => stage'[k] \in {"going", "reserving"}
    BY DEF Granted
  <2>2. stage'[k] = "going" => Granted(k)'
    BY DEF Granted
  <2> QED
    BY <2>1, <2>2 DEF Phase
<1>y. ASSUME UNCHANGED posts PROVE \A i \in Instance : Yes(posts[i])' = Yes(posts[i])
  BY <1>y
<1>m. ASSUME UNCHANGED <<stage, inst, posts>> PROVE Phases' = Phases /\ Givens' = Givens
  BY <1>t, <1>y, <1>m, MovesSame
<1>s. ASSUME UNCHANGED <<stage, inst, posts, made, maxPop, held, at, lost, extra, mover, goal, orphan>> PROVE Seen
  BY <1>m, <1>s, SameSeen DEF Same
<1>1. ASSUME NEW u \in User, Login(u) \/ Close(u) \/ SessionRemoved(u) PROVE Seen
  BY <1>s, <1>1 DEF Login, Close, SessionRemoved, places, queues, moves
<1>2. ASSUME NEW u \in User, Delete(u) PROVE Seen
  <2> DEFINE gone == {k \in Move : Mine(u, k) /\ stage[k] = "going"}
  <2>1. /\ UNCHANGED <<posts, inst, made, maxPop, held, extra, mover, goal>> /\ sess[u] = "closing"
        /\ at' = [at EXCEPT ![u] = None]
        /\ lost' = [i \in Instance |-> lost[i] + (IF at[u] = i THEN 1 ELSE 0)]
        /\ \A k \in Move : stage'[k] = IF k \in gone THEN "done" ELSE stage[k]
        /\ orphan' = orphan \cup {k \in Move : Mine(u, k) /\ stage[k] \notin {"going", "done"}}
    BY <1>2 DEF Delete
  <2>2. gone \subseteq Move /\ \A k \in gone : stage[k] = "going" /\ mover[k] = u
    BY DEF Mine
  <2>3. \A k \in Move : mover[k] = u /\ stage[k] # "done" => k \notin abroad
    BY <1>t, <2>1 DEF Parted
  <2>4. {k \in Move : Mine(u, k) /\ stage[k] \notin {"going", "done"}}
        = {k \in Move \ gone : mover[k] = u /\ Phase(k) \in {"wanted", "granted"}}
    <3>1. ASSUME NEW k \in Move
          PROVE  Mine(u, k) /\ stage[k] \notin {"going", "done"} <=>
                 k \notin gone /\ mover[k] = u /\ Phase(k) \in {"wanted", "granted"}
      BY <1>f, <1>o, <2>3, <3>1 DEF Mine
    <3> QED
      BY <3>1
  <2>5. gone \in SUBSET {k \in Move : mover[k] = u /\ Phase(k) = "granted"}
    BY <1>f, <2>2
  <2> HIDE DEF gone
  <2>6. ASSUME NEW k \in Move
        PROVE  /\ Phases'[k] = IF k \in gone THEN "over" ELSE Phases[k]
               /\ Givens'[k] = IF k \in gone THEN None ELSE Givens[k]
    <3>1. CASE k \in gone
      <4>1. Phase(k)' = "over" /\ ~Granted(k)'
        BY <1>g, <2>1, <3>1
      <4> QED
        BY <3>1, <4>1 DEF Phases, Givens
    <3>2. CASE k \notin gone
      BY <1>t, <1>y, <2>1, <3>2, GrantedSame
    <3> QED
      BY <3>1, <3>2
  <2> QED
    BY <2>1, <2>4, <2>5, <2>6, VanishSeen
<1>3. ASSUME NEW k \in Move, NEW u \in User, NEW z \in Zone, Ask(k, u, z) PROVE Seen
  <2>1. /\ UNCHANGED <<posts, inst, made, maxPop, held, at, lost, extra, orphan>> /\ stage[k] = "idle"
        /\ mover' = [mover EXCEPT ![k] = u] /\ goal' = [goal EXCEPT ![k] = z]
        /\ stage' = [stage EXCEPT ![k] = "asked"]
    BY <1>3 DEF Ask, Fresh, places, people, queues
  <2>2. stage'[k] = "asked" /\ \A j \in Move \ {k} : stage'[j] = stage[j] /\ inst'[j] = inst[j]
    BY <1>t, <2>1
  <2>3. /\ Phases' = [Phases EXCEPT ![k] = Phase(k)']
        /\ Givens' = [Givens EXCEPT ![k] = (IF Granted(k) THEN inst[k] ELSE None)']
    BY <1>t, <1>y, <2>1, <2>2, MoveChanges
  <2>4. Phase(k)' = "wanted" /\ ~Granted(k)' /\ Phase(k) = "none" /\ ~Granted(k)
    BY <1>f, <1>g, <2>1, <2>2
  <2>5. Givens' = Givens
    BY <2>3, <2>4 DEF Givens
  <2> QED
    BY <2>1, <2>3, <2>4, <2>5, WantSeen
<1>4. ASSUME NEW k \in Move, NEW u \in User, NEW i \in Instance, AskFromAway(k, u, i) PROVE Seen
  <2>1. /\ UNCHANGED <<posts, made, maxPop, held, at, lost, extra, orphan, goal>> /\ stage[k] = "idle"
        /\ mover' = [mover EXCEPT ![k] = u] /\ inst' = [inst EXCEPT ![k] = i]
        /\ stage' = [stage EXCEPT ![k] = "reserving"]
    BY <1>4 DEF AskFromAway, Fresh, places, people
  <2>2. /\ stage'[k] = "reserving" /\ inst'[k] = i
        /\ \A j \in Move \ {k} : stage'[j] = stage[j] /\ inst'[j] = inst[j]
    BY <1>t, <2>1
  <2>3. /\ Phases' = [Phases EXCEPT ![k] = Phase(k)']
        /\ Givens' = [Givens EXCEPT ![k] = (IF Granted(k) THEN inst[k] ELSE None)']
    BY <1>t, <1>y, <2>1, <2>2, MoveChanges
  <2>4. ~Granted(k)'
    <3>1. k \notin Replying(i)
      BY <1>t, <2>1 DEF Once
    <3>2. k \notin Yes(posts[i])
      BY <3>1, YesIsReplying
    <3> QED
      BY <2>1, <2>2, <3>2 DEF Granted, Yes
  <2>5. Phase(k)' = "wanted" /\ Phase(k) = "none" /\ ~Granted(k)
    BY <1>f, <1>g, <2>1, <2>2, <2>4
  <2>6. Givens' = Givens
    BY <2>3, <2>4, <2>5 DEF Givens
  <2>7. goal' = [goal EXCEPT ![k] = None]
    BY <1>o, <1>t, <2>1
  <2> QED
    BY <2>1, <2>3, <2>5, <2>6, <2>7, WantSeen
<1>5. ASSUME NEW k \in Move, Choose(k) PROVE Seen
  <2>1. /\ UNCHANGED <<posts, made, maxPop, held, at, lost, extra, mover, goal, orphan>> /\ stage[k] = "asked"
        /\ \/ /\ UNCHANGED inst
              /\ \E s \in {"creating", "elsewhere"} : stage' = [stage EXCEPT ![k] = s]
           \/ \E i \in Believed(goal[k]) : /\ stage' = [stage EXCEPT ![k] = "reserving"]
                                           /\ inst' = [inst EXCEPT ![k] = i]
    BY <1>5 DEF Choose, places, people
  <2>2. \A j \in Move \ {k} : stage'[j] = stage[j] /\ inst'[j] = inst[j]
    BY <1>t, <2>1
  <2>3. /\ Phases' = [Phases EXCEPT ![k] = Phase(k)']
        /\ Givens' = [Givens EXCEPT ![k] = (IF Granted(k) THEN inst[k] ELSE None)']
    BY <1>t, <1>y, <2>1, <2>2, MoveChanges
  <2>4. ~Granted(k)' /\ stage'[k] \in {"creating", "elsewhere", "reserving"}
    <3>1. CASE \E s \in {"creating", "elsewhere"} : stage' = [stage EXCEPT ![k] = s]
      BY <1>g, <1>t, <3>1
    <3>2. ASSUME NEW i \in Believed(goal[k]), stage' = [stage EXCEPT ![k] = "reserving"], inst' = [inst EXCEPT ![k] = i]
          PROVE  ~Granted(k)' /\ stage'[k] \in {"creating", "elsewhere", "reserving"}
      <4>1. i \in Instance
        BY <1>t DEF Believed
      <4>2. k \notin Replying(i)
        BY <1>t, <2>1, <4>1 DEF Once
      <4>3. k \notin Yes(posts[i])
        BY <4>2, YesIsReplying
      <4>4. stage'[k] = "reserving" /\ inst'[k] = i
        BY <1>t, <3>2
      <4> QED
        BY <2>1, <4>3, <4>4 DEF Granted, Yes
    <3> QED
      BY <2>1, <3>1, <3>2
  <2>5. Phase(k)' = "wanted" /\ Phase(k) = "wanted" /\ ~Granted(k)
    BY <1>f, <1>g, <2>1, <2>4
  <2>6. Phases' = Phases /\ Givens' = Givens
    BY <2>3, <2>4, <2>5 DEF Phases, Givens
  <2> QED
    BY <2>1, <2>6, SameSeen DEF Same
<1>6. ASSUME NEW k \in Move, NEW i \in Instance, Created(k, i) PROVE Seen
  <2> DEFINE n == record[ZoneOf[i]]
  <2>1. /\ UNCHANGED <<held, at, lost, extra, mover, goal, orphan>> /\ stage[k] = "creating"
        /\ made' = made \cup {i} /\ i \notin made /\ goal[k] = ZoneOf[i] /\ maxPop' = [maxPop EXCEPT ![i] = n]
        /\ stage' = [stage EXCEPT ![k] = "reserving"] /\ inst' = [inst EXCEPT ![k] = i]
    BY <1>6 DEF Created, people
  <2>2. /\ stage'[k] = "reserving" /\ inst'[k] = i
        /\ \A j \in Move \ {k} : stage'[j] = stage[j] /\ inst'[j] = inst[j]
    BY <1>t, <2>1
  <2>3. \A h \in Instance : Yes(posts[h])' = IF h = i THEN Yes(posts[h]) \cup {k} ELSE Yes(posts[h])
    <3>1. PICK e : e = [op |-> "reply", nr |-> k, ok |-> TRUE]
      OBVIOUS
    <3>2. e.op = "reply" /\ e.ok /\ e.nr = k
      BY <3>1
    <3>3. ASSUME NEW h \in Instance
          PROVE  posts[h] \in Seq(Post) /\ posts'[h] = IF h = i THEN Append(posts[h], e) ELSE posts[h]
      BY <1>t, <1>6, <3>1 DEF Created, QueuesOK
    <3>4. ASSUME NEW h \in Instance PROVE Yes(Append(posts[h], e)) = Yes(posts[h]) \cup {k}
      BY <3>2, <3>3, AppendYes
    <3> QED
      BY <3>3, <3>4
  <2>4. /\ Phases' = [Phases EXCEPT ![k] = Phase(k)']
        /\ Givens' = [Givens EXCEPT ![k] = (IF Granted(k) THEN inst[k] ELSE None)']
    <3>1. \A j \in Move \ {k} : \A h \in Instance : j \in Yes(posts[h])' <=> j \in Yes(posts[h])
      BY <2>3
    <3> QED
      BY <1>t, <2>2, <3>1, MoveChanges
  <2>5. Granted(k)'
    <3>1. k \in Yes(posts[i])'
      BY <2>3
    <3> QED
      BY <2>2, <3>1 DEF Granted, Yes
  <2>6. Phase(k)' = "granted" /\ Phase(k) = "wanted"
    BY <1>f, <1>g, <2>1, <2>2, <2>5
  <2>7. n \in Pop
    BY ZoneOfAssumption DEF IInv, TypeOK
  <2> HIDE DEF n
  <2> QED
    BY <2>1, <2>2, <2>4, <2>5, <2>6, <2>7, BuildSeen
<1>r. ASSUME NEW k \in Move, Returns(k) PROVE Seen
  <2>1. /\ UNCHANGED <<posts, inst, made, maxPop, held, at, lost, extra, mover, goal>>
        /\ stage[k] \in {"creating", "elsewhere"}
        /\ \E s \in {"asked", "done"} : stage' = [stage EXCEPT ![k] = s]
        /\ \/ orphan' = {j \in orphan : stage'[j] # "done"}
           \/ stage'[k] = "done" /\ orphan' = orphan \ {k}
    BY <1>t, <1>r, Returned DEF places, people, queues
  <2>2. \A j \in Move \ {k} : stage'[j] = stage[j] /\ inst'[j] = inst[j]
    BY <1>t, <2>1
  <2>3. /\ Phases' = [Phases EXCEPT ![k] = Phase(k)']
        /\ Givens' = [Givens EXCEPT ![k] = (IF Granted(k) THEN inst[k] ELSE None)']
    BY <1>t, <1>y, <2>1, <2>2, MoveChanges
  <2>4. Phase(k) = "wanted" /\ ~Granted(k)
    BY <1>f, <2>1
  <2>5. \A j \in orphan : stage[j] # "done"
    BY <1>t DEF Parted
  <2>6. CASE stage' = [stage EXCEPT ![k] = "asked"]
    <3>1. stage'[k] = "asked"
      BY <1>t, <2>6
    <3>2. Phase(k)' = "wanted" /\ ~Granted(k)'
      BY <1>g, <3>1
    <3>3. orphan' = orphan
      <4>1. \A j \in orphan : stage'[j] # "done"
        BY <1>t, <2>2, <2>5, <3>1
      <4>2. orphan' = {j \in orphan : stage'[j] # "done"}
        BY <2>1, <3>1
      <4> QED
        BY <4>1, <4>2
    <3>4. Phases' = Phases /\ Givens' = Givens
      BY <2>3, <2>4, <3>2 DEF Phases, Givens
    <3> QED
      BY <2>1, <3>3, <3>4, SameSeen DEF Same
  <2>7. CASE stage' = [stage EXCEPT ![k] = "done"]
    <3>1. stage'[k] = "done"
      BY <1>t, <2>7
    <3>2. Phase(k)' = "over" /\ ~Granted(k)'
      BY <1>g, <3>1
    <3>3. orphan' = orphan \ {k}
      <4>1. \A j \in orphan : stage'[j] # "done" <=> j # k
        BY <1>t, <2>2, <2>5, <3>1
      <4>2. {j \in orphan : stage'[j] # "done"} = orphan \ {k}
        BY <4>1
      <4> QED
        BY <2>1, <4>2
    <3> QED
      BY <2>1, <2>3, <2>4, <3>2, <3>3, FailSeen
  <2> QED
    BY <2>1, <2>6, <2>7
<1>7. ASSUME NEW z \in Zone, NEW n \in Pop, ZoneUpdated(z, n) PROVE Seen
  BY <1>s, <1>7 DEF ZoneUpdated, places, people, moves
<1>8. ASSUME NEW i \in Instance, InstanceUpdated(i) PROVE Seen
  <2>1. /\ UNCHANGED <<stage, inst, made, maxPop, held, at, lost, extra, mover, goal, orphan>>
        /\ posts[i] # <<>> /\ Head(posts[i]).op # "reply" /\ posts' = [posts EXCEPT ![i] = Tail(@)]
    BY <1>8 DEF InstanceUpdated, places, people, moves
  <2>2. ASSUME NEW h \in Instance PROVE Yes(posts[h])' = Yes(posts[h])
    <3>1. posts[h] \in Seq(Post) /\ posts'[h] = IF h = i THEN Tail(posts[h]) ELSE posts[h]
      BY <1>t, <2>1 DEF QueuesOK
    <3>2. Single(posts[h], {"reply"})
      BY <1>t DEF Once
    <3> QED
      BY <2>1, <3>1, <3>2, TailYes
  <2>3. Phases' = Phases /\ Givens' = Givens
    BY <1>t, <2>1, <2>2, MovesSame
  <2> QED
    BY <2>1, <2>3, SameSeen DEF Same
<1>9. ASSUME NEW i \in Instance, PlaceMaybeReserved(i) \/ ReplyToAway(i) PROVE Seen
  <2>0. PICK k, ok : k = Head(posts[i]).nr /\ ok = Head(posts[i]).ok
    OBVIOUS
  <2>1. /\ UNCHANGED <<inst, made, maxPop, held, at, lost, extra, mover, goal>> /\ posts[i] # <<>>
        /\ Head(posts[i]).op = "reply" /\ posts' = [posts EXCEPT ![i] = Tail(@)]
    BY <1>9 DEF PlaceMaybeReserved, ReplyToAway, places, people
  <2>2. k \in Move /\ stage[k] = "reserving" /\ inst[k] = i
    <3>1. k \in Placed
      BY <1>t, <2>0, <2>1, HeadPost
    <3>2. posts[i] \in Seq(Post) /\ Head(posts[i]) = posts[i][1] /\ 1 \in DOMAIN posts[i]
      BY <1>t, <2>1 DEF QueuesOK
    <3>3. k \in Replying(i)
      BY <2>0, <2>1, <3>2 DEF Replying, Numbers
    <3> QED
      BY <1>t, <3>1, <3>3 DEF Once, Placed
  <2>3. /\ \A h \in Instance : Yes(posts[h])' = IF h = i THEN Yes(posts[h]) \ {k} ELSE Yes(posts[h])
        /\ k \in Yes(posts[i]) <=> ok
    <3>1. ASSUME NEW h \in Instance
          PROVE  /\ posts[h] \in Seq(Post) /\ posts'[h] = IF h = i THEN Tail(posts[h]) ELSE posts[h]
                 /\ Single(posts[h], {"reply"})
      BY <1>t, <2>1 DEF QueuesOK, Once
    <3>2. Yes(Tail(posts[i])) = Yes(posts[i]) \ {k} /\ (k \in Yes(posts[i]) <=> ok)
      BY <2>0, <2>1, <3>1, TailYes
    <3> QED
      BY <3>1, <3>2
  <2>4. /\ \/ stage' = [stage EXCEPT ![k] = "done"] /\ (orphan' = {j \in orphan : stage'[j] # "done"} \/ (orphan' = orphan /\ k \in abroad))
           \/ ~ok /\ stage' = [stage EXCEPT ![k] = "asked"] /\ orphan' = {j \in orphan : stage'[j] # "done"}
           \/ /\ ok /\ stage' = [stage EXCEPT ![k] = "going"]
              /\ orphan' = {j \in orphan : stage'[j] # "done"} \/ orphan' = orphan
    BY <1>9, <2>0 DEF PlaceMaybeReserved, ReplyToAway
  <2>5. Granted(k) <=> ok
    BY <2>2, <2>3, IsGranted
  <2>6. ASSUME NEW s, stage' = [stage EXCEPT ![k] = s]
        PROVE  /\ stage'[k] = s
               /\ Phases' = [Phases EXCEPT ![k] = Phase(k)']
               /\ Givens' = [Givens EXCEPT ![k] = (IF Granted(k) THEN inst[k] ELSE None)']
               /\ s # "done" => {j \in orphan : stage'[j] # "done"} = orphan
               /\ s = "done" => {j \in orphan : stage'[j] # "done"} = orphan \ {k}
    <3>1. stage'[k] = s /\ \A j \in Move \ {k} : stage'[j] = stage[j] /\ inst'[j] = inst[j]
      BY <1>t, <2>1, <2>2, <2>6
    <3>2. \A j \in Move \ {k} : \A h \in Instance : j \in Yes(posts[h])' <=> j \in Yes(posts[h])
      BY <2>3
    <3>3. \A j \in orphan : stage[j] # "done"
      BY <1>t DEF Parted
    <3> QED
      BY <1>t, <2>2, <3>1, <3>2, <3>3, MoveChanges
  <2>7. CASE stage' = [stage EXCEPT ![k] = "done"] /\ (orphan' = {j \in orphan : stage'[j] # "done"} \/ (orphan' = orphan /\ k \in abroad))
    <3>1. Phase(k)' = "over" /\ ~Granted(k)' /\ Phase(k) \in {"wanted", "granted"}
      BY <1>f, <1>g, <2>2, <2>6, <2>7
    <3>2. k \in abroad => k \notin orphan
      BY <1>t DEF Parted
    <3>3. orphan' = orphan \ {k}
      BY <2>6, <2>7, <3>2
    <3> QED
      BY <2>1, <2>2, <2>6, <2>7, <3>1, <3>3, FailSeen
  <2>8. CASE ~ok /\ stage' = [stage EXCEPT ![k] = "asked"] /\ orphan' = {j \in orphan : stage'[j] # "done"}
    <3>1. Phase(k)' = "wanted" /\ ~Granted(k)' /\ Phase(k) = "wanted" /\ ~Granted(k)
      BY <1>f, <1>g, <2>2, <2>5, <2>6, <2>8
    <3>2. Phases' = Phases /\ Givens' = Givens /\ orphan' = orphan
      BY <2>6, <2>8, <3>1 DEF Phases, Givens
    <3> QED
      BY <2>1, <3>2, SameSeen DEF Same
  <2>9. CASE /\ ok /\ stage' = [stage EXCEPT ![k] = "going"]
             /\ orphan' = {j \in orphan : stage'[j] # "done"} \/ orphan' = orphan
    <3>1. Phase(k)' = "granted" /\ Granted(k)' /\ Phase(k) = "granted" /\ Granted(k)
      BY <1>f, <1>g, <2>2, <2>5, <2>6, <2>9
    <3>2. Phases' = Phases /\ Givens' = Givens /\ orphan' = orphan
      BY <2>1, <2>6, <2>9, <3>1 DEF Phases, Givens
    <3> QED
      BY <2>1, <3>2, SameSeen DEF Same
  <2> QED
    BY <2>4, <2>7, <2>8, <2>9
<1>10. ASSUME NEW i \in Instance, Reserve(i) PROVE Seen
  <2>0. PICK k, yes, no : /\ k = Head(calls[i]).nr
                          /\ yes = [op |-> "reply", nr |-> k, ok |-> TRUE]
                          /\ no = [op |-> "reply", nr |-> k, ok |-> FALSE]
    OBVIOUS
  <2>1. /\ UNCHANGED <<stage, inst, made, maxPop, at, extra, mover, goal, orphan>> /\ calls[i] # <<>>
        /\ Head(calls[i]).op = "reserve"
    BY <1>10 DEF Reserve, people, moves
  <2>2. k \in Move /\ stage[k] = "reserving" /\ inst[k] = i /\ k \notin Replying(i)
    <3>1. k \in Placed
      BY <1>t, <2>0, <2>1, HeadCall
    <3>2. calls[i] \in Seq(Call) /\ Head(calls[i]) = calls[i][1] /\ 1 \in DOMAIN calls[i]
      BY <1>t, <2>1 DEF QueuesOK
    <3>3. k \in Reserving(i)
      BY <2>0, <2>1, <3>2 DEF Reserving, Numbers
    <3> QED
      BY <1>t, <3>1, <3>3 DEF Once, Placed
  <2>3. yes.op = "reply" /\ yes.nr = k /\ yes.ok /\ no.op = "reply" /\ no.nr = k /\ ~no.ok
    BY <2>0
  <2>4. \/ posts' = [posts EXCEPT ![i] = Append(@, no)] /\ UNCHANGED <<held, lost>>
        \/ /\ open[i] > 0 /\ held' = [held EXCEPT ![i] = @ \cup {mover[k]}]
           /\ lost' = [lost EXCEPT ![i] = @ + (IF mover[k] \in held[i] THEN 1 ELSE 0)]
           /\ posts' = [posts EXCEPT ![i] = Append(Announce(@, open[i] - 1), yes)]
    BY <1>10, <2>0 DEF Reserve
  <2>5. k \notin Yes(posts[i])
    BY <2>2, YesIsReplying
  <2>6. ~Granted(k) /\ Phase(k) = "wanted"
    <3>1. ~Granted(k)
      BY <2>2, <2>5, IsGranted
    <3> QED
      BY <1>f, <2>2, <3>1
  <2>7. CASE posts' = [posts EXCEPT ![i] = Append(@, no)] /\ UNCHANGED <<held, lost>>
    <3>1. ASSUME NEW h \in Instance PROVE Yes(posts[h])' = Yes(posts[h])
      <4>1. posts[h] \in Seq(Post) /\ posts'[h] = IF h = i THEN Append(posts[h], no) ELSE posts[h]
        BY <1>t, <2>7 DEF QueuesOK
      <4>2. ~(no.op = "reply" /\ no.ok)
        BY <2>3
      <4>3. Yes(Append(posts[h], no)) = Yes(posts[h])
        BY <4>1, <4>2, AppendYes
      <4> QED
        BY <4>1, <4>3
    <3>2. Phases' = Phases /\ Givens' = Givens
      BY <1>t, <2>1, <3>1, MovesSame
    <3> QED
      BY <2>1, <2>7, <3>2, SameSeen DEF Same
  <2>8. CASE /\ open[i] > 0 /\ held' = [held EXCEPT ![i] = @ \cup {mover[k]}]
             /\ lost' = [lost EXCEPT ![i] = @ + (IF mover[k] \in held[i] THEN 1 ELSE 0)]
             /\ posts' = [posts EXCEPT ![i] = Append(Announce(@, open[i] - 1), yes)]
    <3>1. ASSUME NEW h \in Instance PROVE Yes(posts[h])' = IF h = i THEN Yes(posts[h]) \cup {k} ELSE Yes(posts[h])
      <4>1. PICK e : e = [op |-> "open", n |-> open[i] - 1]
        OBVIOUS
      <4>7. PICK s : s = Append(posts[h], e)
        OBVIOUS
      <4>2. posts[h] \in Seq(Post) /\ posts'[h] = IF h = i THEN Append(s, yes) ELSE posts[h]
        BY <1>t, <2>8, <4>1, <4>7 DEF QueuesOK, Announce
      <4>3. e \in Post /\ e.op # "reply"
        <5>1. open[i] - 1 \in Int
          BY <1>t
        <5> QED
          BY <4>1, <5>1, OpenPost
      <4>4. s \in Seq(Post) /\ ~(e.op = "reply" /\ e.ok)
        BY <4>2, <4>3, <4>7
      <4>5. Yes(s) = Yes(posts[h])
        BY <4>2, <4>4, <4>7, AppendYes
      <4>6. Yes(Append(s, yes)) = Yes(posts[h]) \cup {k}
        BY <2>3, <4>4, <4>5, AppendYes
      <4> QED
        BY <4>2, <4>6
    <3>2. /\ Phases' = [Phases EXCEPT ![k] = Phase(k)']
          /\ Givens' = [Givens EXCEPT ![k] = (IF Granted(k) THEN inst[k] ELSE None)']
      <4>1. \A j \in Move \ {k} : \A h \in Instance : j \in Yes(posts[h])' <=> j \in Yes(posts[h])
        BY <3>1
      <4>2. \A j \in Move \ {k} : stage'[j] = stage[j] /\ inst'[j] = inst[j]
        BY <2>1
      <4> QED
        BY <1>t, <2>2, <4>1, <4>2, MoveChanges
    <3>3. Granted(k)' /\ inst'[k] = i
      <4>1. k \in Yes(posts[i])'
        BY <3>1
      <4> QED
        BY <2>1, <2>2, <4>1 DEF Granted, Yes
    <3>4. Phase(k)' = "granted"
      BY <1>g, <2>1, <2>2, <3>3
    <3>5. i \in made
      BY <1>t, <2>1 DEF Untouched
    <3>6. goal[k] \in {None, ZoneOf[i]}
      BY <1>t, <2>2 DEF Headed
    <3> QED
      BY <1>t, <2>1, <2>2, <2>6, <2>8, <3>2, <3>3, <3>4, <3>5, <3>6, GrantSeen
  <2> QED
    BY <2>4, <2>7, <2>8
\* A place is given up, or there is none to give up.
<1>u. ASSUME NEW i \in Instance, NEW u, GiveUp(i, u),
             UNCHANGED <<stage, inst, made, maxPop, at, lost, extra, mover, goal, orphan>>
      PROVE  Seen
  <2>1. CASE u \in held[i]
    <3>1. posts' = [posts EXCEPT ![i] = Announce(@, open[i] + 1)] /\ held' = [held EXCEPT ![i] = @ \ {u}]
      BY <1>u, <2>1 DEF GiveUp
    <3>2. \A h \in Instance : Yes(posts[h])' = Yes(posts[h])
      BY <1>t, <3>1, AnnounceYes
    <3>3. Phases' = Phases /\ Givens' = Givens
      BY <1>t, <1>u, <3>2, MovesSame
    <3> QED
      BY <1>t, <1>u, <2>1, <3>1, <3>3, ReturnSeen
  <2>2. CASE u \notin held[i]
    BY <1>s, <1>u, <2>2 DEF GiveUp
  <2> QED
    BY <2>1, <2>2
<1>11. ASSUME NEW i \in Instance, Cancel(i) PROVE Seen
  BY <1>u, <1>11 DEF Cancel, people, moves
<1>12. ASSUME NEW i \in Instance, NEW u \in User, Expire(i, u) PROVE Seen
  BY <1>u, <1>12 DEF Expire, people, moves
<1>13. ASSUME NEW i \in Instance, Resize(i) PROVE Seen
  <2> DEFINE n == Head(calls[i]).pop
  <2>1. /\ UNCHANGED <<stage, inst, made, held, at, lost, extra, mover, goal, orphan>> /\ calls[i] # <<>>
        /\ Head(calls[i]).op = "updated" /\ maxPop' = [maxPop EXCEPT ![i] = n]
        /\ posts' = IF n = maxPop[i] THEN posts
                    ELSE [posts EXCEPT ![i] = Announce(@, open[i] + (n - maxPop[i]))]
    BY <1>13 DEF Resize, people, moves
  <2>2. n \in Pop /\ i \in made
    BY <1>t, <2>1, HeadCall DEF Untouched
  <2> HIDE DEF n
  <2>3. \A h \in Instance : Yes(posts[h])' = Yes(posts[h])
    <3>1. CASE posts' = posts
      BY <1>y, <3>1
    <3>2. CASE posts' = [posts EXCEPT ![i] = Announce(@, open[i] + (n - maxPop[i]))]
      BY <1>t, <3>2, AnnounceYes
    <3> QED
      BY <2>1, <3>1, <3>2
  <2>4. Phases' = Phases /\ Givens' = Givens
    BY <1>t, <2>1, <2>3, MovesSame
  <2> QED
    BY <1>t, <2>1, <2>2, <2>4, ResizeSeen
<1>14. ASSUME NEW u \in User, Go(u) PROVE Seen
  <2>1. /\ UNCHANGED <<stage, inst, made, maxPop, held, lost, extra, mover, goal, orphan>>
        /\ at' = [at EXCEPT ![u] = None]
    BY <1>14 DEF Go, moves
  <2>2. CASE at[u] = None
    <3>1. at' = at /\ posts' = posts
      BY <1>t, <1>14, <2>1, <2>2 DEF Go
    <3> QED
      BY <1>s, <2>1, <3>1
  <2>3. CASE at[u] # None
    <3>1. posts' = [posts EXCEPT ![at[u]] = Announce(@, open[at[u]] + 1)] /\ at[u] \in Instance
      BY <1>t, <1>14, <2>3 DEF Go
    <3>2. \A h \in Instance : Yes(posts[h])' = Yes(posts[h])
      BY <1>t, <3>1, AnnounceYes
    <3>3. Phases' = Phases /\ Givens' = Givens
      BY <1>t, <2>1, <3>2, MovesSame
    <3> QED
      BY <1>t, <2>1, <2>3, <3>3, LeaveSeen
  <2> QED
    BY <2>2, <2>3
<1>15. ASSUME NEW u \in User, Enter(u) PROVE Seen
  <2>0. PICK k, i : k = Head(inbox[u]).nr /\ i = inst[k]
    OBVIOUS
  <2>1. /\ UNCHANGED <<posts, inst, made, maxPop, mover, goal, orphan>> /\ inbox[u] # <<>>
        /\ Head(inbox[u]).op = "enter"
        /\ held' = [held EXCEPT ![i] = @ \ {u}]
        /\ extra' = [extra EXCEPT ![i] = @ + (IF u \in held[i] THEN 0 ELSE 1)]
        /\ lost' = [j \in Instance |-> lost[j] + (IF at[u] = j THEN 1 ELSE 0)]
        /\ at' = [at EXCEPT ![u] = i] /\ stage' = [stage EXCEPT ![k] = "done"]
    BY <1>15, <2>0 DEF Enter
  <2>2. k \in Move /\ stage[k] = "going" /\ mover[k] = u
    <3>1. k \in Placed
      BY <1>t, <2>0, <2>1, HeadJob
    <3>2. inbox[u] \in Seq(Job) /\ Head(inbox[u]) = inbox[u][1] /\ 1 \in DOMAIN inbox[u]
      BY <1>t, <2>1 DEF QueuesOK
    <3>3. k \in Going(u)
      BY <2>0, <2>1, <3>2 DEF Going, Numbers
    <3> QED
      BY <1>t, <3>1, <3>3 DEF Once, Placed
  <2>3. k \notin orphan
    BY <1>t, <2>2 DEF Parted
  <2>4. stage'[k] = "done" /\ \A j \in Move \ {k} : stage'[j] = stage[j] /\ inst'[j] = inst[j]
    BY <1>t, <2>1, <2>2
  <2>5. /\ Phases' = [Phases EXCEPT ![k] = Phase(k)']
        /\ Givens' = [Givens EXCEPT ![k] = (IF Granted(k) THEN inst[k] ELSE None)']
    BY <1>t, <1>y, <2>1, <2>2, <2>4, MoveChanges
  <2>6. Phase(k)' = "over" /\ ~Granted(k)' /\ Phase(k) = "granted" /\ Granted(k)
    BY <1>f, <1>g, <2>2, <2>4
  <2> QED
    BY <2>0, <2>1, <2>2, <2>3, <2>5, <2>6, EnterSeen
<1>16. CASE UNCHANGED vars
  BY <1>s, <1>16 DEF vars, places, people, queues, moves
<1> QED
  <2>1. Roaming \subseteq User
    BY UserAssumption
  <2> QED
    BY <1>1, <1>2, <1>3, <1>4, <1>5, <1>6, <1>7, <1>8, <1>9, <1>10, <1>11, <1>12, <1>13, <1>14, <1>15, <1>16, <1>r, <2>1
       DEF Next, Returns

(* Seen from those who move, the instances, their queues and the           *)
(* PeerManager do what ZonePlaces promises: a move is granted a place only *)
(* where the holders and the occupants leave one, in the zone it is to,    *)
(* whatever anyone believed; and its session enters there once, and no     *)
(* other by that grant (Instance::reservePlace, addSession,                *)
(* PeerManager::instancePlaceMaybeReserved).                               *)
THEOREM PlacesImplement == Spec => Implements
<1>1. Init => Promise!Init
  <2> SUFFICES ASSUME Init PROVE Promise!Init
    OBVIOUS
  <2>1. \A k \in Move : ~Granted(k) /\ Phase(k) = "none"
    BY DEF Init, Granted, Phase
  <2> QED
    BY <2>1 DEF Init, Promise!Init
<1>2. IInv /\ Ledger /\ Travels /\ [Next]_vars => [Promise!Next]_Promise!vars
  BY StepsSeen
<1> QED
  BY <1>1, <1>2, Invariance, LedgerHolds, TravelsHolds, PTL DEF Spec, Implements, Promise!Spec

-----------------------------------------------------------------------------
(* To the reader of the posts s, who believes v, no refusal comes but      *)
(* behind the news, or the belief, that there is no place.                 *)
Refusal(c) == c.op = "reply" /\ ~c.ok
Heard(s, v, n) == \E m \in 0 .. n - 1 :
    /\ m > 0 => s[m].op = "open"
    /\ \A j \in m + 1 .. n : s[j].op # "open"
    /\ IF m = 0 THEN v <= 0 ELSE s[m].n <= 0
Warned(s, v) == \A n \in DOMAIN s : Refusal(s[n]) => Heard(s, v, n)

LEMMA WarnedPut ==
  ASSUME NEW S, NEW s \in Seq(S), NEW v, NEW c, Warned(s, v),
         Refusal(c) => \E o \in Int : o <= 0 /\ Follows(s, v, o)
  PROVE  Warned(Append(s, c), v)
<1> DEFINE t == Append(s, c)
<1>1. /\ Len(t) = Len(s) + 1 /\ Len(s) \in Nat /\ t[Len(s) + 1] = c
      /\ \A m \in 1 .. Len(s) : t[m] = s[m]
      /\ DOMAIN s = 1 .. Len(s) /\ DOMAIN t = 1 .. Len(s) + 1
  OBVIOUS
<1> HIDE DEF t
<1> SUFFICES ASSUME NEW n \in DOMAIN t, Refusal(t[n]) PROVE Heard(t, v, n)
  BY DEF Warned, t
<1>2. CASE n # Len(s) + 1
  <2>1. n \in DOMAIN s /\ t[n] = s[n] /\ n <= Len(s)
    BY <1>1, <1>2
  <2>2. PICK m \in 0 .. n - 1 : /\ m > 0 => s[m].op = "open"
                                /\ \A j \in m + 1 .. n : s[j].op # "open"
                                /\ IF m = 0 THEN v <= 0 ELSE s[m].n <= 0
    BY <2>1 DEF Warned, Heard
  <2>3. m > 0 => t[m] = s[m]
    BY <1>1, <2>1
  <2>4. \A j \in m + 1 .. n : t[j] = s[j]
    BY <1>1, <2>1
  <2> QED
    BY <2>2, <2>3, <2>4 DEF Heard
<1>3. CASE n = Len(s) + 1
  <2>1. Refusal(c) /\ t[n] = c /\ c.op # "open"
    BY <1>1, <1>3 DEF Refusal
  <2>2. PICK o \in Int : o <= 0 /\ Follows(s, v, o)
    BY <2>1
  <2>3. PICK m \in 0 .. Len(s) : /\ m > 0 => s[m].op = "open"
                                 /\ \A j \in m + 1 .. Len(s) : s[j].op # "open"
                                 /\ o = IF m = 0 THEN v ELSE s[m].n
    BY <2>2 DEF Follows
  <2>4. m > 0 => t[m] = s[m]
    BY <1>1
  <2>5. \A j \in m + 1 .. n : t[j].op # "open"
    <3> TAKE j \in m + 1 .. n
    <3>1. CASE j = n
      BY <2>1, <3>1
    <3>2. CASE j # n
      <4>1. j \in m + 1 .. Len(s) /\ j \in 1 .. Len(s)
        BY <1>1, <1>3, <3>2
      <4> QED
        BY <1>1, <2>3, <4>1
    <3> QED
      BY <3>1, <3>2
  <2>6. m \in 0 .. n - 1
    BY <1>1, <1>3
  <2> QED
    BY <2>2, <2>3, <2>4, <2>5, <2>6 DEF Heard
<1> QED
  BY <1>2, <1>3

LEMMA WarnedRead ==
  ASSUME NEW S, NEW s \in Seq(S), s # <<>>, NEW v, Warned(s, v)
  PROVE  /\ Head(s).op = "open" => Warned(Tail(s), Head(s).n)
         /\ Head(s).op # "open" => Warned(Tail(s), v)
         /\ Refusal(Head(s)) => v <= 0
<1> DEFINE t == Tail(s)
<1>1. /\ Len(s) \in Nat /\ Len(s) > 0 /\ Len(t) = Len(s) - 1 /\ Head(s) = s[1]
      /\ \A m \in 1 .. Len(t) : t[m] = s[m + 1]
      /\ DOMAIN s = 1 .. Len(s) /\ DOMAIN t = 1 .. Len(t)
  OBVIOUS
<1> HIDE DEF t
<1>2. Refusal(Head(s)) => v <= 0
  <2> HAVE Refusal(Head(s))
  <2>1. Heard(s, v, 1)
    BY <1>1 DEF Warned
  <2>2. \A m \in 0 .. 1 - 1 : m = 0
    OBVIOUS
  <2> QED
    BY <2>1, <2>2 DEF Heard
<1>3. ASSUME NEW w, Head(s).op = "open" => w = Head(s).n, Head(s).op # "open" => w = v
      PROVE  Warned(t, w)
  <2> SUFFICES ASSUME NEW n \in DOMAIN t, Refusal(t[n]) PROVE Heard(t, w, n)
    BY DEF Warned
  <2>1. n + 1 \in DOMAIN s /\ t[n] = s[n + 1] /\ n \in 1 .. Len(t)
    BY <1>1
  <2>2. PICK m \in 0 .. n : /\ m > 0 => s[m].op = "open"
                            /\ \A j \in m + 1 .. n + 1 : s[j].op # "open"
                            /\ IF m = 0 THEN v <= 0 ELSE s[m].n <= 0
    <3>1. Heard(s, v, n + 1)
      BY <2>1 DEF Warned
    <3>2. 0 .. (n + 1) - 1 = 0 .. n
      BY <2>1
    <3> QED
      BY <3>1, <3>2 DEF Heard
  <2>3. \A j \in 1 .. n : j > m - 1 => t[j].op # "open"
    <3> SUFFICES ASSUME NEW j \in 1 .. n, j > m - 1 PROVE t[j].op # "open"
      OBVIOUS
    <3>1. j + 1 \in m + 1 .. n + 1 /\ t[j] = s[j + 1]
      BY <1>1, <2>1
    <3> QED
      BY <2>2, <3>1
  <2>4. CASE m \in {0, 1}
    <3>1. w <= 0
      BY <1>1, <1>3, <2>2, <2>1, <2>4
    <3>2. \A j \in 0 + 1 .. n : t[j].op # "open"
      BY <2>3, <2>4
    <3>3. 0 \in 0 .. n - 1
      BY <2>1
    <3> QED
      BY <3>1, <3>2, <3>3 DEF Heard
  <2>5. CASE m \notin {0, 1}
    <3> DEFINE p == m - 1
    <3>1. p \in 0 .. n - 1 /\ p # 0 /\ t[p] = s[m]
      BY <1>1, <2>1, <2>5
    <3>2. \A j \in p + 1 .. n : t[j].op # "open"
      BY <2>3, <2>5
    <3>3. t[p].op = "open" /\ t[p].n <= 0
      BY <2>2, <2>5, <3>1
    <3> HIDE DEF p
    <3> QED
      BY <3>1, <3>2, <3>3 DEF Heard
  <2> QED
    BY <2>4, <2>5
<1> QED
  BY <1>2, <1>3 DEF t

LEMMA FullStep == IInv /\ ViewFollows /\ FullFirst /\ [Next]_vars => FullFirst'
<1> SUFFICES ASSUME IInv, ViewFollows, FullFirst, [Next]_vars, NEW j \in made'
             PROVE  Warned(posts'[j], view'[j])
  BY DEF FullFirst, Warned, Heard, Refusal
<1> DEFINE Good == Warned(posts'[j], view'[j])
<1>t. /\ TypeOK /\ QueuesOK /\ Untouched /\ made \subseteq Instance
      /\ open \in [Instance -> Int] /\ view \in [Instance -> Int]
      /\ posts \in [Instance -> Seq(Post)]
  BY DEF IInv, TypeOK, QueuesOK
<1>f. \A i \in made : Follows(posts[i], view[i], open[i])
  BY DEF ViewFollows, LastTold, Follows
<1>0. \A i \in made : Warned(posts[i], view[i])
  BY DEF FullFirst, Warned, Heard, Refusal
<1>q. ASSUME UNCHANGED <<posts, view, made>> PROVE Good
  BY <1>0, <1>q
<1>a. ASSUME NEW i \in Instance, NEW n, UNCHANGED <<view, made>>,
             posts' = [posts EXCEPT ![i] = Announce(@, n)]
      PROVE  Good
  <2>1. CASE j = i
    <3> DEFINE c == [op |-> "open", n |-> n]
    <3>1. posts'[j] = Append(posts[j], c) /\ view'[j] = view[j] /\ posts[j] \in Seq(Post)
      BY <1>t, <1>a, <2>1 DEF Announce
    <3>2. ~Refusal(c) /\ Warned(posts[j], view[j])
      BY <1>0, <1>a DEF Refusal
    <3> HIDE DEF c
    <3> QED
      BY <3>1, <3>2, WarnedPut
  <2>2. CASE j # i
    BY <1>0, <1>t, <1>a, <2>2
  <2> QED
    BY <2>1, <2>2
<1>p. ASSUME NEW i \in Instance, posts[i] # <<>>, posts' = [posts EXCEPT ![i] = Tail(@)], made' = made,
             \/ Head(posts[i]).op = "open" /\ view' = [view EXCEPT ![i] = Head(posts[i]).n]
             \/ Head(posts[i]).op # "open" /\ view' = view
      PROVE  Good
  <2>1. CASE j = i
    <3>1. /\ posts'[j] = Tail(posts[j]) /\ posts[j] # <<>>
          /\ posts[j] \in Seq(Post) /\ Warned(posts[j], view[j])
      BY <1>0, <1>t, <1>p, <2>1
    <3>2. view'[j] = IF Head(posts[j]).op = "open" THEN Head(posts[j]).n ELSE view[j]
      BY <1>t, <1>p, <2>1
    <3> QED
      BY <3>1, <3>2, WarnedRead
  <2>2. CASE j # i
    BY <1>0, <1>t, <1>p, <2>2
  <2> QED
    BY <2>1, <2>2
<1>1. ASSUME NEW u \in User, Login(u) \/ Close(u) \/ SessionRemoved(u) \/ Delete(u) \/ Enter(u) PROVE Good
  BY <1>q, <1>1 DEF Login, Close, SessionRemoved, Delete, Enter, places, queues
<1>2. ASSUME NEW k \in Move, NEW u \in User, NEW z \in Zone, Ask(k, u, z) PROVE Good
  BY <1>q, <1>2 DEF Ask, places, queues
<1>3. ASSUME NEW k \in Move, NEW u \in User, NEW i \in Instance, AskFromAway(k, u, i) PROVE Good
  BY <1>q, <1>3 DEF AskFromAway, places
<1>4. ASSUME NEW k \in Move, Choose(k) PROVE Good
  BY <1>q, <1>4 DEF Choose, places
<1>5. ASSUME NEW k \in Move, NEW i \in Instance, Created(k, i) PROVE Good
  <2>1. CASE j = i
    <3> DEFINE c == [op |-> "reply", nr |-> k, ok |-> TRUE]
    <3>1. posts[i] = <<>> /\ <<>> \in Seq({c}) /\ ~Refusal(c)
      BY <1>t, <1>5 DEF Created, Untouched, Refusal
    <3>2. posts'[i] = Append(<<>>, c)
      BY <1>t, <1>5, <3>1 DEF Created
    <3> HIDE DEF c
    <3>3. Warned(<<>>, view'[i])
      BY DEF Warned
    <3> QED
      BY <2>1, <3>1, <3>2, <3>3, WarnedPut
  <2>2. CASE j # i
    BY <1>0, <1>t, <1>5, <2>2 DEF Created
  <2> QED
    BY <2>1, <2>2
<1>6. ASSUME NEW z \in Zone, NEW n \in Pop, ZoneUpdated(z, n) PROVE Good
  BY <1>q, <1>6 DEF ZoneUpdated, places
<1>7. ASSUME NEW i \in Instance, InstanceUpdated(i) PROVE Good
  BY <1>p, <1>7 DEF InstanceUpdated, places
<1>8. ASSUME NEW i \in Instance, PlaceMaybeReserved(i) \/ ReplyToAway(i) PROVE Good
  <2>1. /\ posts[i] # <<>> /\ posts' = [posts EXCEPT ![i] = Tail(@)] /\ UNCHANGED <<made, view>>
        /\ Head(posts[i]).op # "open"
    BY <1>8 DEF PlaceMaybeReserved, ReplyToAway, places
  <2> QED
    BY <1>p, <2>1
<1>9. ASSUME NEW i \in Instance, Reserve(i) PROVE Good
  <2> DEFINE c(ok) == [op |-> "reply", nr |-> Head(calls[i]).nr, ok |-> ok]
  <2>1. UNCHANGED <<view, made>> /\ ~Refusal(c(TRUE)) /\ c(FALSE).op # "open"
    BY <1>9 DEF Reserve, Refusal
  <2>j. CASE j # i
    BY <1>0, <1>t, <1>9, <2>1, <2>j DEF Reserve
  <2>i. CASE j = i
    <3> j \in made /\ posts[j] \in Seq(Post) /\ open[j] \in Int
      BY <1>t, <2>1
    <3>2. CASE open[i] <= 0 /\ posts' = [posts EXCEPT ![i] = Append(@, c(FALSE))]
      <4> HIDE DEF c
      <4>1. posts'[j] = Append(posts[j], c(FALSE)) /\ open[j] <= 0
        BY <1>t, <3>2, <2>i
      <4>2. Warned(posts[j], view[j]) /\ Follows(posts[j], view[j], open[j])
        BY <1>0, <1>f
      <4> QED
        BY <2>1, <4>1, <4>2, WarnedPut
    <3>3. CASE posts' = [posts EXCEPT ![i] = Append(Announce(@, open[i] - 1), c(TRUE))]
      <4> HIDE DEF c
      <4> DEFINE e == [op |-> "open", n |-> open[j] - 1]
                 s == Append(posts[j], e)
      <4>1. posts'[j] = Append(s, c(TRUE))
        BY <1>t, <3>3, <2>i DEF Announce
      <4>2. s \in Seq(Post) /\ ~Refusal(e) /\ Warned(posts[j], view[j])
        BY <1>0, OpenPost DEF Refusal
      <4> HIDE DEF e
      <4>3. Warned(s, view[j])
        BY <4>2, WarnedPut
      <4> HIDE DEF s
      <4> QED
        BY <2>1, <4>1, <4>2, <4>3, WarnedPut
    <3> QED
      BY <1>9, <3>2, <3>3 DEF Reserve
  <2> QED
    BY <2>i, <2>j
<1>10. ASSUME NEW i \in Instance, NEW u, GiveUp(i, u), UNCHANGED <<view, made>> PROVE Good
  <2>1. CASE UNCHANGED posts
    BY <1>q, <1>10, <2>1
  <2>2. CASE /\ open' = [open EXCEPT ![i] = open[i] + 1]
             /\ posts' = [posts EXCEPT ![i] = Announce(@, open[i] + 1)]
    BY <1>a, <1>10, <2>2
  <2> QED
    BY <1>10, <2>1, <2>2 DEF GiveUp
<1>11. ASSUME NEW i \in Instance, Cancel(i) PROVE Good
  BY <1>10, <1>11 DEF Cancel
<1>12. ASSUME NEW i \in Instance, NEW u \in User, Expire(i, u) PROVE Good
  BY <1>10, <1>12 DEF Expire
<1>13. ASSUME NEW i \in Instance, Resize(i) PROVE Good
  <2> DEFINE n == Head(calls[i]).pop
  <2>1. /\ UNCHANGED <<view, made>>
        /\ posts' = IF n = maxPop[i] THEN posts
                    ELSE [posts EXCEPT ![i] = Announce(@, open[i] + (n - maxPop[i]))]
    BY <1>13 DEF Resize
  <2> HIDE DEF n
  <2>3. CASE n = maxPop[i]
    BY <1>q, <2>1, <2>3
  <2>4. CASE n # maxPop[i]
    BY <1>a, <2>1, <2>4
  <2> QED
    BY <2>3, <2>4
<1>14. ASSUME NEW u \in User, Go(u) PROVE Good
  <2>1. UNCHANGED <<view, made>>
    BY <1>14 DEF Go
  <2>2. CASE at[u] = None
    BY <1>q, <1>14, <2>1, <2>2 DEF Go
  <2>3. CASE at[u] # None
    <3>1. at[u] \in Instance
      BY <1>t, <2>3 DEF TypeOK
    <3>2. posts' = [posts EXCEPT ![at[u]] = Announce(@, open[at[u]] + 1)]
      BY <1>14, <2>3 DEF Go
    <3> QED
      BY <1>a, <2>1, <3>1, <3>2
  <2> QED
    BY <2>2, <2>3
<1>16. ASSUME NEW k \in Move, Returns(k) PROVE Good
  BY <1>t, <1>q, <1>16, Returned DEF places, queues
<1>15. CASE UNCHANGED vars
  BY <1>q, <1>15 DEF vars, places, queues
<1> QED
  <2>1. Roaming \subseteq User
    BY UserAssumption
  <2> QED
    BY <1>1, <1>2, <1>3, <1>4, <1>5, <1>6, <1>7, <1>8, <1>9, <1>11, <1>12, <1>13, <1>14, <1>15, <1>16, <2>1
       DEF Next, Returns

(* Whoever reads a refusal of an instance of this peer already believes    *)
(* that the instance is full: it announced that over the same queue        *)
(* (Instance::reservePlace).  The instances of other peers are not in this.*)
THEOREM FullFirstHolds == Spec => []FullFirst
<1>1. Init => FullFirst
  BY DEF Init, FullFirst
<1>2. IInv /\ ViewFollows /\ FullFirst /\ [Next]_vars => FullFirst'
  BY FullStep
<1> QED
  BY <1>1, <1>2, Invariance, ViewIsFollowing, PTL DEF Spec

LEMMA ElsewhereStep ==
  IInv /\ Travels /\ FullFirst /\ [Next]_vars =>
    [\A k \in Move : stage[k] = "reserving" /\ stage'[k] = "asked" => view[inst[k]] <= 0]_vars
<1> SUFFICES ASSUME IInv, Travels, FullFirst, Next, NEW k \in Move, stage[k] = "reserving", stage'[k] = "asked"
             PROVE  view[inst[k]] <= 0
  OBVIOUS
<1>t. /\ TypeOK /\ QueuesOK /\ Untouched /\ stage \in [Move -> Stage] /\ made \subseteq Instance
      /\ posts \in [Instance -> Seq(Post)]
  BY DEF IInv, TypeOK, QueuesOK
<1>1. \/ \E i \in Instance : PlaceMaybeReserved(i)
      \/ \E i \in Instance : ReplyToAway(i)
      \/ \E u \in User : Delete(u)
  <2>1. ASSUME NEW j \in Move, NEW u \in User, NEW z \in Zone, Ask(j, u, z) PROVE FALSE
    BY <1>t, <2>1 DEF Ask, Fresh
  <2>2. ASSUME NEW j \in Move, NEW u \in Roaming, NEW i \in Instance, AskFromAway(j, u, i) PROVE FALSE
    BY <1>t, <2>2 DEF AskFromAway
  <2>3. ASSUME NEW j \in Move, Choose(j) PROVE FALSE
    BY <1>t, <2>3 DEF Choose
  <2>4. ASSUME NEW j \in Move, NEW i \in Instance, Created(j, i) PROVE FALSE
    BY <1>t, <2>4 DEF Created
  <2>11. ASSUME NEW j \in Move, Returns(j) PROVE FALSE
    <3>1. stage[j] # "reserving" /\ \E s \in {"asked", "done"} : stage' = [stage EXCEPT ![j] = s]
      BY <1>t, <2>11, Returned
    <3> QED
      BY <1>t, <3>1
  <2>5. ASSUME NEW u \in User, Enter(u) PROVE FALSE
    BY <1>t, <2>5 DEF Enter
  <2>6. ASSUME UNCHANGED stage PROVE FALSE
    BY <2>6
  <2>7. ASSUME NEW u \in User, Login(u) \/ Close(u) \/ SessionRemoved(u) \/ Go(u) PROVE FALSE
    BY <2>6, <2>7 DEF Login, Close, SessionRemoved, Go, moves
  <2>8. ASSUME NEW z \in Zone, NEW n \in Pop, ZoneUpdated(z, n) PROVE FALSE
    BY <2>6, <2>8 DEF ZoneUpdated, moves
  <2>9. ASSUME NEW i \in Instance, InstanceUpdated(i) \/ Reserve(i) \/ Cancel(i) \/ Resize(i) PROVE FALSE
    BY <2>6, <2>9 DEF InstanceUpdated, Reserve, Cancel, Resize, moves
  <2>10. ASSUME NEW i \in Instance, NEW u \in User, Expire(i, u) PROVE FALSE
    BY <2>6, <2>10 DEF Expire, moves
  <2> QED
    BY <2>1, <2>2, <2>3, <2>4, <2>5, <2>7, <2>8, <2>9, <2>10, <2>11 DEF Next, Returns
<1>2. ASSUME NEW u \in User, Delete(u) PROVE FALSE
  BY <1>t, <1>2 DEF Delete
<1>3. ASSUME NEW i \in Instance, ReplyToAway(i) PROVE FALSE
  BY <1>t, <1>3 DEF ReplyToAway
<1>4. ASSUME NEW i \in Instance, PlaceMaybeReserved(i) PROVE view[inst[k]] <= 0
  <2> DEFINE c == Head(posts[i])
  <2>1. posts[i] # <<>> /\ c.op = "reply" /\ c \in Post /\ c.nr \in Move /\ posts[i] \in Seq(Post)
    BY <1>t, <1>4, HeadPost DEF PlaceMaybeReserved, Post, Placed
  <2>2. k = c.nr /\ ~c.ok
    BY <1>t, <1>4 DEF PlaceMaybeReserved
  <2>3. i \in made
    BY <1>t, <2>1 DEF Untouched
  <2>4. c = posts[i][1] /\ 1 \in DOMAIN posts[i]
    BY <2>1
  <2> HIDE DEF c
  <2>5. k \in Replying(i)
    BY <2>1, <2>2, <2>4 DEF Replying, Numbers
  <2>6. inst[k] = i
    BY <2>5, <2>3, <1>t DEF Travels, Once
  <2>7. Warned(posts[i], view[i])
    BY <2>3 DEF FullFirst, Warned, Heard, Refusal
  <2>8. Refusal(Head(posts[i]))
    BY <2>1, <2>2 DEF Refusal, c
  <2> QED
    BY <2>1, <2>6, <2>7, <2>8, WarnedRead
<1> QED
  BY <1>1, <1>2, <1>3, <1>4

(* A request that an instance of this peer refuses is not reissued to it   *)
(* (PeerManager::instancePlaceMaybeReserved).  An instance of another peer *)
(* may well be asked again: its refusal and its count come over different  *)
(* sockets, and without a Peer for it the refusal comes with no count.     *)
THEOREM RefusedLooksElsewhere == Spec => LooksElsewhere
<1>1. IInv /\ Travels /\ FullFirst /\ [Next]_vars =>
        [\A k \in Move : stage[k] = "reserving" /\ stage'[k] = "asked" => view[inst[k]] <= 0]_vars
  BY ElsewhereStep
<1> QED
  BY <1>1, Invariance, TravelsHolds, FullFirstHolds, PTL DEF Spec, LooksElsewhere

=============================================================================
