------------------------ MODULE WatchlistRetry_proofs ------------------------
(***************************************************************************)
(* Proofs about WatchlistRetry, for every number of clients, names,        *)
(* requests, attempts and commits, and every sequence of crashes and power *)
(* losses.                                                                 *)
(***************************************************************************)
EXTENDS WatchlistRetry, TLAPS

Ids == (Clients \cup {None}) \X Nat \X Nat

Rows == [name : Names, birth : Ids \cup {None}]
Images == UNION {[S -> Rows] : S \in SUBSET (1..MaxCommits + 1)}

Wish ==
  [kind : {"POST"}, name : Names, id : {None}, meant : {None}]
  \cup [kind : {"PUT"}, name : Names, id : Nat, meant : Ids \cup {None}]
  \cup [kind : {"DELETE"}, name : {None}, id : Nat, meant : Ids \cup {None}]

Attempts ==
  [client : Clients, serial : Nat, try : Nat, request : Wish, known : SUBSET Ids,
   stamp : Nat, status : {"sent", "waiting", "ok", "refused"}]

Entries ==
  [image : Images, client : Clients \cup {None}, serial : Nat, try : Nat,
   request : Wish \cup {None}, known : SUBSET Ids, stamp : Nat, when : Nat]

\* Every variable holds what a client, a handler or SQLite can put there, and the
\* first image is durable.
Shaped ==
  /\ log \in Seq(Entries) /\ synced \in 1..Len(log)
  /\ clock \in Nat
  /\ flight \in SUBSET Attempts
  /\ request \in [Clients -> Wish \cup {None}]
  /\ serial \in [Clients -> Nat] /\ tries \in [Clients -> Nat]
  /\ acked \in SUBSET Ids

\* The commits after the first image.
Later == 2..Len(log)

\* The attempt k has been sent.
Issued(k) ==
  /\ k[1] \in Clients /\ k[2] \in 1..serial[k[1]]
  /\ k[2] = serial[k[1]] /\ request[k[1]] # None => k[3] <= tries[k[1]]

InLog(k) == \E i \in 1..Len(log) : Id(log[i]) = k

\* Attempts have been sent, no two in flight are the same one, and an attempt that
\* was done is in the log.
Numbered ==
  /\ \A a \in flight : Issued(Id(a)) /\ (a.status = "ok" => InLog(Id(a)))
  /\ \A a, b \in flight : Id(a) = Id(b) => a = b
  /\ \A c \in Clients : request[c] # None => serial[c] > 0
  /\ log[1].serial = 0
  /\ \A i \in Later : Issued(Id(log[i]))

\* The attempt k has been sent and is over.
Over(k) == Issued(k) /\ \A a \in flight : Id(a) # k

\* What anybody has been told is over, and in the log; and what was known to the
\* sender of a commit was in the log before it.
Learnt ==
  /\ \A k \in acked : Over(k) /\ InLog(k)
  /\ \A a \in flight : \A k \in a.known : Over(k) /\ InLog(k)
  /\ \A i \in 1..Len(log) : \A k \in log[i].known :
       Over(k) /\ \E j \in 1..i : Id(log[j]) = k

\* A handler that waits for the lock read its clock after every commit its client
\* knew of.
Stamped ==
  /\ \A i \in 1..Len(log) : log[i].when <= clock
  /\ \A a \in flight : a.status = "waiting" =>
       \A i \in 1..Len(log) : Id(log[i]) \in a.known => log[i].when <= a.stamp
  /\ StampsFollowAcks

\* The attempts of one request ask for one thing.
Constant ==
  /\ \A a \in flight : a.serial = serial[a.client] /\ request[a.client] # None =>
       a.request = request[a.client]
  /\ \A i \in Later :
       LET e == log[i] IN
       e.serial = serial[e.client] /\ request[e.client] # None =>
         e.request = request[e.client]
  /\ \A a, b \in flight : SameRequest(a, b) => a.request = b.request
  /\ \A a \in flight, i \in Later :
       SameRequest(a, log[i]) => log[i].request = a.request

\* Request r would find nothing left to do in image m.
Satisfied(r, m) ==
  \/ r.kind = "POST" /\ \E i \in DOMAIN m : m[i].name = r.name
  \/ r.kind = "PUT" /\ r.id \in DOMAIN m /\ m[r.id].name = r.name
  \/ r.kind = "DELETE" /\ r.id \notin DOMAIN m

Effective ==
  /\ \A i \in Later : Satisfied(log[i].request, log[i].image)
  /\ QuietRetryIsNoop

\* The inductive invariant.
RetryInv == Shaped /\ Numbered /\ Learnt /\ Stamped /\ Constant /\ Effective

-----------------------------------------------------------------------------
(* What a commit does                                                       *)

\* The first image is never lost.
LEMMA ImageIsOne ==
  ASSUME Shaped
  PROVE  Len(log) \in Nat \ {0} /\ log[Len(log)] \in Entries /\ Image \in Images
  <1>1. Len(log) \in Nat \ {0} /\ log[Len(log)] \in Entries
    BY DEF Shaped
  <1>2. QED BY <1>1 DEF Image, Entries

LEMMA CreateEffect ==
  ASSUME NEW m \in Images, NEW i \in 1..MaxCommits + 1, NEW row \in Rows
  PROVE  /\ With(m, i, row) \in Images
         /\ i \in DOMAIN With(m, i, row) /\ With(m, i, row)[i] = row
  <1>1. PICK S \in SUBSET (1..MaxCommits + 1) : m \in [S -> Rows]
    BY DEF Images
  <1>2. With(m, i, row) \in [S \cup {i} -> Rows]
    BY <1>1 DEF With
  <1>3. QED BY <1>1, <1>2 DEF Images, With

LEMMA DeleteEffect ==
  ASSUME NEW m \in Images, NEW i
  PROVE  /\ [k \in DOMAIN m \ {i} |-> m[k]] \in Images
         /\ i \notin DOMAIN [k \in DOMAIN m \ {i} |-> m[k]]
  <1>1. PICK S \in SUBSET (1..MaxCommits + 1) : m \in [S -> Rows]
    BY DEF Images
  <1>2. [k \in DOMAIN m \ {i} |-> m[k]] \in [S \ {i} -> Rows]
    BY <1>1
  <1>3. QED BY <1>1, <1>2 DEF Images

\* What a request leaves is what it asked for; and where it finds that already, it
\* changes nothing.
LEMMA EffectsSatisfy ==
  ASSUME NEW a \in Attempts, Image \in Images, NEW m \in Effects(a)
  PROVE  /\ m \in Images
         /\ Satisfied(a.request, m)
         /\ Satisfied(a.request, Image) => m = Image
  <1> DEFINE r == a.request
  <1>1. r \in Wish /\ Id(a) \in Ids
    BY DEF Attempts, Id, Ids
  <1>2. DOMAIN Image \subseteq Nat
    <2>1. PICK S \in SUBSET (1..MaxCommits + 1) : Image \in [S -> Rows]
      BY DEF Images
    <2>2. QED BY <2>1
  <1>3. CASE r.kind = "POST"
    <2>1. r.name \in Names
      BY <1>1, <1>3 DEF Wish
    <2>2. CASE ~NameTaken(Image, r.name, None)
      <3>1. PICK i \in 1..MaxCommits + 1 :
              m = With(Image, i, [name |-> r.name, birth |-> Id(a)])
        BY <1>3, <2>2 DEF Effects
      <3> DEFINE row == [name |-> r.name, birth |-> Id(a)]
      <3>2. row \in Rows /\ row.name = r.name
        BY <1>1, <2>1 DEF Rows
      <3> HIDE DEF row
      <3>3. /\ m \in Images
            /\ i \in DOMAIN m /\ m[i] = row
        BY <3>1, <3>2, CreateEffect DEF row
      <3>4. ~Satisfied(r, Image)
        BY <1>2, <1>3, <2>2, NoneAssumption DEF Satisfied, NameTaken
      <3>5. QED BY <1>3, <3>2, <3>3, <3>4 DEF Satisfied
    <2>3. CASE NameTaken(Image, r.name, None)
      BY <1>3, <2>3 DEF Effects
    <2>4. QED BY <2>2, <2>3
  <1>4. CASE r.kind = "PUT"
    <2>1. r.name \in Names
      BY <1>1, <1>4 DEF Wish
    <2>2. r.id \in DOMAIN Image /\ m = [Image EXCEPT ![r.id].name = r.name]
      BY <1>4 DEF Effects
    <2>3. /\ m \in Images /\ r.id \in DOMAIN m /\ m[r.id].name = r.name
          /\ Image[r.id].name = r.name => m = Image
      <3> DEFINE row == [Image[r.id] EXCEPT !.name = r.name]
      <3>1. PICK S \in SUBSET (1..MaxCommits + 1) : Image \in [S -> Rows]
        BY DEF Images
      <3>2. Image[r.id] \in Rows
        BY <2>2, <3>1
      <3>3. /\ row \in Rows /\ row.name = r.name
            /\ Image[r.id].name = r.name => row = Image[r.id]
        BY <2>1, <3>2 DEF Rows
      <3>4. m = [Image EXCEPT ![r.id] = row]
        BY <2>2
      <3> HIDE DEF row
      <3>5. m \in [S -> Rows]
        BY <3>1, <3>3, <3>4
      <3>6. QED BY <2>2, <3>1, <3>3, <3>4, <3>5 DEF Images
    <2>4. QED BY <1>4, <2>2, <2>3 DEF Satisfied
  <1>5. CASE r.kind = "DELETE"
    <2>1. r.id \in DOMAIN Image /\ m = [i \in DOMAIN Image \ {r.id} |-> Image[i]]
      BY <1>5 DEF Effects
    <2>2. m \in Images /\ r.id \notin DOMAIN m
      BY <2>1, DeleteEffect
    <2>3. QED BY <1>5, <2>1, <2>2 DEF Satisfied
  <1>6. r.kind \in {"POST", "PUT", "DELETE"}
    BY <1>1 DEF Wish
  <1>7. QED BY <1>3, <1>4, <1>5, <1>6

\* A commit adds one entry, for its attempt.
LEMMA CommitAppends ==
  ASSUME Shaped, NEW a \in flight, Commit(a)
  PROVE  \E e \in Entries :
           /\ log' = Append(log, e) /\ e.image \in Effects(a)
           /\ e.client = a.client /\ e.serial = a.serial /\ e.try = a.try
           /\ e.request = a.request /\ e.known = a.known
           /\ e.stamp = a.stamp /\ e.when = clock
  <1>1. PICK m \in Effects(a) :
          log' = Append(log, [image |-> m, client |-> a.client, serial |-> a.serial,
                              try |-> a.try, request |-> a.request, known |-> a.known,
                              stamp |-> a.stamp, when |-> clock])
    BY DEF Commit
  <1>2. a \in Attempts /\ clock \in Nat
    BY DEF Shaped
  <1>3. m \in Images
    BY <1>2, ImageIsOne, EffectsSatisfy
  <1>4. [image |-> m, client |-> a.client, serial |-> a.serial,
         try |-> a.try, request |-> a.request, known |-> a.known,
         stamp |-> a.stamp, when |-> clock] \in Entries
    BY <1>2, <1>3 DEF Attempts, Entries
  <1>5. QED BY <1>1, <1>4

LEMMA Appended ==
  ASSUME Shaped, NEW e \in Entries, log' = Append(log, e)
  PROVE  /\ log' \in Seq(Entries) /\ Len(log') = Len(log) + 1
         /\ \A i \in 1..Len(log) : log'[i] = log[i]
         /\ log'[Len(log) + 1] = e
  BY DEF Shaped

-----------------------------------------------------------------------------
(* Types                                                                    *)

\* What a client wants is a wish.
LEMMA WishesAreWishes ==
  ASSUME Shaped, NEW r \in Wishes
  PROVE  r \in Wish
  <1>1. PICK S \in SUBSET (1..MaxCommits + 1) : Image \in [S -> Rows]
    BY ImageIsOne DEF Images
  <1>2. \A i \in DOMAIN Image : i \in Nat /\ Image[i].birth \in Ids \cup {None}
    BY <1>1 DEF Rows
  <1>3. QED BY <1>2 DEF Wishes, Wish

\* A new attempt, as the client knows it.
LEMMA AttemptIsOne ==
  ASSUME Shaped, NEW c \in Clients, NEW r \in Wish, NEW s \in Nat, NEW n \in Nat
  PROVE  Attempt(c, r, s, n) \in Attempts
  BY DEF Shaped, Attempt, Attempts

\* The attempt a client sends, for the first time or again.
Sends(c, new) ==
  /\ new \in Attempts /\ new \in flight' /\ flight' \subseteq flight \cup {new}
  /\ new.client = c /\ new.serial = serial'[c] /\ new.try = tries'[c]
  /\ request'[c] = new.request
  /\ new.known = acked /\ new.status = "sent"
  /\ UNCHANGED <<log, synced, clock, acked>>

LEMMA SendSends ==
  ASSUME Shaped, NEW c \in Clients, Send(c)
  PROVE  \E r \in Wish, new \in Attempts :
           /\ Sends(c, new) /\ new.request = r
           /\ request' = [request EXCEPT ![c] = r]
           /\ serial' = [serial EXCEPT ![c] = @ + 1]
           /\ tries' = [tries EXCEPT ![c] = 1]
  <1>1. PICK r \in Wishes :
          /\ request' = [request EXCEPT ![c] = r]
          /\ flight' = flight \cup {Attempt(c, r, serial[c] + 1, 1)}
    BY DEF Send
  <1>2. r \in Wish
    BY <1>1, WishesAreWishes
  <1> DEFINE new == Attempt(c, r, serial[c] + 1, 1)
  <1>3. new \in Attempts
    BY <1>2, AttemptIsOne DEF Shaped
  <1>4. /\ new.client = c /\ new.serial = serial[c] + 1 /\ new.try = 1
        /\ new.request = r /\ new.known = acked /\ new.status = "sent"
    BY DEF Attempt
  <1> HIDE DEF new
  <1>5. Sends(c, new)
    BY <1>1, <1>3, <1>4 DEF Send, Sends, Shaped, new
  <1>6. QED BY <1>1, <1>2, <1>3, <1>4, <1>5 DEF Send

LEMMA SendAgainSends ==
  ASSUME Shaped, NEW c \in Clients, SendAgain(c)
  PROVE  \E new \in Attempts :
           /\ Sends(c, new) /\ new.request = request[c] /\ request[c] # None
           /\ request' = request /\ serial' = serial
           /\ tries' = [tries EXCEPT ![c] = @ + 1]
  <1> DEFINE new == Attempt(c, request[c], serial[c], tries[c] + 1)
  <1>1. new \in Attempts
    BY AttemptIsOne DEF Shaped, SendAgain
  <1>2. /\ new.client = c /\ new.serial = serial[c] /\ new.try = tries[c] + 1
        /\ new.request = request[c] /\ new.known = acked /\ new.status = "sent"
    BY DEF Attempt
  <1>3. new \in flight' /\ flight' \subseteq flight \cup {new}
    BY DEF SendAgain
  <1> HIDE DEF new
  <1>4. Sends(c, new)
    BY <1>1, <1>2, <1>3 DEF SendAgain, Sends, Shaped
  <1>5. QED BY <1>1, <1>2, <1>4 DEF SendAgain

\* The same attempt at another point of its way.
Alike(a, b) ==
  /\ a.client = b.client /\ a.serial = b.serial /\ a.try = b.try
  /\ a.request = b.request /\ a.known = b.known

\* A handler's step puts its attempt further, or away.
Moves(a, b) ==
  /\ b \in Attempts /\ Alike(a, b)
  /\ flight' \subseteq (flight \ {a}) \cup {b}
  /\ UNCHANGED <<synced, clock, request, serial, tries, acked>>

LEMMA EnterMoves ==
  ASSUME Shaped, NEW a \in flight, Enter(a)
  PROVE  \E b : Moves(a, b) /\ b.status = "waiting" /\ b.stamp = clock /\ log' = log
  <1> DEFINE b == [a EXCEPT !.stamp = Now, !.status = "waiting"]
  <1>1. a \in Attempts /\ clock \in Nat
    BY DEF Shaped
  <1>2. /\ b \in Attempts /\ Alike(a, b) /\ b.status = "waiting" /\ b.stamp = clock
    BY <1>1 DEF Attempts, Alike, Now
  <1>3. flight' = (flight \ {a}) \cup {b}
    BY DEF Enter
  <1> HIDE DEF b
  <1>4. Moves(a, b) /\ log' = log
    BY <1>2, <1>3 DEF Moves, Enter
  <1>5. QED BY <1>2, <1>4

LEMMA FinishMoves ==
  ASSUME Shaped, NEW a \in flight, NEW status \in {"ok", "refused"}, Finish(a, status),
         UNCHANGED <<synced, clock, request, serial, tries, acked>>
  PROVE  \E b : Moves(a, b) /\ b.status = status
  <1> DEFINE b == [a EXCEPT !.status = status]
  <1>1. a \in Attempts
    BY DEF Shaped
  <1>2. b \in Attempts /\ Alike(a, b) /\ b.status = status
    BY <1>1 DEF Attempts, Alike
  <1>3. flight' \subseteq (flight \ {a}) \cup {b}
    BY DEF Finish
  <1> HIDE DEF b
  <1>4. Moves(a, b)
    BY <1>2, <1>3 DEF Moves
  <1>5. QED BY <1>2, <1>4

\* What is left of the log after a power loss is a beginning of it.
LEMMA PowerLossCuts ==
  ASSUME Shaped, PowerLoss
  PROVE  /\ log' \in Seq(Entries) /\ synced \in 1..Len(log') /\ Len(log') <= Len(log)
         /\ \A i \in 1..Len(log') : log'[i] = log[i]
         /\ \A k \in acked' : k \in acked /\ \E i \in 1..Len(log') : Id(log'[i]) = k
         /\ flight' = {} /\ UNCHANGED <<synced, clock, request, serial, tries>>
  <1>1. PICK n \in synced..Len(log) :
          log' = SubSeq(log, 1, n) /\ acked' = Restrict(SubSeq(log, 1, n))
    BY DEF PowerLoss
  <1>2. n \in 1..Len(log) /\ synced <= n
    BY <1>1 DEF Shaped
  <1>3. /\ log' \in Seq(Entries) /\ Len(log') = n
        /\ \A i \in 1..n : log'[i] = log[i]
    BY <1>1, <1>2 DEF Shaped
  <1>4. \A k \in acked' : k \in acked /\ \E i \in 1..Len(log') : Id(log'[i]) = k
    BY <1>1 DEF Restrict
  <1>5. QED BY <1>2, <1>3, <1>4 DEF PowerLoss, Shaped

LEMMA IdsAreIds ==
  ASSUME Shaped
  PROVE  /\ \A a \in flight : Id(a) \in Ids /\ a.known \subseteq Ids
         /\ \A i \in 1..Len(log) : /\ log[i] \in Entries
                                  /\ Id(log[i]) \in Ids /\ log[i].known \subseteq Ids
  <1>1. \A a \in Attempts : Id(a) \in Ids /\ a.known \subseteq Ids
    BY DEF Attempts, Id, Ids
  <1>2. \A e \in Entries : Id(e) \in Ids /\ e.known \subseteq Ids
    BY DEF Entries, Id, Ids
  <1>3. QED BY <1>1, <1>2 DEF Shaped

LEMMA ShapedStep ==
  ASSUME Shaped, [Next]_vars
  PROVE  Shaped'
  <1>1. ASSUME NEW c \in Clients, Send(c) PROVE Shaped'
    <2>1. PICK r \in Wish, new \in Attempts :
            /\ Sends(c, new)
            /\ request' = [request EXCEPT ![c] = r]
            /\ serial' = [serial EXCEPT ![c] = @ + 1]
            /\ tries' = [tries EXCEPT ![c] = 1]
      BY <1>1, SendSends
    <2>2. QED BY <2>1 DEF Sends, Shaped
  <1>2. ASSUME NEW c \in Clients, SendAgain(c) PROVE Shaped'
    <2>1. PICK new \in Attempts :
            /\ Sends(c, new) /\ request' = request /\ serial' = serial
            /\ tries' = [tries EXCEPT ![c] = @ + 1]
      BY <1>2, SendAgainSends
    <2>2. QED BY <2>1 DEF Sends, Shaped
  <1>3. ASSUME NEW a \in flight, Enter(a) \/ Refuse(a) PROVE Shaped'
    <2>1. log' = log /\ \E b : Moves(a, b)
      BY <1>3, EnterMoves, FinishMoves DEF Enter, Refuse
    <2>2. QED BY <2>1 DEF Moves, Shaped
  <1>4. ASSUME NEW a \in flight, Commit(a) PROVE Shaped'
    <2>1. \E b : Moves(a, b)
      BY <1>4, FinishMoves DEF Commit
    <2>2. log' \in Seq(Entries) /\ Len(log') = Len(log) + 1
      BY <1>4, CommitAppends, Appended
    <2>3. QED BY <2>1, <2>2 DEF Moves, Shaped
  <1>5. ASSUME NEW a \in flight, Deliver(a) PROVE Shaped'
    <2>1. a \in Attempts
      BY DEF Shaped
    <2>2. Id(a) \in Ids
      BY <2>1 DEF Attempts, Id, Ids
    <2>3. QED BY <1>5, <2>1, <2>2 DEF Deliver, Shaped, Attempts
  <1>6. CASE Tick \/ Checkpoint \/ Crash
    BY <1>6 DEF Tick, Checkpoint, Crash, Shaped
  <1>7. CASE PowerLoss
    BY <1>7, PowerLossCuts DEF Shaped
  <1>8. CASE UNCHANGED vars
    BY <1>8 DEF vars, Shaped
  <1>9. QED
    BY <1>1, <1>2, <1>3, <1>4, <1>5, <1>6, <1>7, <1>8
       DEF Next, Client, Service, Faults

-----------------------------------------------------------------------------
(* A client sends                                                           *)

LEMMA SentKeeps ==
  ASSUME RetryInv, Shaped', NEW c \in Clients, NEW new, Sends(c, new),
         ~Issued(Id(new)), Issued(Id(new))', \A k \in Ids : Issued(k) => Issued(k)',
         \A o \in Clients : request'[o] # None => serial'[o] > 0
  PROVE  Numbered' /\ Learnt' /\ Stamped'
  <1> USE DEF RetryInv
  <1>1. /\ log' = log /\ clock' = clock /\ acked' = acked
        /\ flight' \subseteq flight \cup {new}
        /\ new.known = acked /\ new.status = "sent"
    BY DEF Sends
  <1>2. \A k : InLog(k) <=> InLog(k)'
    BY <1>1 DEF InLog
  <1>3. \A a \in flight : Id(a) # Id(new)
    BY DEF Numbered
  <1>4. \A k \in Ids : Over(k) => Over(k)'
    BY <1>1 DEF Over
  <1>0. /\ \A a \in flight : Id(a) \in Ids /\ a.known \subseteq Ids
        /\ \A i \in 1..Len(log) : Id(log[i]) \in Ids /\ log[i].known \subseteq Ids
        /\ acked \subseteq Ids
    BY IdsAreIds DEF Shaped
  <1>5. Numbered'
    <2>1. \A a \in flight' : Issued(Id(a))' /\ (a.status = "ok" => InLog(Id(a))')
      BY <1>0, <1>1, <1>2 DEF Numbered
    <2>2. \A a, b \in flight' : Id(a) = Id(b) => a = b
      BY <1>1, <1>3 DEF Numbered
    <2>3. log'[1].serial = 0 /\ \A i \in Later' : Issued(Id(log[i]))'
      BY <1>0, <1>1 DEF Numbered, Later
    <2>4. QED BY <1>1, <2>1, <2>2, <2>3 DEF Numbered
  <1>6. Learnt'
    <2>1. \A k \in acked' : Over(k)' /\ InLog(k)'
      BY <1>0, <1>1, <1>2, <1>4 DEF Learnt
    <2>2. \A a \in flight' : \A k \in a.known : Over(k)' /\ InLog(k)'
      BY <1>0, <1>1, <1>2, <1>4 DEF Learnt
    <2>3. \A i \in 1..Len(log) : \A k \in log[i].known :
            Over(k)' /\ \E j \in 1..i : Id(log[j]) = k
      BY <1>0, <1>4 DEF Learnt
    <2>4. QED BY <1>1, <2>1, <2>2, <2>3 DEF Learnt
  <1>7. Stamped'
    BY <1>1 DEF Stamped, StampsFollowAcks
  <1>8. QED BY <1>5, <1>6, <1>7

LEMMA SendKeeps ==
  ASSUME RetryInv, NEW c \in Clients, Send(c)
  PROVE  RetryInv'
  <1> USE DEF RetryInv
  <1>1. PICK r \in Wish, new \in Attempts :
          /\ Sends(c, new) /\ new.request = r
          /\ request' = [request EXCEPT ![c] = r]
          /\ serial' = [serial EXCEPT ![c] = @ + 1]
          /\ tries' = [tries EXCEPT ![c] = 1]
    BY SendSends
  <1>2. Shaped'
    BY ShapedStep DEF Next, Client
  <1>3. /\ serial'[c] = serial[c] + 1 /\ tries'[c] = 1 /\ serial[c] \in Nat
        /\ \A o \in Clients \ {c} : /\ serial'[o] = serial[o] /\ tries'[o] = tries[o]
                                     /\ request'[o] = request[o]
    BY <1>1 DEF Shaped
  <1>4. Id(new) = <<c, serial[c] + 1, 1>>
    BY <1>1, <1>3 DEF Sends, Id
  <1>5. ~Issued(Id(new)) /\ Issued(Id(new))'
    BY <1>3, <1>4 DEF Issued
  <1>6. ASSUME NEW k, Issued(k) PROVE Issued(k)' /\ (k[1] = c => k[2] # serial'[c])
    <2>1. CASE k[1] = c
      BY <1>3, <1>6, <2>1 DEF Issued
    <2>2. CASE k[1] # c
      BY <1>3, <1>6, <2>2 DEF Issued, Shaped
    <2>3. QED BY <2>1, <2>2
  <1>7. Numbered' /\ Learnt' /\ Stamped'
    <2>1. \A o \in Clients : request'[o] # None => serial'[o] > 0
      BY <1>3 DEF Numbered
    <2>2. QED BY <1>1, <1>2, <1>5, <1>6, <2>1, SentKeeps
  <1>8. Constant'
    <2>1. /\ log' = log /\ flight' \subseteq flight \cup {new}
          /\ new.client = c /\ new.serial = serial'[c] /\ request'[c] = new.request
      BY <1>1 DEF Sends
    <2> DEFINE Old(e) == e.client \in Clients /\ (e.client = c => e.serial # serial'[c])
    <2>0. ASSUME NEW e, Issued(Id(e)) PROVE Old(e)
      <3>1. Id(e)[1] = e.client /\ Id(e)[2] = e.serial
        BY DEF Id
      <3>2. Id(e)[1] = c => Id(e)[2] # serial'[c]
        BY <1>6, <2>0
      <3>3. Id(e)[1] \in Clients
        BY <2>0 DEF Issued
      <3>4. QED BY <3>1, <3>2, <3>3
    <2>2. \A a \in flight : Old(a)
      BY <2>0 DEF Numbered
    <2>3. \A i \in Later : Old(log[i])
      BY <2>0 DEF Numbered
    <2>4. \A a \in flight' :
            a.serial = serial'[a.client] /\ request'[a.client] # None =>
              a.request = request'[a.client]
      BY <1>3, <2>1, <2>2 DEF Constant
    <2>5. ASSUME NEW i \in Later, log[i].serial = serial'[log[i].client],
                 request'[log[i].client] # None
          PROVE  log[i].request = request'[log[i].client]
      <3>1. log[i].client \in Clients \ {c}
        BY <2>3, <2>5
      <3>2. QED BY <1>3, <2>5, <3>1 DEF Constant
    <2>6. \A a, b \in flight' : SameRequest(a, b) => a.request = b.request
      BY <2>1, <2>2 DEF Constant, SameRequest
    <2>7. \A a \in flight', i \in Later :
            SameRequest(a, log[i]) => log[i].request = a.request
      BY <2>1, <2>3 DEF Constant, SameRequest
    <2>8. QED BY <2>1, <2>4, <2>5, <2>6, <2>7 DEF Constant, Later
  <1>9. Effective'
    BY <1>1 DEF Sends, Effective, Later, QuietRetryIsNoop
  <1>10. QED BY <1>2, <1>7, <1>8, <1>9

LEMMA SendAgainKeeps ==
  ASSUME RetryInv, NEW c \in Clients, SendAgain(c)
  PROVE  RetryInv'
  <1> USE DEF RetryInv
  <1>1. PICK new \in Attempts :
          /\ Sends(c, new) /\ new.request = request[c] /\ request[c] # None
          /\ request' = request /\ serial' = serial
          /\ tries' = [tries EXCEPT ![c] = @ + 1]
    BY SendAgainSends
  <1>2. Shaped'
    BY ShapedStep DEF Next, Client
  <1>3. /\ tries'[c] = tries[c] + 1 /\ tries[c] \in Nat /\ serial[c] \in Nat
        /\ \A o \in Clients \ {c} : tries'[o] = tries[o]
    BY <1>1 DEF Shaped
  <1>4. serial[c] > 0
    BY <1>1 DEF Numbered
  <1>5. Id(new) = <<c, serial[c], tries[c] + 1>>
    BY <1>1, <1>3 DEF Sends, Id
  <1>6. ~Issued(Id(new)) /\ Issued(Id(new))'
    BY <1>1, <1>3, <1>4, <1>5 DEF Issued
  <1>7. ASSUME NEW k \in Ids, Issued(k) PROVE Issued(k)'
    <2>1. CASE k[1] = c
      BY <1>1, <1>3, <1>7, <2>1 DEF Issued, Ids
    <2>2. CASE k[1] # c
      BY <1>1, <1>3, <1>7, <2>2 DEF Issued
    <2>3. QED BY <2>1, <2>2
  <1>8. Numbered' /\ Learnt' /\ Stamped'
    <2>1. \A o \in Clients : request'[o] # None => serial'[o] > 0
      BY <1>1 DEF Numbered
    <2>2. QED BY <1>1, <1>2, <1>6, <1>7, <2>1, SentKeeps
  <1>9. Constant'
    <2>1. /\ log' = log /\ flight' \subseteq flight \cup {new}
          /\ new.client = c /\ new.serial = serial[c] /\ new.request = request[c]
          /\ serial' = serial /\ request' = request
      BY <1>1 DEF Sends
    <2>2. \A a \in flight' : a.serial = serial[a.client] /\ request[a.client] # None =>
                             a.request = request[a.client]
      BY <2>1 DEF Constant
    <2>3. \A a, b \in flight' : SameRequest(a, b) => a.request = b.request
      BY <1>1, <2>1 DEF Constant, SameRequest
    <2>4. \A a \in flight', i \in Later :
            SameRequest(a, log[i]) => log[i].request = a.request
      BY <1>1, <2>1 DEF Constant, SameRequest
    <2>5. QED BY <2>1, <2>2, <2>3, <2>4 DEF Constant, Later
  <1>10. Effective'
    BY <1>1 DEF Sends, Effective, Later, QuietRetryIsNoop
  <1>11. QED BY <1>2, <1>8, <1>9, <1>10

-----------------------------------------------------------------------------
(* A handler goes on                                                        *)

\* What is over stays over, and nobody in flight knows of more than before.
LEMMA MovedKeeps ==
  ASSUME RetryInv, NEW a \in flight, NEW b, Moves(a, b),
         Len(log) <= Len(log)', Len(log)' \in Nat,
         \A i \in 1..Len(log) : log'[i] = log[i],
         b.status = "ok" => InLog(Id(b))'
  PROVE  /\ \A k : Issued(k) => Issued(k)'
         /\ \A k : Over(k) => Over(k)'
         /\ \A k : InLog(k) => InLog(k)'
         /\ \A f \in flight' : /\ Issued(Id(f))' /\ (f.status = "ok" => InLog(Id(f))')
                               /\ \A k \in f.known : Over(k)' /\ InLog(k)'
         /\ \A f, g \in flight' : Id(f) = Id(g) => f = g
         /\ \A k \in acked' : Over(k)' /\ InLog(k)'
  <1> USE DEF RetryInv
  <1>1. /\ Id(b) = Id(a) /\ b.known = a.known
        /\ flight' \subseteq (flight \ {a}) \cup {b}
        /\ UNCHANGED <<request, serial, tries, acked>>
    BY DEF Moves, Alike, Id
  <1>2. \A k : Issued(k) => Issued(k)'
    BY <1>1 DEF Issued
  <1>3. \A k : Over(k) => Over(k)'
    BY <1>1, <1>2 DEF Over
  <1>4. ASSUME NEW k, InLog(k) PROVE InLog(k)'
    <2>1. PICK i \in 1..Len(log) : Id(log[i]) = k
      BY <1>4 DEF InLog
    <2>2. i \in 1..Len(log)' /\ log'[i] = log[i]
      BY ImageIsOne
    <2>3. QED BY <2>1, <2>2 DEF InLog
  <1>5. \A f \in flight' : /\ Issued(Id(f))' /\ (f.status = "ok" => InLog(Id(f))')
                           /\ \A k \in f.known : Over(k)' /\ InLog(k)'
    <2>1. ASSUME NEW f \in flight
          PROVE  /\ Issued(Id(f))' /\ (f.status = "ok" => InLog(Id(f))')
                 /\ \A k \in f.known : Over(k)' /\ InLog(k)'
      BY <1>2, <1>3, <1>4 DEF Numbered, Learnt
    <2>2. Issued(Id(b))' /\ \A k \in b.known : Over(k)' /\ InLog(k)'
      BY <1>1, <2>1
    <2>3. QED BY <1>1, <2>1, <2>2
  <1>6. \A f, g \in flight' : Id(f) = Id(g) => f = g
    BY <1>1 DEF Numbered
  <1>7. \A k \in acked' : Over(k)' /\ InLog(k)'
    BY <1>1, <1>3, <1>4 DEF Learnt
  <1>8. QED BY <1>2, <1>3, <1>4, <1>5, <1>6, <1>7

\* A handler's step leaves what its request asks for.
LEMMA MovedConstant ==
  ASSUME RetryInv, NEW a \in flight, NEW b, Moves(a, b)
  PROVE  /\ \A f \in flight' : f.serial = serial'[f.client] /\ request'[f.client] # None =>
              f.request = request'[f.client]
         /\ \A f, g \in flight' : SameRequest(f, g) => f.request = g.request
         /\ \A f \in flight', i \in Later :
              SameRequest(f, log[i]) => log[i].request = f.request
  <1>1. /\ flight' \subseteq (flight \ {a}) \cup {b}
        /\ UNCHANGED <<request, serial>>
        /\ b.client = a.client /\ b.serial = a.serial /\ b.request = a.request
    BY DEF Moves, Alike
  <1>2. QED BY <1>1 DEF RetryInv, Constant, SameRequest

LEMMA EnterKeeps ==
  ASSUME RetryInv, NEW a \in flight, Enter(a)
  PROVE  RetryInv'
  <1> USE DEF RetryInv
  <1>1. PICK b : Moves(a, b) /\ b.status = "waiting" /\ b.stamp = clock /\ log' = log
    BY EnterMoves
  <1>2. Shaped'
    BY ShapedStep DEF Next, Service
  <1>3. Numbered' /\ Learnt'
    <2>1. /\ \A k : Issued(k) => Issued(k)'
          /\ \A k : Over(k) => Over(k)'
          /\ \A f \in flight' : /\ Issued(Id(f))' /\ (f.status = "ok" => InLog(Id(f))')
                                /\ \A k \in f.known : Over(k)' /\ InLog(k)'
          /\ \A f, g \in flight' : Id(f) = Id(g) => f = g
          /\ \A k \in acked' : Over(k)' /\ InLog(k)'
      BY <1>1, MovedKeeps, ImageIsOne
    <2>2. Numbered'
      BY <1>1, <2>1 DEF Numbered, Later, Moves
    <2>3. \A i \in 1..Len(log) : \A k \in log[i].known :
            Over(k)' /\ \E j \in 1..i : Id(log[j]) = k
      BY <2>1 DEF Learnt
    <2>4. QED BY <1>1, <2>1, <2>2, <2>3 DEF Learnt
  <1>4. Stamped'
    BY <1>1 DEF Stamped, StampsFollowAcks, Moves
  <1>5. Constant'
    BY <1>1, MovedConstant DEF Constant, Later, Moves
  <1>6. Effective'
    BY <1>1 DEF Effective, Later, QuietRetryIsNoop
  <1>7. QED BY <1>2, <1>3, <1>4, <1>5, <1>6

LEMMA RefuseKeeps ==
  ASSUME RetryInv, NEW a \in flight, Refuse(a)
  PROVE  RetryInv'
  <1> USE DEF RetryInv
  <1>1. PICK b : Moves(a, b) /\ b.status = "refused"
    BY FinishMoves DEF Refuse
  <1>2. log' = log /\ Shaped'
    BY ShapedStep DEF Next, Service, Refuse
  <1>3. Numbered' /\ Learnt'
    <2>1. /\ \A k : Issued(k) => Issued(k)'
          /\ \A k : Over(k) => Over(k)'
          /\ \A f \in flight' : /\ Issued(Id(f))' /\ (f.status = "ok" => InLog(Id(f))')
                                /\ \A k \in f.known : Over(k)' /\ InLog(k)'
          /\ \A f, g \in flight' : Id(f) = Id(g) => f = g
          /\ \A k \in acked' : Over(k)' /\ InLog(k)'
      BY <1>1, <1>2, MovedKeeps, ImageIsOne
    <2>2. Numbered'
      BY <1>1, <1>2, <2>1 DEF Numbered, Later, Moves
    <2>3. \A i \in 1..Len(log) : \A k \in log[i].known :
            Over(k)' /\ \E j \in 1..i : Id(log[j]) = k
      BY <2>1 DEF Learnt
    <2>4. QED BY <1>2, <2>1, <2>2, <2>3 DEF Learnt
  <1>4. Stamped'
    BY <1>1, <1>2 DEF Stamped, StampsFollowAcks, Moves
  <1>5. Constant'
    BY <1>1, <1>2, MovedConstant DEF Constant, Later, Moves
  <1>6. Effective'
    BY <1>2 DEF Effective, Later, QuietRetryIsNoop
  <1>7. QED BY <1>2, <1>3, <1>4, <1>5, <1>6

\* A commit is stamped when its handler entered, after every commit its client knew
\* of; and it does nothing if it follows another attempt of its request.
LEMMA CommitKeeps ==
  ASSUME RetryInv, NEW a \in flight, Commit(a)
  PROVE  RetryInv'
  <1> USE DEF RetryInv
  <1> DEFINE n == Len(log)
  <1>1. PICK b : Moves(a, b) /\ b.status = "ok"
    BY FinishMoves DEF Commit
  <1>2. PICK e \in Entries :
          /\ log' = Append(log, e) /\ e.image \in Effects(a)
          /\ e.client = a.client /\ e.serial = a.serial /\ e.try = a.try
          /\ e.request = a.request /\ e.known = a.known
          /\ e.stamp = a.stamp /\ e.when = clock
    BY CommitAppends
  <1>3. /\ n \in Nat \ {0} /\ Len(log') = n + 1 /\ log'[n + 1] = e
        /\ \A i \in 1..n : log'[i] = log[i]
        /\ Id(e) = Id(a) /\ Id(b) = Id(a) /\ a.status = "waiting"
    BY <1>1, <1>2, Appended, ImageIsOne DEF Id, Moves, Alike, Commit
  <1>4. Shaped' /\ a \in Attempts
    BY ShapedStep DEF Next, Service, Shaped
  <1> HIDE DEF n
  <1>5. InLog(Id(b))'
    BY <1>3 DEF InLog, n
  <1>6. /\ \A k : Issued(k) => Issued(k)'
        /\ \A k : Over(k) => Over(k)'
        /\ \A f \in flight' : /\ Issued(Id(f))' /\ (f.status = "ok" => InLog(Id(f))')
                              /\ \A k \in f.known : Over(k)' /\ InLog(k)'
        /\ \A f, g \in flight' : Id(f) = Id(g) => f = g
        /\ \A k \in acked' : Over(k)' /\ InLog(k)'
    BY <1>1, <1>3, <1>5, MovedKeeps DEF n
  <1> DEFINE New(i) == (i \in Later /\ log'[i] = log[i]) \/ log'[i] = e
  <1>7. \A i \in Later' : New(i)
    BY <1>3 DEF Later, n
  <1>8. Numbered'
    <2>1. ASSUME NEW i \in Later' PROVE Issued(Id(log[i]))'
      <3>1. Issued(Id(e)) /\ (i \in Later => Issued(Id(log[i])))
        BY <1>3 DEF Numbered
      <3>2. Issued(Id(log'[i]))
        BY <1>7, <3>1
      <3>3. QED BY <1>1, <3>2 DEF Issued, Moves
    <2>2. log'[1].serial = 0
      BY <1>3 DEF Numbered
    <2>3. \A c \in Clients : request'[c] # None => serial'[c] > 0
      BY <1>1 DEF Numbered, Moves
    <2>4. QED BY <1>6, <2>1, <2>2, <2>3 DEF Numbered
  <1>9. Learnt'
    <2>1. ASSUME NEW i \in 1..n, NEW k \in log'[i].known
          PROVE  Over(k)' /\ \E j \in 1..i : Id(log'[j]) = k
      <3>1. Over(k) /\ \E j \in 1..i : Id(log[j]) = k
        BY <1>3, <2>1 DEF Learnt, n
      <3>2. QED BY <1>3, <1>6, <3>1
    <2>2. ASSUME NEW k \in e.known
          PROVE  Over(k)' /\ \E j \in 1..n + 1 : Id(log'[j]) = k
      <3>1. Over(k) /\ \E j \in 1..n : Id(log[j]) = k
        BY <1>2, <2>2 DEF Learnt, InLog, n
      <3>2. QED BY <1>3, <1>6, <3>1
    <2>3. \A i \in 1..Len(log') : \A k \in log'[i].known :
            Over(k)' /\ \E j \in 1..i : Id(log'[j]) = k
      BY <1>3, <2>1, <2>2
    <2>4. QED BY <1>6, <2>3 DEF Learnt
  <1>10. Stamped'
    <2>1. \A i \in 1..Len(log') : log'[i].when <= clock'
      <3>1. clock' = clock /\ clock \in Nat
        BY <1>1 DEF Shaped, Moves
      <3>2. \A i \in 1..n : log'[i].when <= clock
        BY <1>3 DEF Stamped, n
      <3>3. log'[n + 1].when <= clock
        BY <1>2, <1>3, <3>1
      <3>4. QED BY <1>3, <3>1, <3>2, <3>3
    <2>2. ASSUME NEW k, Over(k) PROVE k # Id(e)
      BY <1>3, <2>2 DEF Over
    <2>3. ASSUME NEW f \in flight', f.status = "waiting",
                 NEW i \in 1..Len(log'), Id(log'[i]) \in f.known
          PROVE  log'[i].when <= f.stamp
      <3>1. f \in flight
        BY <1>1, <2>3 DEF Moves
      <3>2. i # n + 1
        BY <1>3, <2>2, <2>3, <3>1 DEF Learnt
      <3>3. QED BY <1>3, <2>3, <3>1, <3>2 DEF Stamped, n
    <2>4. ASSUME NEW i \in 1..Len(log'), NEW j \in 1..Len(log'),
                 Id(log'[i]) \in log'[j].known
          PROVE  log'[i].when <= log'[j].stamp
      <3>1. i \in 1..n
        <4>1. \A k \in log'[j].known : Over(k)
          BY <1>2, <1>3 DEF Learnt, n
        <4>2. QED BY <1>3, <2>2, <2>4, <4>1
      <3>2. CASE j \in 1..n
        BY <1>3, <2>4, <3>1, <3>2 DEF Stamped, StampsFollowAcks, n
      <3>3. CASE j = n + 1
        BY <1>2, <1>3, <2>4, <3>1, <3>3 DEF Stamped, n
      <3>4. QED BY <1>3, <3>2, <3>3
    <2>5. QED BY <2>1, <2>3, <2>4 DEF Stamped, StampsFollowAcks
  <1>11. Constant'
    <2>1. /\ \A f \in flight' : f.serial = serial'[f.client] /\ request'[f.client] # None =>
                f.request = request'[f.client]
          /\ \A f, g \in flight' : SameRequest(f, g) => f.request = g.request
          /\ \A f \in flight', i \in Later :
                SameRequest(f, log[i]) => log[i].request = f.request
      BY <1>1, MovedConstant
    <2>2. UNCHANGED <<serial, request>>
      BY <1>1 DEF Moves
    <2>3. ASSUME NEW i \in Later', log'[i].serial = serial'[log'[i].client],
                 request'[log'[i].client] # None
          PROVE  log'[i].request = request'[log'[i].client]
      <3>1. CASE i \in Later /\ log'[i] = log[i]
        BY <2>2, <2>3, <3>1 DEF Constant
      <3>2. CASE log'[i] = e
        BY <1>2, <2>2, <2>3, <3>2 DEF Constant
      <3>3. QED BY <1>7, <3>1, <3>2
    <2>4. ASSUME NEW f \in flight', NEW i \in Later', SameRequest(f, log'[i])
          PROVE  log'[i].request = f.request
      <3>1. CASE i \in Later /\ log'[i] = log[i]
        BY <2>1, <2>4, <3>1
      <3>2. CASE log'[i] = e
        <4>1. SameRequest(f, a)
          BY <1>2, <2>4, <3>2 DEF SameRequest
        <4>2. f.request = a.request
          BY <1>1, <4>1 DEF Constant, Moves, Alike
        <4>3. QED BY <1>2, <3>2, <4>2
      <3>3. QED BY <1>7, <3>1, <3>2
    <2>5. QED BY <2>1, <2>3, <2>4 DEF Constant
  <1>12. Effective'
    <2>1. /\ Satisfied(a.request, e.image)
          /\ Satisfied(a.request, Image) => e.image = Image
      BY <1>2, <1>4, EffectsSatisfy, ImageIsOne
    <2>2. \A i \in Later' : Satisfied(log'[i].request, log'[i].image)
      BY <1>2, <1>3, <2>1 DEF Effective, Later, n
    <2>3. ASSUME NEW i \in 2..Len(log'), SameRequest(log'[i - 1], log'[i])
          PROVE  log'[i].image = log'[i - 1].image
      <3>1. CASE i \in 2..n
        <4>1. i - 1 \in 1..n
          BY <1>3, <3>1
        <4>2. QED BY <1>3, <2>3, <3>1, <4>1 DEF Effective, QuietRetryIsNoop, n
      <3>2. CASE i = n + 1
        <4>1. log'[i - 1] = log[n] /\ log'[i] = e /\ SameRequest(log[n], a)
          BY <1>2, <1>3, <2>3, <3>2 DEF SameRequest
        <4>2. n \in Later
          <5>1. Issued(Id(a)) /\ Id(a)[2] = a.serial
            BY DEF Numbered, Id
          <5>2. a.serial \in 1..serial[Id(a)[1]]
            BY <5>1 DEF Issued
          <5>3. n # 1
            BY <4>1, <5>2 DEF Numbered, SameRequest
          <5>4. n \in 2..n
            BY <1>3, <5>3
          <5>5. QED BY <5>4 DEF Later, n
        <4>3. log[n].request = a.request
          BY <4>1, <4>2 DEF Constant, SameRequest
        <4>4. Satisfied(a.request, Image)
          BY <4>2, <4>3 DEF Effective, Image, n
        <4>5. QED BY <2>1, <4>1, <4>4 DEF Image, n
      <3>3. QED BY <1>3, <3>1, <3>2
    <2>4. QED BY <2>2, <2>3 DEF Effective, QuietRetryIsNoop
  <1>13. QED BY <1>4, <1>8, <1>9, <1>10, <1>11, <1>12

-----------------------------------------------------------------------------
(* Attempts end                                                             *)

\* A step that sends nothing and commits nothing; requests may end.
Ends ==
  /\ log' = log /\ flight' \subseteq flight /\ serial' = serial
  /\ \A c \in Clients :
       \/ request'[c] = None
       \/ request'[c] = request[c] /\ tries'[c] = tries[c]
  /\ clock' \in {clock, clock + 1}

LEMMA EndsKeepIssued ==
  ASSUME Ends
  PROVE  /\ \A k : Issued(k) => Issued(k)'
         /\ \A k : Over(k) => Over(k)'
         /\ \A k : InLog(k) => InLog(k)'
  <1>1. \A k : Issued(k) => Issued(k)'
    BY DEF Ends, Issued
  <1>2. \A k : Over(k) => Over(k)'
    BY <1>1 DEF Ends, Over
  <1>3. QED BY <1>1, <1>2 DEF Ends, InLog

LEMMA EndsKeep ==
  ASSUME RetryInv, Shaped', Ends, \A k \in acked' : Over(k)' /\ InLog(k)
  PROVE  RetryInv'
  <1> USE DEF RetryInv
  <1>1. /\ \A k : Issued(k) => Issued(k)'
        /\ \A k : Over(k) => Over(k)'
        /\ \A k : InLog(k) => InLog(k)'
    BY EndsKeepIssued
  <1>2. Numbered'
    <2>1. \A a \in flight' : Issued(Id(a))' /\ (a.status = "ok" => InLog(Id(a))')
      BY <1>1 DEF Numbered, Ends
    <2>2. \A a, b \in flight' : Id(a) = Id(b) => a = b
      BY DEF Numbered, Ends
    <2>3. \A c \in Clients : request'[c] # None => serial'[c] > 0
      BY DEF Numbered, Ends
    <2>4. log'[1].serial = 0 /\ \A i \in Later' : Issued(Id(log[i]))'
      BY <1>1 DEF Numbered, Ends, Later
    <2>5. QED BY <2>1, <2>2, <2>3, <2>4 DEF Numbered
  <1>3. Learnt'
    <2>1. \A a \in flight' : \A k \in a.known : Over(k)' /\ InLog(k)'
      BY <1>1 DEF Learnt, Ends
    <2>2. \A i \in 1..Len(log) : \A k \in log[i].known :
            Over(k)' /\ \E j \in 1..i : Id(log[j]) = k
      BY <1>1 DEF Learnt
    <2>3. log' = log
      BY DEF Ends
    <2>4. QED BY <1>1, <2>1, <2>2, <2>3 DEF Learnt
  <1>4. Stamped'
    <2>1. \A i \in 1..Len(log) : log[i].when <= clock'
      <3>1. \A i \in 1..Len(log) : log[i].when \in Nat /\ log[i].when <= clock
        BY IdsAreIds DEF Stamped, Entries
      <3>2. clock \in Nat
        BY DEF Shaped
      <3>3. QED BY <3>1, <3>2 DEF Ends
    <2>2. QED BY <2>1 DEF Stamped, StampsFollowAcks, Ends
  <1>5. Constant'
    <2>1. /\ log' = log /\ flight' \subseteq flight /\ serial' = serial
          /\ \A c \in Clients : request'[c] = None \/ request'[c] = request[c]
      BY DEF Ends
    <2>2. /\ \A a \in flight : a.client \in Clients
          /\ \A i \in Later : log[i].client \in Clients
      <3>1. \A e : Issued(Id(e)) => e.client \in Clients
        BY DEF Issued, Id
      <3>2. QED BY <3>1 DEF Numbered
    <2>3. \A a \in flight' : a.serial = serial'[a.client] /\ request'[a.client] # None =>
                             a.request = request'[a.client]
      BY <2>1, <2>2 DEF Constant
    <2>4. \A i \in Later : log[i].serial = serial[log[i].client]
                           /\ request'[log[i].client] # None =>
                             log[i].request = request'[log[i].client]
      BY <2>1, <2>2 DEF Constant
    <2>5. /\ \A a, b \in flight' : SameRequest(a, b) => a.request = b.request
          /\ \A a \in flight', i \in Later :
               SameRequest(a, log[i]) => log[i].request = a.request
      BY <2>1 DEF Constant
    <2>6. QED BY <2>1, <2>3, <2>4, <2>5 DEF Constant, Later
  <1>6. Effective'
    BY DEF Ends, Effective, Later, QuietRetryIsNoop
  <1>7. QED BY <1>2, <1>3, <1>4, <1>5, <1>6

\* What a client is told is over, and in the log.
LEMMA DeliverKeeps ==
  ASSUME RetryInv, NEW a \in flight, Deliver(a)
  PROVE  RetryInv'
  <1> USE DEF RetryInv
  <1>1. Shaped'
    BY ShapedStep DEF Next, Service
  <1>2. a \in Attempts
    BY DEF Shaped
  <1>3. Ends
    <2>1. \A c \in Clients :
            \/ request'[c] = None
            \/ request'[c] = request[c] /\ tries'[c] = tries[c]
      BY <1>2 DEF Deliver, Shaped
    <2>2. QED BY <2>1 DEF Deliver, Ends
  <1>4. ASSUME NEW k \in acked' PROVE Over(k)' /\ InLog(k)
    <2>1. CASE k \in acked
      BY <1>3, <2>1, EndsKeepIssued DEF Learnt
    <2>2. CASE a.status = "ok" /\ k = Id(a)
      <3>1. Issued(k)' /\ InLog(k)
        <4>1. Issued(k) /\ InLog(k)
          BY <2>2 DEF Numbered
        <4>2. QED BY <1>3, <4>1, EndsKeepIssued
      <3>2. \A b \in flight' : Id(b) # k
        BY <2>2 DEF Deliver, Numbered
      <3>3. QED BY <3>1, <3>2 DEF Over
    <2>3. QED BY <2>1, <2>2 DEF Deliver
  <1>5. QED BY <1>1, <1>3, <1>4, EndsKeep

\* A process that dies takes its attempts with it, and nothing else.
LEMMA QuietKeeps ==
  ASSUME RetryInv, Tick \/ Checkpoint \/ Crash \/ UNCHANGED vars
  PROVE  RetryInv'
  <1> USE DEF RetryInv
  <1>1. Shaped'
    BY ShapedStep DEF Next, Faults
  <1>2. Ends /\ acked' = acked
    BY DEF Ends, Tick, Checkpoint, Crash, vars
  <1>3. \A k \in acked' : Over(k)' /\ InLog(k)
    BY <1>2, EndsKeepIssued DEF Learnt
  <1>4. QED BY <1>1, <1>2, <1>3, EndsKeep

\* A power loss takes the end of the log: what a commit followed from was before it.
LEMMA PowerLossKeeps ==
  ASSUME RetryInv, PowerLoss
  PROVE  RetryInv'
  <1> USE DEF RetryInv
  <1> DEFINE n == Len(log')
  <1>1. /\ n <= Len(log) /\ n \in Nat \ {0} /\ log' \in Seq(Entries)
        /\ \A i \in 1..n : i \in 1..Len(log) /\ log'[i] = log[i]
        /\ \A k \in acked' : k \in acked /\ \E i \in 1..n : Id(log'[i]) = k
        /\ flight' = {} /\ UNCHANGED <<synced, clock, request, serial, tries>>
    BY PowerLossCuts DEF Shaped
  <1> HIDE DEF n
  <1>2. Shaped'
    BY ShapedStep DEF Next, Faults
  <1>3. \A k : Issued(k) => Issued(k)'
    BY <1>1 DEF Issued
  <1>4. \A k : Over(k) => Over(k)'
    BY <1>1, <1>3 DEF Over
  <1>5. \A i \in Later' : i \in Later /\ log'[i] = log[i]
    BY <1>1 DEF Later, n
  <1>6. Numbered'
    <2>1. \A i \in Later' : Issued(Id(log[i]))'
      <3>1. \A i \in Later' : Issued(Id(log'[i]))
        BY <1>5 DEF Numbered
      <3>2. QED BY <1>1, <3>1 DEF Issued
    <2>2. log'[1].serial = 0
      BY <1>1 DEF Numbered
    <2>3. QED BY <1>1, <2>1, <2>2 DEF Numbered
  <1>7. Learnt'
    <2>1. \A k \in acked' : Over(k)' /\ InLog(k)'
      BY <1>1, <1>4 DEF Learnt, InLog, n
    <2>2. ASSUME NEW i \in 1..n, NEW k \in log'[i].known
          PROVE  Over(k)' /\ \E j \in 1..i : Id(log'[j]) = k
      <3>1. Over(k) /\ \E j \in 1..i : Id(log[j]) = k
        BY <1>1, <2>2 DEF Learnt
      <3>2. QED BY <1>1, <1>4, <3>1
    <2>3. QED BY <1>1, <2>1, <2>2 DEF Learnt, n
  <1>8. Stamped'
    BY <1>1 DEF Stamped, StampsFollowAcks, n
  <1>9. Constant'
    <2>1. \A i \in Later' : log'[i].serial = serial[log'[i].client]
                            /\ request[log'[i].client] # None =>
                              log'[i].request = request[log'[i].client]
      BY <1>5 DEF Constant
    <2>2. QED BY <1>1, <2>1 DEF Constant
  <1>10. Effective'
    <2>1. \A i \in Later' : Satisfied(log'[i].request, log'[i].image)
      BY <1>5 DEF Effective
    <2>2. ASSUME NEW i \in 2..n, SameRequest(log'[i - 1], log'[i])
          PROVE  log'[i].image = log'[i - 1].image
      <3>1. i - 1 \in 1..n
        BY <1>1
      <3>2. QED BY <1>1, <2>2, <3>1 DEF Effective, QuietRetryIsNoop
    <2>3. QED BY <2>1, <2>2 DEF Effective, QuietRetryIsNoop, n
  <1>11. QED BY <1>2, <1>6, <1>7, <1>8, <1>9, <1>10

-----------------------------------------------------------------------------
(* The invariant                                                            *)

LEMMA RetryInvInit == Init => RetryInv
  <1> SUFFICES ASSUME Init PROVE RetryInv
    OBVIOUS
  <1>1. PICK n \in Names :
          log = <<[image |-> <<[name |-> n, birth |-> None]>>,
                   client |-> None, serial |-> 0, try |-> 0, request |-> None,
                   known |-> {}, stamp |-> 0, when |-> 0]>>
    BY DEF Init
  <1> DEFINE m == <<[name |-> n, birth |-> None]>>
             e == [image |-> m, client |-> None, serial |-> 0, try |-> 0,
                   request |-> None, known |-> {}, stamp |-> 0, when |-> 0]
  <1>2. m \in Images
    <2>1. m \in [1..1 -> Rows]
      BY DEF Rows
    <2>2. 1..1 \subseteq 1..MaxCommits + 1
      BY BoundsAssumption
    <2>3. QED BY <2>1, <2>2 DEF Images
  <1> HIDE DEF m
  <1>3. e \in Entries
    BY <1>2 DEF Entries
  <1>4. e.known = {} /\ e.when = 0 /\ e.serial = 0
    OBVIOUS
  <1>5. log = <<e>>
    BY <1>1 DEF m
  <1> HIDE DEF e
  <1>6. /\ log \in Seq(Entries) /\ Len(log) = 1 /\ log[1] = e /\ Later = {}
        /\ \A i \in 1..Len(log) : i = 1
    BY <1>3, <1>5 DEF Later
  <1>7. Shaped
    BY <1>6 DEF Init, Shaped
  <1>8. Numbered /\ Learnt /\ Stamped /\ Constant /\ Effective
    BY <1>4, <1>6
       DEF Init, Numbered, Learnt, Stamped, Constant, Effective, StampsFollowAcks,
           QuietRetryIsNoop, Later
  <1>9. QED BY <1>7, <1>8 DEF RetryInv

LEMMA RetryInvStep == RetryInv /\ [Next]_vars => RetryInv'
  <1> SUFFICES ASSUME RetryInv, [Next]_vars PROVE RetryInv'
    OBVIOUS
  <1>1. ASSUME NEW c \in Clients, Client(c) PROVE RetryInv'
    BY <1>1, SendKeeps, SendAgainKeeps DEF Client
  <1>2. ASSUME NEW a \in flight, Service(a) PROVE RetryInv'
    BY <1>2, EnterKeeps, CommitKeeps, RefuseKeeps, DeliverKeeps DEF Service
  <1>3. CASE Faults
    BY <1>3, QuietKeeps, PowerLossKeeps DEF Faults
  <1>4. CASE Tick \/ Checkpoint \/ UNCHANGED vars
    BY <1>4, QuietKeeps
  <1>5. QED BY <1>1, <1>2, <1>3, <1>4 DEF Next

LEMMA RetryInvAlways == Spec => []RetryInv
  <1>1. QED BY RetryInvInit, RetryInvStep, PTL DEF Spec

-----------------------------------------------------------------------------

\* Sending a request once more, with no other commit in between, changes nothing
\* but updated_at, whichever of its attempts commits last and whatever was lost.
THEOREM QuietRetries == Spec => []QuietRetryIsNoop
  <1>1. RetryInv => QuietRetryIsNoop
    BY DEF RetryInv, Effective
  <1>2. QED BY <1>1, RetryInvAlways, PTL

\* A commit that survives a power loss does so with all its client knew when it
\* sent it.
THEOREM LossesKeepCauses == Spec => []LossKeepsCauses
  <1>1. RetryInv => LossKeepsCauses
    BY DEF RetryInv, Learnt, LossKeepsCauses
  <1>2. QED BY <1>1, RetryInvAlways, PTL

\* updated_at is never older than the commit of a write that was acknowledged
\* before this one was sent.
THEOREM StampsOrdered == Spec => []StampsFollowAcks
  <1>1. RetryInv => StampsFollowAcks
    BY DEF RetryInv, Stamped
  <1>2. QED BY <1>1, RetryInvAlways, PTL

=============================================================================
