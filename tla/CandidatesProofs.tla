-------------------------- MODULE CandidatesProofs --------------------------
(***************************************************************************)
(* For any job ids, templates, blocks, sessions and replies nobody asked   *)
(* for: the table of pending blocks is exact and, as long as the gateway   *)
(* keeps a job id on its template while candidates on it are unanswered, a *)
(* block is assembled from its own template's transactions.                *)
(***************************************************************************)
EXTENDS Candidates, TLAPS

\* A candidate's frame is the only one of its block and comes before anything
\* is recorded of it; a block with a record was found.
FramesInv ==
    /\ \A k \in DOMAIN toPrime : toPrime[k].type = "candidate" =>
         /\ minedOn[toPrime[k].block] # None
         /\ submit[toPrime[k].block] = "none"
         /\ \A l \in DOMAIN toPrime : l # k /\ toPrime[l].type = "candidate"
                => toPrime[l].block # toPrime[k].block
    /\ \A b \in Blocks : submit[b] # "none" => minedOn[b] # None

HoldInv == TypeOK /\ FramesInv /\ PendingIsHeld

\* The message brings transactions for the job id.
Brings(m, i) == m.type = "transactions" /\ m.id = i

\* Prime has asked for the job id's transactions and the gateway has yet to
\* answer.
Asked(i) == \E k \in DOMAIN toGateway : toGateway[k] = i

\* What can resolve block b under job id i is right. Either the gateway still
\* has a request for i: then i is on b's template and whatever it has sent is
\* of that. Or its answer is under way: nothing up to it is of another.
Covered(b, i) ==
    \/ /\ Asked(i)
       /\ minedOn[b] = jobs[i]
       /\ \A l \in DOMAIN toPrime : Brings(toPrime[l], i) => toPrime[l].txns = minedOn[b]
    \/ \E a \in DOMAIN toPrime :
         /\ toPrime[a].type \in {"transactions", "error"}
         /\ toPrime[a].id = i
         /\ \A l \in DOMAIN toPrime :
              l <= a /\ Brings(toPrime[l], i) => toPrime[l].txns = minedOn[b]

\* A candidate's frame is on the template of its job id, and so is what the
\* gateway sent after it; what is held is covered.
AnswersInv ==
    /\ \A k \in DOMAIN toPrime : toPrime[k].type = "candidate" =>
         /\ minedOn[toPrime[k].block] = jobs[toPrime[k].id]
         /\ \A l \in DOMAIN toPrime : l > k /\ Brings(toPrime[l], toPrime[k].id)
                => toPrime[l].txns = jobs[toPrime[k].id]
    /\ \A i \in Ids, b \in Blocks : pending[i][b] > 0 => Covered(b, i)

TxnsInv == AnswersInv /\ OwnTransactions

-----------------------------------------------------------------------------
(* Messages and channels *)

\* What a frame to Prime carries.
LEMMA MessageFields ==
  ASSUME NEW m \in ToPrime
  PROVE  /\ m.id \in Ids
         /\ m.type = "candidate" => m.block \in Blocks
         /\ m.type # "candidate" => m.type \in Kinds /\ m.txns \in Templates \cup {None}
  BY DEF ToPrime, Kinds

\* A frame sent goes behind those under way.
LEMMA SentMore ==
  ASSUME toPrime \in Seq(ToPrime), NEW m \in ToPrime, toPrime' = Append(toPrime, m)
  PROVE  /\ toPrime' \in Seq(ToPrime)
         /\ DOMAIN toPrime = 1..Len(toPrime)
         /\ DOMAIN toPrime' = 1..(Len(toPrime) + 1)
         /\ Len(toPrime) \in Nat
         /\ \A k \in DOMAIN toPrime : k \in DOMAIN toPrime' /\ toPrime'[k] = toPrime[k]
         /\ \A k \in DOMAIN toPrime' : k \in DOMAIN toPrime \/ k = Len(toPrime) + 1
         /\ toPrime'[Len(toPrime) + 1] = m
  OBVIOUS

\* Handling a frame moves the others up.
LEMMA HandledOne ==
  ASSUME toPrime \in Seq(ToPrime), toPrime # << >>, toPrime' = Tail(toPrime)
  PROVE  /\ toPrime' \in Seq(ToPrime)
         /\ DOMAIN toPrime = 1..Len(toPrime)
         /\ 1 \in DOMAIN toPrime /\ Head(toPrime) = toPrime[1] /\ toPrime[1] \in ToPrime
         /\ \A k \in DOMAIN toPrime' :
              k \in Nat /\ k >= 1 /\ k + 1 \in DOMAIN toPrime /\ toPrime'[k] = toPrime[k + 1]
         /\ \A k \in DOMAIN toPrime : k # 1 => k \in Nat /\ k - 1 \in DOMAIN toPrime'
  OBVIOUS

\* The same for the request the gateway answers.
LEMMA AnsweredOne ==
  ASSUME toGateway \in Seq(Ids), toGateway # << >>, toGateway' = Tail(toGateway)
  PROVE  /\ toGateway' \in Seq(Ids) /\ Head(toGateway) \in Ids
         /\ 1 \in DOMAIN toGateway /\ Head(toGateway) = toGateway[1]
         /\ \A k \in DOMAIN toGateway : k # 1 => k \in Nat /\ k - 1 \in DOMAIN toGateway' /\ toGateway'[k - 1] = toGateway[k]
  OBVIOUS

\* A reply is a frame, and brings the job id's template or nothing.
LEMMA ReplyIs ==
  ASSUME TypeOK, NEW kind \in Kinds, NEW i \in Ids
  PROVE  /\ Reply(kind, i) \in ToPrime
         /\ Reply(kind, i).type = kind /\ Reply(kind, i).id = i /\ kind # "candidate"
         /\ kind = "transactions" => Reply(kind, i).txns = jobs[i]
  BY DEF Reply, ToPrime, Kinds, TypeOK

-----------------------------------------------------------------------------
(* What each step of Prime's does, block by block *)

\* on_block_candidate.
LEMMA CandidateEffect ==
  ASSUME TypeOK, HandleFrame, toPrime[1].type = "candidate"
  PROVE  /\ toPrime # << >> /\ toPrime' = Tail(toPrime)
         /\ toPrime[1].id \in Ids /\ toPrime[1].block \in Blocks
         /\ \A c \in Blocks : /\ submit'[c] = IF c = toPrime[1].block THEN "pending" ELSE submit[c]
                              /\ waited'[c] = IF c = toPrime[1].block THEN 0 ELSE waited[c]
                              /\ \A j \in Ids : pending'[j][c] =
                                   IF j = toPrime[1].id /\ c = toPrime[1].block
                                   THEN pending[j][c] + 1 ELSE pending[j][c]
         /\ toGateway' = Append(toGateway, toPrime[1].id)
         /\ UNCHANGED <<txns, jobs, minedOn, sessions, unasked>> /\ busy' = "writing"
         /\ TypeOK'
  <1> DEFINE m == toPrime[1]
  <1>1. toPrime # << >> /\ toPrime' = Tail(toPrime)
    BY DEF HandleFrame
  <1>2. toPrime' \in Seq(ToPrime) /\ Head(toPrime) = m /\ m \in ToPrime
    BY <1>1, HandledOne DEF TypeOK
  <1>3. m.id \in Ids /\ m.block \in Blocks
    BY <1>2, MessageFields
  <1>4. /\ submit' = [submit EXCEPT ![m.block] = "pending"]
        /\ pending' = [pending EXCEPT ![m.id] = [pending[m.id] EXCEPT ![m.block] = pending[m.id][m.block] + 1]]
        /\ waited' = [waited EXCEPT ![m.block] = 0]
        /\ toGateway' = Append(toGateway, m.id)
        /\ UNCHANGED <<txns, jobs, minedOn, sessions, unasked>> /\ busy' = "writing"
    BY <1>2 DEF HandleFrame, OnBlockCandidate
  <1> HIDE DEF m
  <1>5. \A c \in Blocks : /\ submit'[c] = IF c = m.block THEN "pending" ELSE submit[c]
                          /\ waited'[c] = IF c = m.block THEN 0 ELSE waited[c]
    BY <1>3, <1>4 DEF TypeOK
  <1>6. \A c \in Blocks, j \in Ids : pending'[j][c] =
           IF j = m.id /\ c = m.block THEN pending[j][c] + 1 ELSE pending[j][c]
    BY <1>3, <1>4 DEF TypeOK
  <1>7. TypeOK'
    <2>1. pending' \in [Ids -> [Blocks -> Nat]]
      BY <1>3, <1>4 DEF TypeOK
    <2>2. submit' \in [Blocks -> Fates] /\ waited' \in [Blocks -> 0..TTL]
      BY <1>3, <1>4, CandidatesAssumption DEF TypeOK, Fates
    <2>3. toGateway' \in Seq(Ids)
      BY <1>3, <1>4 DEF TypeOK
    <2> QED
      BY <2>1, <2>2, <2>3, <1>2, <1>4 DEF TypeOK
  <1> QED
    BY <1>1, <1>3, <1>4, <1>5, <1>6, <1>7 DEF m

\* on_validation with transactions or an error: the whole job is resolved.
LEMMA ResolveEffect ==
  ASSUME TypeOK, HandleFrame, toPrime[1].type \in {"transactions", "error"}
  PROVE  /\ toPrime # << >> /\ toPrime' = Tail(toPrime)
         /\ toPrime[1].id \in Ids
         /\ \A c \in Blocks :
              /\ IF pending[toPrime[1].id][c] > 0
                 THEN /\ submit'[c] \in {"submitted", "no-transactions"}
                      /\ txns'[c] = IF toPrime[1].type = "transactions" THEN toPrime[1].txns ELSE None
                 ELSE submit'[c] = submit[c] /\ txns'[c] = txns[c]
              /\ \A j \in Ids : pending'[j][c] = IF j = toPrime[1].id THEN 0 ELSE pending[j][c]
         /\ UNCHANGED <<toGateway, waited, jobs, minedOn, sessions, unasked, busy>>
         /\ TypeOK'
  <1> DEFINE m == toPrime[1]
             i == m.id
             o == IF m.type = "transactions" THEN "submitted" ELSE "no-transactions"
             x == IF m.type = "transactions" THEN m.txns ELSE None
  <1>1. toPrime # << >> /\ toPrime' = Tail(toPrime)
    BY DEF HandleFrame
  <1>2. toPrime' \in Seq(ToPrime) /\ Head(toPrime) = m /\ m \in ToPrime
    BY <1>1, HandledOne DEF TypeOK
  <1>3. i \in Ids /\ x \in Templates \cup {None} /\ o \in {"submitted", "no-transactions"}
    BY <1>2, MessageFields
  <1>4. /\ Resolve(i, o, x)
        /\ UNCHANGED <<toGateway, waited, jobs, minedOn, sessions, unasked, busy>>
    BY <1>2 DEF HandleFrame, OnValidation
  <1> HIDE DEF i, o, x
  <1>5. /\ pending' = [pending EXCEPT ![i] = Nothing]
        /\ submit' = [b \in Blocks |-> IF b \in HeldUnder(i) THEN o ELSE submit[b]]
        /\ txns' = [b \in Blocks |-> IF b \in HeldUnder(i) THEN x ELSE txns[b]]
    BY <1>4 DEF Resolve
  <1>6. \A c \in Blocks : /\ submit'[c] = IF pending[i][c] > 0 THEN o ELSE submit[c]
                          /\ txns'[c] = IF pending[i][c] > 0 THEN x ELSE txns[c]
    BY <1>5 DEF HeldUnder
  <1>7. \A c \in Blocks, j \in Ids : pending'[j][c] = IF j = i THEN 0 ELSE pending[j][c]
    BY <1>3, <1>5 DEF Nothing, TypeOK
  <1>8. TypeOK'
    <2>1. pending' \in [Ids -> [Blocks -> Nat]]
      BY <1>3, <1>5 DEF TypeOK, Nothing
    <2>2. submit' \in [Blocks -> Fates]
      BY <1>3, <1>5 DEF TypeOK, Fates
    <2>3. txns' \in [Blocks -> Templates \cup {None}]
      BY <1>3, <1>5 DEF TypeOK
    <2> QED
      BY <2>1, <2>2, <2>3, <1>2, <1>4 DEF TypeOK
  <1> QED
    BY <1>1, <1>3, <1>4, <1>6, <1>7, <1>8 DEF i, o, x

\* on_validation with short ids: the candidates are put back.
LEMMA PutBackEffect ==
  ASSUME TypeOK, HandleFrame, toPrime[1].type \notin {"candidate", "transactions", "error"}
  PROVE  /\ toPrime # << >> /\ toPrime' = Tail(toPrime)
         /\ UNCHANGED <<pending, submit, txns, toGateway, waited, jobs, minedOn, sessions, unasked, busy>>
         /\ TypeOK'
  <1>1. toPrime # << >> /\ toPrime' = Tail(toPrime)
    BY DEF HandleFrame
  <1>2. toPrime' \in Seq(ToPrime) /\ Head(toPrime) = toPrime[1]
    BY <1>1, HandledOne DEF TypeOK
  <1>3. UNCHANGED <<pending, submit, txns, toGateway, waited, jobs, minedOn, sessions, unasked, busy>>
    BY <1>2 DEF HandleFrame, OnValidation
  <1> QED
    BY <1>1, <1>2, <1>3 DEF TypeOK

\* The sweep.
LEMMA SweepEffect ==
  ASSUME TypeOK, Tick
  PROVE  /\ \A c \in Blocks :
              /\ submit'[c] = IF submit[c] = "pending" /\ waited[c] >= TTL THEN "swept" ELSE submit[c]
              /\ \A j \in Ids : pending'[j][c] = IF waited[c] < TTL THEN pending[j][c] ELSE 0
              /\ waited[c] \in Nat /\ waited[c] <= TTL /\ TTL \in Nat
         /\ UNCHANGED <<jobs, minedOn, toPrime, toGateway, waited, txns, sessions, unasked, busy>>
         /\ TypeOK'
  <1>1. /\ pending' = [i \in Ids |-> Young(i)]
        /\ submit' = [b \in Blocks |-> IF submit[b] = "pending" /\ waited[b] >= TTL
                                       THEN "swept" ELSE submit[b]]
        /\ UNCHANGED <<jobs, minedOn, toPrime, toGateway, waited, txns, sessions, unasked, busy>>
    BY DEF Tick, Sweep
  <1>2. \A c \in Blocks : waited[c] \in Nat /\ waited[c] <= TTL /\ TTL \in Nat
    BY CandidatesAssumption DEF TypeOK
  <1>3. \A j \in Ids : pending'[j] \in [Blocks -> Nat] /\ pending'[j] = Young(j)
    BY <1>1 DEF Young, TypeOK
  <1>4. \A c \in Blocks, j \in Ids : pending'[j][c] = IF waited[c] < TTL THEN pending[j][c] ELSE 0
    BY <1>3 DEF Young
  <1>5. TypeOK'
    <2>1. pending' \in [Ids -> [Blocks -> Nat]]
      BY <1>1, <1>3
    <2>2. submit' \in [Blocks -> Fates]
      BY <1>1 DEF TypeOK, Fates
    <2> QED
      BY <2>1, <2>2, <1>1 DEF TypeOK
  <1> QED
    BY <1>1, <1>2, <1>4, <1>5

-----------------------------------------------------------------------------
(* The table *)

\* Nothing is found or held at first.
LEMMA HoldInit == Init => HoldInv
  <1> SUFFICES ASSUME Init
               PROVE  HoldInv
    OBVIOUS
  <1>1. TypeOK
    <2>1. TTL \in Nat /\ 0 \in 0..TTL /\ MaxSessions \in Nat \ {0} /\ MaxUnasked \in Nat
      BY CandidatesAssumption
    <2>2. sessions \in 1..MaxSessions
      BY <2>1 DEF Init
    <2>3. unasked \in 0..MaxUnasked
      BY <2>1 DEF Init
    <2> QED
      BY <2>1, <2>2, <2>3 DEF Init, TypeOK, Nothing, Fates
  <1>2. FramesInv
    BY DEF Init, FramesInv
  <1>3. PendingIsHeld
    BY DEF Init, PendingIsHeld, Nothing
  <1> QED
    BY <1>1, <1>2, <1>3 DEF HoldInv

\* What the gateway does reaches the table only as frames.
LEMMA HoldGateway ==
  ASSUME HoldInv, Gateway
  PROVE  HoldInv'
  <1>0. TypeOK /\ FramesInv /\ PendingIsHeld
    BY DEF HoldInv
  <1>q. toPrime \in Seq(ToPrime) /\ toGateway \in Seq(Ids)
    BY <1>0 DEF TypeOK
  <1>1. ASSUME NEW i \in Ids, NEW t \in Templates, NewJob(i, t)
        PROVE  HoldInv'
    <2>1. TypeOK'
      BY <1>0, <1>1 DEF NewJob, TypeOK
    <2>2. FramesInv' /\ PendingIsHeld'
      BY <1>0, <1>1 DEF NewJob, FramesInv, PendingIsHeld, HeldOnce
    <2> QED
      BY <2>1, <2>2 DEF HoldInv
  <1>2. ASSUME NEW i \in Ids, NEW b \in Blocks, Solve(i, b)
        PROVE  HoldInv'
    <2> DEFINE m == [type |-> "candidate", id |-> i, block |-> b]
    <2>1. m \in ToPrime /\ m.type = "candidate" /\ m.block = b
      BY DEF ToPrime
    <2>2. /\ minedOn[b] = None /\ jobs[i] # None
          /\ minedOn' = [minedOn EXCEPT ![b] = jobs[i]]
          /\ toPrime' = Append(toPrime, m)
          /\ UNCHANGED <<jobs, toGateway, pending, waited, submit, txns, sessions, unasked, busy>>
      BY <1>2 DEF Solve
    <2> HIDE DEF m
    <2>3. /\ toPrime' \in Seq(ToPrime)
          /\ \A k \in DOMAIN toPrime : k \in DOMAIN toPrime' /\ toPrime'[k] = toPrime[k]
          /\ \A k \in DOMAIN toPrime' : k \in DOMAIN toPrime \/ k = Len(toPrime) + 1
          /\ toPrime'[Len(toPrime) + 1] = m
      BY <2>1, <2>2, <1>q, SentMore
    <2>4. \A c \in Blocks : minedOn'[c] = IF c = b THEN jobs[i] ELSE minedOn[c]
      BY <2>2, <1>0 DEF TypeOK
    <2>5. TypeOK'
      <3>1. minedOn' \in [Blocks -> Templates \cup {None}]
        BY <2>2, <1>0 DEF TypeOK
      <3> QED
        BY <3>1, <2>2, <2>3, <1>0 DEF TypeOK
    <2>6. FramesInv'
      <3>1. submit[b] = "none" /\ \A k \in DOMAIN toPrime :
              toPrime[k].type = "candidate" => toPrime[k].block # b
        BY <2>2, <1>0 DEF FramesInv
      <3>2. \A k \in DOMAIN toPrime : toPrime[k].type = "candidate" => toPrime[k].block \in Blocks
        BY <1>q, MessageFields
      <3>3. ASSUME NEW k \in DOMAIN toPrime', toPrime'[k].type = "candidate"
            PROVE  /\ minedOn'[toPrime'[k].block] # None
                   /\ submit[toPrime'[k].block] = "none"
                   /\ \A l \in DOMAIN toPrime' : l # k /\ toPrime'[l].type = "candidate"
                          => toPrime'[l].block # toPrime'[k].block
        <4>1. CASE k \in DOMAIN toPrime
          BY <4>1, <3>1, <3>2, <3>3, <2>1, <2>2, <2>3, <2>4, <1>0 DEF FramesInv
        <4>2. CASE k = Len(toPrime) + 1
          BY <4>2, <3>1, <3>3, <2>1, <2>2, <2>3, <2>4
        <4> QED
          BY <4>1, <4>2, <2>3
      <3>4. \A c \in Blocks : submit[c] # "none" => minedOn'[c] # None
        BY <2>2, <2>4, <1>0 DEF FramesInv
      <3> QED
        BY <3>3, <3>4, <2>2 DEF FramesInv
    <2>7. PendingIsHeld'
      BY <2>2, <1>0 DEF PendingIsHeld, HeldOnce
    <2> QED
      BY <2>5, <2>6, <2>7 DEF HoldInv
  <1>3. ASSUME NEW m \in ToPrime, m.type # "candidate", toPrime' = Append(toPrime, m),
               toGateway' \in Seq(Ids), unasked' \in 0..MaxUnasked,
               UNCHANGED <<jobs, minedOn, pending, waited, submit, txns, sessions, busy>>
        PROVE  HoldInv'
    <2>1. /\ toPrime' \in Seq(ToPrime)
          /\ \A k \in DOMAIN toPrime : k \in DOMAIN toPrime' /\ toPrime'[k] = toPrime[k]
          /\ \A k \in DOMAIN toPrime' : k \in DOMAIN toPrime \/ k = Len(toPrime) + 1
          /\ toPrime'[Len(toPrime) + 1] = m
      BY <1>3, <1>q, SentMore
    <2>2. TypeOK'
      BY <2>1, <1>0, <1>3 DEF TypeOK
    <2>3. FramesInv'
      BY <2>1, <1>0, <1>3 DEF FramesInv
    <2>4. PendingIsHeld'
      BY <1>0, <1>3 DEF PendingIsHeld, HeldOnce
    <2> QED
      BY <2>2, <2>3, <2>4 DEF HoldInv
  <1>4. ASSUME NEW kind \in Kinds, Answer(kind)
        PROVE  HoldInv'
    <2> DEFINE i == Head(toGateway)
    <2>1. /\ toGateway # << >> /\ toGateway' = Tail(toGateway)
          /\ toPrime' = Append(toPrime, Reply(kind, i))
          /\ UNCHANGED <<jobs, minedOn, pending, waited, submit, txns, sessions, unasked, busy>>
      BY <1>4 DEF Answer
    <2>2. i \in Ids /\ toGateway' \in Seq(Ids)
      BY <2>1, <1>q, AnsweredOne
    <2>3. Reply(kind, i) \in ToPrime /\ Reply(kind, i).type # "candidate"
      BY <2>2, <1>0, ReplyIs
    <2>4. unasked' \in 0..MaxUnasked
      BY <2>1, <1>0 DEF TypeOK
    <2> QED
      BY <2>1, <2>2, <2>3, <2>4, <1>3
  <1>5. ASSUME NEW kind \in Kinds, NEW i \in Ids, AnswerUnasked(kind, i)
        PROVE  HoldInv'
    <2>1. /\ unasked < MaxUnasked /\ unasked' = unasked + 1
          /\ toPrime' = Append(toPrime, Reply(kind, i))
          /\ UNCHANGED <<jobs, minedOn, toGateway, pending, waited, submit, txns, sessions, busy>>
      BY <1>5 DEF AnswerUnasked
    <2>2. Reply(kind, i) \in ToPrime /\ Reply(kind, i).type # "candidate"
      BY <1>0, ReplyIs
    <2>3. unasked' \in 0..MaxUnasked
      BY <2>1, <1>0, CandidatesAssumption DEF TypeOK
    <2>4. toGateway' \in Seq(Ids)
      BY <2>1, <1>q
    <2> QED
      BY <2>1, <2>2, <2>3, <2>4, <1>3
  <1> QED
    BY <1>1, <1>2, <1>4, <1>5 DEF Gateway

\* The frames left after one is handled are as they were.
LEMMA FramesHandled ==
  ASSUME HoldInv, toPrime # << >>, toPrime' = Tail(toPrime), minedOn' = minedOn,
         \A k \in DOMAIN toPrime : k # 1 /\ toPrime[k].type = "candidate"
            => submit'[toPrime[k].block] = submit[toPrime[k].block],
         \A b \in Blocks : submit'[b] # "none" => minedOn[b] # None
  PROVE  FramesInv'
  <1>1. /\ \A k \in DOMAIN toPrime' :
             k \in Nat /\ k >= 1 /\ k + 1 \in DOMAIN toPrime /\ toPrime'[k] = toPrime[k + 1]
    BY HandledOne DEF HoldInv, TypeOK
  <1>2. ASSUME NEW k \in DOMAIN toPrime', toPrime'[k].type = "candidate"
        PROVE  /\ minedOn[toPrime'[k].block] # None
               /\ submit'[toPrime'[k].block] = "none"
               /\ \A l \in DOMAIN toPrime' : l # k /\ toPrime'[l].type = "candidate"
                      => toPrime'[l].block # toPrime'[k].block
    <2>1. k + 1 \in DOMAIN toPrime /\ k + 1 # 1 /\ toPrime[k + 1].type = "candidate" /\ toPrime'[k] = toPrime[k + 1]
      BY <1>1, <1>2
    <2>2. /\ minedOn[toPrime[k + 1].block] # None
          /\ submit[toPrime[k + 1].block] = "none"
          /\ \A l \in DOMAIN toPrime : l # k + 1 /\ toPrime[l].type = "candidate"
                => toPrime[l].block # toPrime[k + 1].block
      BY <2>1 DEF HoldInv, FramesInv
    <2>3. \A l \in DOMAIN toPrime' : l # k => l + 1 # k + 1
      BY <1>1
    <2> QED
      BY <2>1, <2>2, <2>3, <1>1
  <1> QED
    BY <1>2 DEF FramesInv

\* A handled candidate is held once; a handled reply empties its job id.
LEMMA HoldFrame ==
  ASSUME HoldInv, HandleFrame
  PROVE  HoldInv'
  <1>0. TypeOK /\ FramesInv /\ PendingIsHeld
    BY DEF HoldInv
  <1>q. toPrime \in Seq(ToPrime) /\ toPrime # << >> /\ 1 \in DOMAIN toPrime
    BY <1>0 DEF TypeOK, HandleFrame
  <1>f. \A k \in DOMAIN toPrime : toPrime[k].type = "candidate" => toPrime[k].block \in Blocks
    BY <1>q, MessageFields
  <1>n. \A i \in Ids, c \in Blocks : pending[i][c] \in Nat
    BY <1>0 DEF TypeOK
  <1>1. CASE toPrime[1].type = "candidate"
    <2> DEFINE b == toPrime[1].block
               i == toPrime[1].id
    <2>1. /\ toPrime' = Tail(toPrime) /\ i \in Ids /\ b \in Blocks
          /\ \A c \in Blocks : /\ submit'[c] = IF c = b THEN "pending" ELSE submit[c]
                               /\ waited'[c] = IF c = b THEN 0 ELSE waited[c]
                               /\ \A j \in Ids : pending'[j][c] =
                                    IF j = i /\ c = b THEN pending[j][c] + 1 ELSE pending[j][c]
          /\ minedOn' = minedOn
          /\ TypeOK'
      BY <1>0, <1>1, CandidateEffect
    <2>2. /\ minedOn[b] # None /\ submit[b] = "none"
          /\ \A l \in DOMAIN toPrime : l # 1 /\ toPrime[l].type = "candidate" => toPrime[l].block # b
      BY <1>0, <1>1, <1>q DEF FramesInv
    <2> HIDE DEF b, i
    <2>3. \A j \in Ids : pending[j][b] = 0
      BY <2>1, <2>2, <1>0 DEF PendingIsHeld
    <2>4. FramesInv'
      <3>1. \A k \in DOMAIN toPrime : k # 1 /\ toPrime[k].type = "candidate"
               => submit'[toPrime[k].block] = submit[toPrime[k].block]
        BY <2>1, <2>2, <1>f
      <3>2. \A c \in Blocks : submit'[c] # "none" => minedOn[c] # None
        BY <2>1, <2>2, <1>0 DEF FramesInv
      <3> QED
        BY <3>1, <3>2, <2>1, <1>q, FramesHandled
    <2>5. PendingIsHeld'
      <3>1. ASSUME NEW c \in Blocks, c # b
            PROVE  /\ submit'[c] = submit[c] /\ waited'[c] = waited[c]
                   /\ \A j \in Ids : pending'[j][c] = pending[j][c]
        BY <3>1, <2>1
      <3>2. pending'[i][b] = 1 /\ \A j \in Ids \ {i} : pending'[j][b] = 0
        BY <2>1, <2>3
      <3>3. submit'[b] = "pending"
        BY <2>1
      <3> QED
        BY <3>1, <3>2, <3>3, <2>1, <1>0 DEF PendingIsHeld, HeldOnce
    <2> QED
      BY <2>1, <2>4, <2>5 DEF HoldInv
  <1>2. CASE toPrime[1].type \in {"transactions", "error"}
    <2> DEFINE i == toPrime[1].id
    <2>1. /\ toPrime' = Tail(toPrime) /\ i \in Ids
          /\ \A c \in Blocks :
               /\ IF pending[i][c] > 0 THEN submit'[c] \in {"submitted", "no-transactions"}
                                       ELSE submit'[c] = submit[c]
               /\ \A j \in Ids : pending'[j][c] = IF j = i THEN 0 ELSE pending[j][c]
          /\ UNCHANGED <<waited, minedOn>>
          /\ TypeOK'
      BY <1>0, <1>2, ResolveEffect
    <2> HIDE DEF i
    <2>2. \A c \in Blocks : submit[c] # "pending" => submit'[c] = submit[c]
      <3>1. \A c \in Blocks : submit[c] # "pending" => pending[i][c] = 0
        BY <2>1, <1>0 DEF PendingIsHeld
      <3> QED
        BY <3>1, <2>1, <1>n
    <2>3. FramesInv'
      <3>1. \A k \in DOMAIN toPrime : k # 1 /\ toPrime[k].type = "candidate"
               => submit'[toPrime[k].block] = submit[toPrime[k].block]
        BY <2>2, <1>f, <1>0 DEF FramesInv
      <3>2. \A c \in Blocks : submit'[c] # "none" => minedOn[c] # None
        BY <2>2, <1>0 DEF FramesInv
      <3> QED
        BY <3>1, <3>2, <2>1, <1>q, FramesHandled
    <2>4. PendingIsHeld'
      <3>1. ASSUME NEW c \in Blocks
            PROVE  /\ submit'[c] = "pending" => \E k \in Ids : HeldOnce(c, k)'
                   /\ submit'[c] # "pending" => \A j \in Ids : pending'[j][c] = 0
                   /\ submit'[c] = "swept" => waited'[c] = TTL
        <4>1. CASE pending[i][c] > 0
          <5>1. submit[c] = "pending"
            BY <4>1, <2>1, <1>0 DEF PendingIsHeld
          <5>2. PICK k \in Ids : HeldOnce(c, k)
            BY <5>1, <1>0 DEF PendingIsHeld
          <5>3. k = i
            BY <5>2, <4>1, <2>1 DEF HeldOnce
          <5>4. \A j \in Ids : pending'[j][c] = 0
            BY <5>2, <5>3, <2>1 DEF HeldOnce
          <5> QED
            BY <5>4, <4>1, <2>1
        <4>2. CASE ~(pending[i][c] > 0)
          <5>1. submit'[c] = submit[c] /\ waited'[c] = waited[c] /\ pending[i][c] = 0
            BY <4>2, <2>1, <1>n
          <5>2. \A j \in Ids : pending'[j][c] = pending[j][c]
            BY <5>1, <2>1
          <5> QED
            BY <5>1, <5>2, <1>0 DEF PendingIsHeld, HeldOnce
        <4> QED
          BY <4>1, <4>2
      <3> QED
        BY <3>1 DEF PendingIsHeld
    <2> QED
      BY <2>1, <2>3, <2>4 DEF HoldInv
  <1>3. CASE toPrime[1].type \notin {"candidate", "transactions", "error"}
    <2>1. /\ toPrime' = Tail(toPrime) /\ UNCHANGED <<pending, submit, waited, minedOn>>
          /\ TypeOK'
      BY <1>0, <1>3, PutBackEffect
    <2>2. FramesInv'
      <3>1. \A c \in Blocks : submit'[c] # "none" => minedOn[c] # None
        BY <2>1, <1>0 DEF FramesInv
      <3> QED
        BY <3>1, <2>1, <1>q, FramesHandled
    <2>3. PendingIsHeld'
      BY <2>1, <1>0 DEF PendingIsHeld, HeldOnce
    <2> QED
      BY <2>1, <2>2, <2>3 DEF HoldInv
  <1> QED
    BY <1>1, <1>2, <1>3

\* The sweep takes from the table what it marks, and nothing else.
LEMMA HoldTick ==
  ASSUME HoldInv, Tick
  PROVE  HoldInv'
  <1>0. TypeOK /\ FramesInv /\ PendingIsHeld
    BY DEF HoldInv
  <1>1. /\ \A c \in Blocks :
             /\ submit'[c] = IF submit[c] = "pending" /\ waited[c] >= TTL THEN "swept" ELSE submit[c]
             /\ \A j \in Ids : pending'[j][c] = IF waited[c] < TTL THEN pending[j][c] ELSE 0
             /\ waited[c] \in Nat /\ waited[c] <= TTL /\ TTL \in Nat
        /\ UNCHANGED <<minedOn, toPrime, waited>>
        /\ TypeOK'
    BY <1>0, SweepEffect
  <1>2. FramesInv'
    <2>1. \A k \in DOMAIN toPrime : toPrime[k].type = "candidate" => toPrime[k].block \in Blocks
      BY <1>0, MessageFields DEF TypeOK
    <2>2. \A c \in Blocks : submit[c] = "none" => submit'[c] = "none"
      BY <1>1
    <2>3. \A c \in Blocks : submit'[c] # "none" => minedOn[c] # None
      BY <1>1, <1>0 DEF FramesInv
    <2> QED
      BY <2>1, <2>2, <2>3, <1>1, <1>0 DEF FramesInv
  <1>3. PendingIsHeld'
    <2>1. ASSUME NEW c \in Blocks
          PROVE  /\ submit'[c] = "pending" => \E k \in Ids : HeldOnce(c, k)'
                 /\ submit'[c] # "pending" => \A j \in Ids : pending'[j][c] = 0
                 /\ submit'[c] = "swept" => waited'[c] = TTL
      <3>1. CASE waited[c] < TTL
        <4>1. submit'[c] = submit[c] /\ \A j \in Ids : pending'[j][c] = pending[j][c]
          BY <3>1, <1>1
        <4> QED
          BY <4>1, <1>1, <1>0 DEF PendingIsHeld, HeldOnce
      <3>2. CASE ~(waited[c] < TTL)
        <4>1. waited[c] = TTL /\ waited[c] >= TTL /\ \A j \in Ids : pending'[j][c] = 0
          BY <3>2, <1>1
        <4>2. submit'[c] # "pending"
          BY <4>1, <1>1
        <4> QED
          BY <4>1, <4>2, <1>1
      <3> QED
        BY <3>1, <3>2
    <2> QED
      BY <2>1 DEF PendingIsHeld
  <1> QED
    BY <1>1, <1>2, <1>3 DEF HoldInv

\* A session's end empties the table and both channels.
LEMMA HoldReconnect ==
  ASSUME HoldInv, Reconnect
  PROVE  HoldInv'
  <1>0. TypeOK /\ FramesInv /\ PendingIsHeld
    BY DEF HoldInv
  <1>s. /\ sessions < MaxSessions /\ sessions' = sessions + 1
        /\ toPrime' = << >> /\ toGateway' = << >>
        /\ pending' = [i \in Ids |-> Nothing]
        /\ submit' = [b \in Blocks |-> IF submit[b] = "pending" THEN "lost" ELSE submit[b]]
        /\ unasked' = 0 /\ busy' = "no"
        /\ UNCHANGED <<jobs, minedOn, waited, txns>>
    BY DEF Reconnect
  <1>1. TypeOK'
    <2>1. submit' \in [Blocks -> Fates]
      BY <1>s, <1>0 DEF TypeOK, Fates
    <2>2. pending' \in [Ids -> [Blocks -> Nat]]
      BY <1>s DEF Nothing
    <2>3. sessions' \in 1..MaxSessions /\ unasked' \in 0..MaxUnasked
      BY <1>s, <1>0, CandidatesAssumption DEF TypeOK
    <2> QED
      BY <2>1, <2>2, <2>3, <1>s, <1>0 DEF TypeOK
  <1>2. FramesInv'
    BY <1>s, <1>0 DEF FramesInv
  <1>3. PendingIsHeld'
    BY <1>s, <1>0 DEF PendingIsHeld, HeldOnce, Nothing
  <1> QED
    BY <1>1, <1>2, <1>3 DEF HoldInv

\* Only what is pending grows older.
LEMMA HoldTime ==
  ASSUME HoldInv, TimePasses
  PROVE  HoldInv'
  <1>0. TypeOK /\ FramesInv /\ PendingIsHeld
    BY DEF HoldInv
  <1>s. /\ waited' = [b \in Blocks |-> IF submit[b] = "pending" /\ waited[b] < TTL
                                       THEN waited[b] + 1 ELSE waited[b]]
        /\ UNCHANGED <<jobs, minedOn, toPrime, toGateway, pending, submit, txns, sessions, unasked, busy>>
    BY DEF TimePasses
  <1>1. TypeOK'
    <2>1. waited' \in [Blocks -> 0..TTL]
      BY <1>s, <1>0, CandidatesAssumption DEF TypeOK
    <2> QED
      BY <2>1, <1>s, <1>0 DEF TypeOK
  <1>2. FramesInv'
    BY <1>s, <1>0 DEF FramesInv
  <1>3. PendingIsHeld'
    <2>1. \A b \in Blocks : submit[b] = "swept" => waited'[b] = waited[b]
      BY <1>s
    <2> QED
      BY <2>1, <1>s, <1>0 DEF PendingIsHeld, HeldOnce
  <1> QED
    BY <1>1, <1>2, <1>3 DEF HoldInv

\* A write, and its end, leave the table alone.
LEMMA HoldWrite ==
  ASSUME HoldInv, LoopWrites \/ Written
  PROVE  HoldInv'
  <1>1. /\ UNCHANGED <<jobs, minedOn, toPrime, toGateway, pending, waited, submit,
                       txns, sessions, unasked>>
        /\ busy' \in {"no", "writing"}
    BY DEF LoopWrites, Written
  <1> QED
    BY <1>1 DEF HoldInv, TypeOK, FramesInv, PendingIsHeld, HeldOnce

\* Every step keeps the table exact.
LEMMA HoldStep == HoldInv /\ [Next]_vars => HoldInv'
  <1> SUFFICES ASSUME HoldInv, [Next]_vars
               PROVE  HoldInv'
    OBVIOUS
  <1>1. CASE Next
    BY <1>1, HoldGateway, HoldFrame, HoldTick, HoldWrite, HoldReconnect, HoldTime DEF Next
  <1>2. CASE UNCHANGED vars
    BY <1>2 DEF vars, HoldInv, TypeOK, FramesInv, PendingIsHeld, HeldOnce
  <1> QED
    BY <1>1, <1>2

\* The invariant of the table holds throughout.
LEMMA HoldInvariant == Spec => []HoldInv
  BY HoldInit, HoldStep, PTL DEF Spec

\* The table, the records and both channels stay well formed.
THEOREM TypeCorrect == Spec => []TypeOK
  <1>1. HoldInv => TypeOK
    BY DEF HoldInv
  <1> QED
    BY <1>1, HoldInvariant, PTL

\* A candidate is in pending_blocks once while its record says pending and not
\* otherwise, whatever replies come, and the sweep takes only what has waited
\* for the whole TTL.
THEOREM TableExact == Spec => []PendingIsHeld
  <1>1. HoldInv => PendingIsHeld
    BY DEF HoldInv
  <1> QED
    BY <1>1, HoldInvariant, PTL

-----------------------------------------------------------------------------
(* The transactions *)

\* Nothing is sent or assembled at first.
LEMMA TxnsInit == Init => TxnsInv
  BY DEF Init, TxnsInv, AnswersInv, OwnTransactions, Nothing

\* A job id moves only when nothing sent on it is unanswered: what is still
\* held under it waits for an answer under way.
LEMMA TxnsNewJob ==
  ASSUME ~EarlyReuse, HoldInv, TxnsInv, NEW i \in Ids, NEW t \in Templates, NewJob(i, t)
  PROVE  TxnsInv'
  <1>0. TypeOK /\ AnswersInv /\ OwnTransactions
    BY DEF HoldInv, TxnsInv
  <1>s. /\ ~Open(i) /\ jobs' = [jobs EXCEPT ![i] = t]
        /\ UNCHANGED <<minedOn, toPrime, toGateway, pending, txns>>
    BY DEF NewJob
  <1>j. \A j \in Ids \ {i} : jobs'[j] = jobs[j]
    BY <1>s, <1>0 DEF TypeOK
  <1>o. /\ ~Asked(i)
        /\ \A k \in DOMAIN toPrime : toPrime[k].type = "candidate" => toPrime[k].id # i
    BY <1>s DEF Open, Asked
  <1>f. \A k \in DOMAIN toPrime : toPrime[k].id \in Ids
    BY <1>0, MessageFields DEF TypeOK
  <1>1. ASSUME NEW k \in DOMAIN toPrime', toPrime'[k].type = "candidate"
        PROVE  /\ minedOn'[toPrime'[k].block] = jobs'[toPrime'[k].id]
               /\ \A l \in DOMAIN toPrime' : l > k /\ Brings(toPrime'[l], toPrime'[k].id)
                      => toPrime'[l].txns = jobs'[toPrime'[k].id]
    BY <1>1, <1>s, <1>j, <1>o, <1>f, <1>0 DEF AnswersInv
  <1>2. ASSUME NEW j \in Ids, NEW c \in Blocks, pending'[j][c] > 0
        PROVE  Covered(c, j)'
    <2>1. Covered(c, j)
      BY <1>2, <1>s, <1>0 DEF AnswersInv
    <2> QED
      BY <2>1, <1>s, <1>j, <1>o DEF Covered, Asked
  <1>3. OwnTransactions'
    BY <1>s, <1>0 DEF OwnTransactions
  <1> QED
    BY <1>1, <1>2, <1>3 DEF TxnsInv, AnswersInv

\* A block's frame is behind everything that was sent on its job id before.
LEMMA TxnsSolve ==
  ASSUME HoldInv, TxnsInv, NEW i \in Ids, NEW b \in Blocks, Solve(i, b)
  PROVE  TxnsInv'
  <1> DEFINE m == [type |-> "candidate", id |-> i, block |-> b]
             n == Len(toPrime) + 1
  <1>0. TypeOK /\ FramesInv /\ PendingIsHeld /\ AnswersInv /\ OwnTransactions
    BY DEF HoldInv, TxnsInv
  <1>q. toPrime \in Seq(ToPrime)
    BY <1>0 DEF TypeOK
  <1>m. m \in ToPrime /\ m.type = "candidate" /\ m.block = b /\ m.id = i
    BY DEF ToPrime
  <1>s. /\ minedOn[b] = None
        /\ minedOn' = [minedOn EXCEPT ![b] = jobs[i]]
        /\ toPrime' = Append(toPrime, m)
        /\ UNCHANGED <<jobs, toGateway, pending, submit, txns>>
    BY DEF Solve
  <1> HIDE DEF m
  <1>d. /\ Len(toPrime) \in Nat
        /\ \A k \in DOMAIN toPrime : k \in DOMAIN toPrime' /\ toPrime'[k] = toPrime[k] /\ k \in Nat /\ k < n
        /\ \A k \in DOMAIN toPrime' : k \in DOMAIN toPrime \/ k = n
        /\ toPrime'[n] = m
    BY <1>m, <1>s, <1>q, SentMore
  <1>n. n \in Nat
    BY <1>d
  <1> HIDE DEF n
  <1>b. \A c \in Blocks : minedOn'[c] = IF c = b THEN jobs[i] ELSE minedOn[c]
    BY <1>s, <1>0 DEF TypeOK
  <1>f. \A k \in DOMAIN toPrime : toPrime[k].type = "candidate" =>
           toPrime[k].block \in Blocks /\ toPrime[k].block # b
    BY <1>q, <1>s, <1>0, MessageFields DEF FramesInv
  <1>1. ASSUME NEW k \in DOMAIN toPrime', toPrime'[k].type = "candidate"
        PROVE  /\ minedOn'[toPrime'[k].block] = jobs'[toPrime'[k].id]
               /\ \A l \in DOMAIN toPrime' : l > k /\ Brings(toPrime'[l], toPrime'[k].id)
                      => toPrime'[l].txns = jobs'[toPrime'[k].id]
    <2>1. CASE k \in DOMAIN toPrime
      <3>1. /\ minedOn[toPrime[k].block] = jobs[toPrime[k].id]
            /\ \A l \in DOMAIN toPrime : l > k /\ Brings(toPrime[l], toPrime[k].id)
                   => toPrime[l].txns = jobs[toPrime[k].id]
        BY <2>1, <1>1, <1>d, <1>0 DEF AnswersInv
      <3>2. minedOn'[toPrime[k].block] = minedOn[toPrime[k].block]
        BY <2>1, <1>1, <1>d, <1>b, <1>f
      <3>3. ~Brings(toPrime'[n], toPrime'[k].id)
        BY <1>d, <1>m DEF Brings
      <3> QED
        BY <2>1, <3>1, <3>2, <3>3, <1>d, <1>s
    <2>2. CASE k = n
      <3>1. \A l \in DOMAIN toPrime' : ~(l > k)
        BY <2>2, <1>d, <1>n
      <3> QED
        BY <2>2, <3>1, <1>d, <1>m, <1>b, <1>s
    <2> QED
      BY <2>1, <2>2, <1>d
  <1>2. ASSUME NEW j \in Ids, NEW c \in Blocks, pending'[j][c] > 0
        PROVE  Covered(c, j)'
    <2>1. Covered(c, j) /\ submit[c] = "pending"
      BY <1>2, <1>s, <1>0 DEF AnswersInv, PendingIsHeld
    <2>2. c # b
      BY <2>1, <1>s, <1>0 DEF FramesInv
    <2>3. minedOn'[c] = minedOn[c]
      BY <2>2, <1>b
    <2>4. ~Brings(toPrime'[n], j)
      BY <1>d, <1>m DEF Brings
    <2>5. Asked(j)' <=> Asked(j)
      BY <1>s DEF Asked
    <2>6. CASE /\ Asked(j) /\ minedOn[c] = jobs[j]
               /\ \A l \in DOMAIN toPrime : Brings(toPrime[l], j) => toPrime[l].txns = minedOn[c]
      BY <2>6, <2>3, <2>4, <2>5, <1>d, <1>s DEF Covered
    <2>7. ASSUME NEW a \in DOMAIN toPrime,
                 toPrime[a].type \in {"transactions", "error"}, toPrime[a].id = j,
                 \A l \in DOMAIN toPrime : l <= a /\ Brings(toPrime[l], j) => toPrime[l].txns = minedOn[c]
          PROVE  Covered(c, j)'
      <3>1. a \in DOMAIN toPrime' /\ toPrime'[a] = toPrime[a]
        BY <1>d
      <3>2. \A l \in DOMAIN toPrime' : l <= a /\ Brings(toPrime'[l], j) => toPrime'[l].txns = minedOn'[c]
        BY <2>3, <2>4, <2>7, <1>d
      <3> QED
        BY <3>1, <3>2, <2>7 DEF Covered
    <2> QED
      BY <2>1, <2>6, <2>7 DEF Covered
  <1>3. OwnTransactions'
    BY <1>s, <1>b, <1>0 DEF OwnTransactions
  <1> QED
    BY <1>1, <1>2, <1>3 DEF TxnsInv, AnswersInv

\* A reply brings what its job id stands for; it may be the answer that what is
\* held under the id was waiting for.
LEMMA TxnsReply ==
  ASSUME HoldInv, TxnsInv, NEW m \in ToPrime, m.type # "candidate",
         \A j \in Ids : Brings(m, j) => m.txns = jobs[j],
         toPrime' = Append(toPrime, m),
         \A j \in Ids : Asked(j) => \/ Asked(j)'
                                    \/ m.type \in {"transactions", "error"} /\ m.id = j,
         UNCHANGED <<jobs, minedOn, pending, txns>>
  PROVE  TxnsInv'
  <1> DEFINE n == Len(toPrime) + 1
  <1>0. TypeOK /\ AnswersInv /\ OwnTransactions
    BY DEF HoldInv, TxnsInv
  <1>q. toPrime \in Seq(ToPrime)
    BY <1>0 DEF TypeOK
  <1>d. /\ Len(toPrime) \in Nat
        /\ \A k \in DOMAIN toPrime : k \in DOMAIN toPrime' /\ toPrime'[k] = toPrime[k] /\ k \in Nat /\ k < n
        /\ n \in DOMAIN toPrime'
        /\ \A k \in DOMAIN toPrime' : k \in DOMAIN toPrime \/ k = n
        /\ toPrime'[n] = m
    BY <1>q, SentMore
  <1>n. n \in Nat
    BY <1>d
  <1> HIDE DEF n
  <1>f. \A k \in DOMAIN toPrime : toPrime[k].id \in Ids
    BY <1>q, MessageFields
  <1>1. ASSUME NEW k \in DOMAIN toPrime', toPrime'[k].type = "candidate"
        PROVE  /\ minedOn'[toPrime'[k].block] = jobs'[toPrime'[k].id]
               /\ \A l \in DOMAIN toPrime' : l > k /\ Brings(toPrime'[l], toPrime'[k].id)
                      => toPrime'[l].txns = jobs'[toPrime'[k].id]
    <2>1. k \in DOMAIN toPrime
      BY <1>1, <1>d
    <2>2. /\ minedOn[toPrime[k].block] = jobs[toPrime[k].id]
          /\ \A l \in DOMAIN toPrime : l > k /\ Brings(toPrime[l], toPrime[k].id)
                 => toPrime[l].txns = jobs[toPrime[k].id]
      BY <2>1, <1>1, <1>d, <1>0 DEF AnswersInv
    <2>3. Brings(toPrime'[n], toPrime[k].id) => toPrime'[n].txns = jobs[toPrime[k].id]
      BY <2>1, <1>d, <1>f
    <2> QED
      BY <2>1, <2>2, <2>3, <1>d
  <1>2. ASSUME NEW j \in Ids, NEW c \in Blocks, pending'[j][c] > 0
        PROVE  Covered(c, j)'
    <2>1. Covered(c, j)
      BY <1>2, <1>0 DEF AnswersInv
    <2>2. CASE /\ Asked(j) /\ minedOn[c] = jobs[j]
               /\ \A l \in DOMAIN toPrime : Brings(toPrime[l], j) => toPrime[l].txns = minedOn[c]
      <3>1. \A l \in DOMAIN toPrime' : Brings(toPrime'[l], j) => toPrime'[l].txns = minedOn'[c]
        BY <2>2, <1>d
      <3>2. CASE Asked(j)'
        BY <3>1, <3>2, <2>2 DEF Covered
      <3>3. CASE m.type \in {"transactions", "error"} /\ m.id = j
        BY <3>1, <3>3, <1>d DEF Covered
      <3> QED
        BY <3>2, <3>3, <2>2
    <2>3. ASSUME NEW a \in DOMAIN toPrime,
                 toPrime[a].type \in {"transactions", "error"}, toPrime[a].id = j,
                 \A l \in DOMAIN toPrime : l <= a /\ Brings(toPrime[l], j) => toPrime[l].txns = minedOn[c]
          PROVE  Covered(c, j)'
      <3>1. a \in DOMAIN toPrime' /\ toPrime'[a] = toPrime[a] /\ ~(n <= a)
        BY <1>d, <1>n
      <3>2. \A l \in DOMAIN toPrime' : l <= a /\ Brings(toPrime'[l], j) => toPrime'[l].txns = minedOn'[c]
        BY <2>3, <3>1, <1>d
      <3> QED
        BY <3>1, <3>2, <2>3 DEF Covered
    <2> QED
      BY <2>1, <2>2, <2>3 DEF Covered
  <1>3. OwnTransactions'
    BY <1>0 DEF OwnTransactions
  <1> QED
    BY <1>1, <1>2, <1>3 DEF TxnsInv, AnswersInv

\* The gateway's replies, asked for or not.
LEMMA TxnsReplies ==
  ASSUME HoldInv, TxnsInv
  PROVE  /\ \A kind \in Kinds : Answer(kind) => TxnsInv'
         /\ \A kind \in Kinds, i \in Ids : AnswerUnasked(kind, i) => TxnsInv'
  <1>0. TypeOK /\ toGateway \in Seq(Ids)
    BY DEF HoldInv, TypeOK
  <1>1. ASSUME NEW kind \in Kinds, Answer(kind)
        PROVE  TxnsInv'
    <2> DEFINE i == Head(toGateway)
               m == Reply(kind, i)
    <2>1. /\ toGateway # << >> /\ toGateway' = Tail(toGateway) /\ kind # "short-ids"
          /\ toPrime' = Append(toPrime, m)
          /\ UNCHANGED <<jobs, minedOn, pending, txns>>
      BY <1>1 DEF Answer
    <2>2. /\ i \in Ids /\ i = toGateway[1]
          /\ \A k \in DOMAIN toGateway : k # 1 => k - 1 \in DOMAIN toGateway' /\ toGateway'[k - 1] = toGateway[k]
      BY <2>1, <1>0, AnsweredOne
    <2>3. /\ m \in ToPrime /\ m.type = kind /\ m.id = i /\ kind # "candidate"
          /\ kind = "transactions" => m.txns = jobs[i]
      BY <2>2, <1>0, ReplyIs
    <2>4. m.type \in {"transactions", "error"}
      BY <2>1, <2>3 DEF Kinds
    <2> HIDE DEF i, m
    <2>5. \A j \in Ids : Brings(m, j) => m.txns = jobs[j]
      BY <2>3 DEF Brings
    <2>6. \A j \in Ids : Asked(j) => Asked(j)' \/ (m.type \in {"transactions", "error"} /\ m.id = j)
      BY <2>2, <2>3, <2>4 DEF Asked
    <2>7. m.type # "candidate"
      BY <2>3
    <2> QED
      BY <2>1, <2>3, <2>5, <2>6, <2>7, TxnsReply
  <1>2. ASSUME NEW kind \in Kinds, NEW i \in Ids, AnswerUnasked(kind, i)
        PROVE  TxnsInv'
    <2> DEFINE m == Reply(kind, i)
    <2>1. /\ toPrime' = Append(toPrime, m)
          /\ UNCHANGED <<jobs, minedOn, toGateway, pending, txns>>
      BY <1>2 DEF AnswerUnasked
    <2>2. /\ m \in ToPrime /\ m.type = kind /\ m.id = i /\ kind # "candidate"
          /\ kind = "transactions" => m.txns = jobs[i]
      BY <1>0, ReplyIs
    <2> HIDE DEF m
    <2>3. \A j \in Ids : Brings(m, j) => m.txns = jobs[j]
      BY <2>2 DEF Brings
    <2>4. \A j \in Ids : Asked(j) => Asked(j)' \/ (m.type \in {"transactions", "error"} /\ m.id = j)
      BY <2>1 DEF Asked
    <2>5. m.type # "candidate"
      BY <2>2
    <2> QED
      BY <2>1, <2>2, <2>3, <2>4, <2>5, TxnsReply
  <1> QED
    BY <1>1, <1>2

\* What was covered stays covered when a frame that resolves nothing of its job
\* id is handled.
LEMMA CoveredOn ==
  ASSUME TypeOK, toPrime # << >>, toPrime' = Tail(toPrime), NEW j \in Ids, NEW c \in Blocks,
         Covered(c, j), ~(toPrime[1].type \in {"transactions", "error"} /\ toPrime[1].id = j),
         Asked(j) => Asked(j)', UNCHANGED <<jobs, minedOn>>
  PROVE  Covered(c, j)'
  <1>d. /\ 1 \in DOMAIN toPrime
        /\ \A k \in DOMAIN toPrime' :
             k \in Nat /\ k >= 1 /\ k + 1 \in DOMAIN toPrime /\ toPrime'[k] = toPrime[k + 1]
        /\ \A k \in DOMAIN toPrime : k # 1 => k \in Nat /\ k - 1 \in DOMAIN toPrime'
    BY HandledOne DEF TypeOK
  <1>1. CASE /\ Asked(j) /\ minedOn[c] = jobs[j]
             /\ \A l \in DOMAIN toPrime : Brings(toPrime[l], j) => toPrime[l].txns = minedOn[c]
    BY <1>1, <1>d DEF Covered
  <1>2. ASSUME NEW a \in DOMAIN toPrime,
               toPrime[a].type \in {"transactions", "error"}, toPrime[a].id = j,
               \A l \in DOMAIN toPrime : l <= a /\ Brings(toPrime[l], j) => toPrime[l].txns = minedOn[c]
        PROVE  Covered(c, j)'
    <2>1. a # 1
      BY <1>2
    <2>2. a \in Nat /\ a - 1 \in DOMAIN toPrime' /\ a - 1 + 1 = a
      BY <2>1, <1>d
    <2>3. toPrime'[a - 1] = toPrime[a]
      BY <2>2, <1>d
    <2>4. ASSUME NEW l \in DOMAIN toPrime', l <= a - 1, Brings(toPrime'[l], j)
          PROVE  toPrime'[l].txns = minedOn'[c]
      <3>1. l + 1 \in DOMAIN toPrime /\ l + 1 <= a /\ toPrime'[l] = toPrime[l + 1]
        BY <2>2, <2>4, <1>d
      <3> QED
        BY <3>1, <2>4, <1>2
    <2> QED
      BY <2>2, <2>3, <2>4, <1>2 DEF Covered
  <1> QED
    BY <1>1, <1>2 DEF Covered

\* The frames left after one is handled are on their templates as before.
LEMMA AnswersOn ==
  ASSUME TypeOK, AnswersInv, toPrime # << >>, toPrime' = Tail(toPrime), UNCHANGED <<jobs, minedOn>>
  PROVE  \A k \in DOMAIN toPrime' : toPrime'[k].type = "candidate" =>
           /\ minedOn'[toPrime'[k].block] = jobs'[toPrime'[k].id]
           /\ \A l \in DOMAIN toPrime' : l > k /\ Brings(toPrime'[l], toPrime'[k].id)
                  => toPrime'[l].txns = jobs'[toPrime'[k].id]
  <1>d. \A k \in DOMAIN toPrime' :
             k \in Nat /\ k >= 1 /\ k + 1 \in DOMAIN toPrime /\ toPrime'[k] = toPrime[k + 1]
    BY HandledOne DEF TypeOK
  <1> SUFFICES ASSUME NEW k \in DOMAIN toPrime', toPrime'[k].type = "candidate"
               PROVE  /\ minedOn[toPrime'[k].block] = jobs[toPrime'[k].id]
                      /\ \A l \in DOMAIN toPrime' : l > k /\ Brings(toPrime'[l], toPrime'[k].id)
                             => toPrime'[l].txns = jobs[toPrime'[k].id]
    OBVIOUS
  <1>1. k + 1 \in DOMAIN toPrime /\ toPrime[k + 1].type = "candidate" /\ toPrime'[k] = toPrime[k + 1]
    BY <1>d
  <1>2. /\ minedOn[toPrime[k + 1].block] = jobs[toPrime[k + 1].id]
        /\ \A l \in DOMAIN toPrime : l > k + 1 /\ Brings(toPrime[l], toPrime[k + 1].id)
               => toPrime[l].txns = jobs[toPrime[k + 1].id]
    BY <1>1 DEF AnswersInv
  <1>3. \A l \in DOMAIN toPrime' : l > k => l + 1 > k + 1
    BY <1>d
  <1> QED
    BY <1>1, <1>2, <1>3, <1>d

\* A candidate handled has its request on the way, and nothing of another
\* template behind it; a reply handled is the one its job's blocks wait for.
LEMMA TxnsFrame ==
  ASSUME HoldInv, TxnsInv, HandleFrame
  PROVE  TxnsInv'
  <1>0. TypeOK /\ FramesInv /\ PendingIsHeld /\ AnswersInv /\ OwnTransactions
    BY DEF HoldInv, TxnsInv
  <1>q. toPrime \in Seq(ToPrime) /\ toPrime # << >> /\ 1 \in DOMAIN toPrime /\ toGateway \in Seq(Ids)
    BY <1>0 DEF TypeOK, HandleFrame
  <1>n. \A j \in Ids, c \in Blocks : pending[j][c] \in Nat
    BY <1>0 DEF TypeOK
  <1>1. CASE toPrime[1].type = "candidate"
    <2>p. PICK i \in Ids, b \in Blocks : i = toPrime[1].id /\ b = toPrime[1].block
      BY <1>0, <1>1, CandidateEffect
    <2>1. /\ toPrime' = Tail(toPrime)
          /\ \A c \in Blocks, j \in Ids : pending'[j][c] =
                IF j = i /\ c = b THEN pending[j][c] + 1 ELSE pending[j][c]
          /\ toGateway' = Append(toGateway, i)
          /\ UNCHANGED <<txns, jobs, minedOn>>
      BY <1>0, <1>1, <2>p, CandidateEffect
    <2>2. /\ minedOn[b] = jobs[i]
          /\ \A l \in DOMAIN toPrime : l > 1 /\ Brings(toPrime[l], i) => toPrime[l].txns = jobs[i]
      BY <1>0, <1>1, <1>q, <2>p DEF AnswersInv
    <2>3. Asked(i)' /\ \A j \in Ids : Asked(j) => Asked(j)'
      <3>1. Len(toGateway) + 1 \in DOMAIN toGateway' /\ toGateway'[Len(toGateway) + 1] = i
        BY <2>1, <1>q
      <3>2. \A k \in DOMAIN toGateway : k \in DOMAIN toGateway' /\ toGateway'[k] = toGateway[k]
        BY <2>1, <1>q
      <3> QED
        BY <3>1, <3>2 DEF Asked
    <2>4. ASSUME NEW j \in Ids, NEW c \in Blocks, pending'[j][c] > 0
          PROVE  Covered(c, j)'
      <3>1. CASE j = i /\ c = b
        <4>1. \A k \in DOMAIN toPrime' : k + 1 \in DOMAIN toPrime /\ toPrime'[k] = toPrime[k + 1] /\ k + 1 > 1
          BY <2>1, <1>q, HandledOne
        <4>2. \A l \in DOMAIN toPrime' : Brings(toPrime'[l], i) => toPrime'[l].txns = minedOn[b]
          BY <4>1, <2>2
        <4> QED
          BY <4>2, <3>1, <2>1, <2>2, <2>3 DEF Covered
      <3>2. CASE ~(j = i /\ c = b)
        <4>1. Covered(c, j)
          BY <3>2, <2>4, <2>1, <1>0 DEF AnswersInv
        <4>2. ~(toPrime[1].type \in {"transactions", "error"} /\ toPrime[1].id = j)
          BY <1>1
        <4> QED
          BY <4>1, <4>2, <2>1, <2>3, <1>0, <1>q, CoveredOn
      <3> QED
        BY <3>1, <3>2
    <2>5. OwnTransactions'
      BY <2>1, <1>0 DEF OwnTransactions
    <2> QED
      BY <2>1, <2>4, <2>5, <1>0, <1>q, AnswersOn DEF TxnsInv, AnswersInv
  <1>2. CASE toPrime[1].type \in {"transactions", "error"}
    <2> DEFINE i == toPrime[1].id
    <2>1. /\ toPrime' = Tail(toPrime) /\ i \in Ids
          /\ \A c \in Blocks :
               /\ IF pending[i][c] > 0
                  THEN txns'[c] = IF toPrime[1].type = "transactions" THEN toPrime[1].txns ELSE None
                  ELSE txns'[c] = txns[c]
               /\ \A j \in Ids : pending'[j][c] = IF j = i THEN 0 ELSE pending[j][c]
          /\ UNCHANGED <<toGateway, jobs, minedOn>>
      BY <1>0, <1>2, ResolveEffect
    <2>2. ASSUME NEW j \in Ids, NEW c \in Blocks, pending'[j][c] > 0
          PROVE  Covered(c, j)'
      <3>1. j # i /\ pending[j][c] > 0
        BY <2>1, <2>2
      <3>2. Covered(c, j)
        BY <3>1, <1>0 DEF AnswersInv
      <3>3. Asked(j) => Asked(j)'
        BY <2>1 DEF Asked
      <3> QED
        BY <3>1, <3>2, <3>3, <2>1, <1>0, <1>q, CoveredOn
    <2>3. OwnTransactions'
      <3>1. ASSUME NEW c \in Blocks, pending[i][c] > 0, toPrime[1].type = "transactions"
            PROVE  toPrime[1].txns = minedOn[c]
        <4>1. Covered(c, i) /\ Brings(toPrime[1], i)
          BY <3>1, <2>1, <1>0 DEF AnswersInv, Brings
        <4>2. \A a \in DOMAIN toPrime : 1 <= a
          BY <1>q
        <4> QED
          BY <4>1, <4>2, <1>q DEF Covered
      <3> QED
        BY <3>1, <2>1, <1>0 DEF OwnTransactions
    <2> QED
      BY <2>1, <2>2, <2>3, <1>0, <1>q, AnswersOn DEF TxnsInv, AnswersInv
  <1>3. CASE toPrime[1].type \notin {"candidate", "transactions", "error"}
    <2>1. toPrime' = Tail(toPrime) /\ UNCHANGED <<pending, txns, toGateway, jobs, minedOn>>
      BY <1>0, <1>3, PutBackEffect
    <2>2. ASSUME NEW j \in Ids, NEW c \in Blocks, pending'[j][c] > 0
          PROVE  Covered(c, j)'
      <3>1. Covered(c, j)
        BY <2>1, <2>2, <1>0 DEF AnswersInv
      <3>2. Asked(j) => Asked(j)'
        BY <2>1 DEF Asked
      <3>3. ~(toPrime[1].type \in {"transactions", "error"} /\ toPrime[1].id = j)
        BY <1>3
      <3> QED
        BY <3>1, <3>2, <3>3, <2>1, <1>0, <1>q, CoveredOn
    <2>3. OwnTransactions'
      BY <2>1, <1>0 DEF OwnTransactions
    <2> QED
      BY <2>1, <2>2, <2>3, <1>0, <1>q, AnswersOn DEF TxnsInv, AnswersInv
  <1> QED
    BY <1>1, <1>2, <1>3

\* Ticks, writes, reconnects and time only take from what must be covered.
LEMMA TxnsRest ==
  ASSUME HoldInv, TxnsInv, Tick \/ Reconnect \/ TimePasses \/ LoopWrites \/ Written
  PROVE  TxnsInv'
  <1>0. TypeOK /\ AnswersInv /\ OwnTransactions
    BY DEF HoldInv, TxnsInv
  <1>1. CASE Tick
    <2>1. /\ \A c \in Blocks, j \in Ids : pending'[j][c] = IF waited[c] < TTL THEN pending[j][c] ELSE 0
          /\ UNCHANGED <<jobs, minedOn, toPrime, toGateway, txns>>
      BY <1>0, <1>1, SweepEffect
    <2>2. \A c \in Blocks, j \in Ids : pending'[j][c] > 0 => pending[j][c] > 0
      BY <2>1
    <2> QED
      BY <2>1, <2>2, <1>0 DEF TxnsInv, AnswersInv, OwnTransactions, Covered, Asked
  <1>2. CASE Reconnect
    <2>1. /\ toPrime' = << >> /\ pending' = [i \in Ids |-> Nothing]
          /\ UNCHANGED <<jobs, minedOn, txns>>
      BY <1>2 DEF Reconnect
    <2>2. \A c \in Blocks, j \in Ids : ~(pending'[j][c] > 0)
      BY <2>1 DEF Nothing
    <2> QED
      BY <2>1, <2>2, <1>0 DEF TxnsInv, AnswersInv, OwnTransactions
  <1>3. CASE TimePasses
    BY <1>0, <1>3 DEF TimePasses, TxnsInv, AnswersInv, OwnTransactions, Covered, Asked
  <1>4. CASE LoopWrites \/ Written
    <2>1. UNCHANGED <<jobs, minedOn, toPrime, toGateway, pending, txns>>
      BY <1>4 DEF LoopWrites, Written
    <2> QED
      BY <1>0, <2>1 DEF TxnsInv, AnswersInv, OwnTransactions, Covered, Asked
  <1> QED
    BY <1>1, <1>2, <1>3, <1>4

\* Every step keeps the transactions apart, if the gateway keeps its job ids.
LEMMA TxnsStep ==
  ASSUME ~EarlyReuse
  PROVE  HoldInv /\ TxnsInv /\ [Next]_vars => TxnsInv'
  <1> SUFFICES ASSUME HoldInv, TxnsInv, [Next]_vars
               PROVE  TxnsInv'
    OBVIOUS
  <1>1. CASE Gateway
    BY <1>1, TxnsNewJob, TxnsSolve, TxnsReplies DEF Gateway
  <1>2. CASE HandleFrame
    BY <1>2, TxnsFrame
  <1>3. CASE Tick \/ Reconnect \/ TimePasses \/ LoopWrites \/ Written
    BY <1>3, TxnsRest
  <1>4. CASE UNCHANGED vars
    BY <1>4 DEF vars, TxnsInv, AnswersInv, OwnTransactions, Covered, Asked
  <1> QED
    BY <1>1, <1>2, <1>3, <1>4 DEF Next

\* on_validation gives one transaction set to every candidate held under the
\* reply's job id: it is each one's own, whatever replies are late, repeated or
\* unasked, provided the gateway keeps a job id on its template while candidates
\* on it are unanswered.
THEOREM TransactionsOwn ==
  ASSUME ~EarlyReuse
  PROVE  Spec => []OwnTransactions
  <1>1. TxnsInv => OwnTransactions
    BY DEF TxnsInv
  <1>2. HoldInv /\ TxnsInv /\ [Next]_vars => TxnsInv'
    BY TxnsStep
  <1> QED
    BY <1>1, <1>2, TxnsInit, HoldInvariant, PTL DEF Spec
=============================================================================
