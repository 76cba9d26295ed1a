------------------------ MODULE CheckoutForm_proofs -------------------------
(***************************************************************************)
(* A reward comes off an order only on proof of the phone, guesses at one  *)
(* code stay bounded, and the sweep never takes a row under a guess: for   *)
(* any number of browsers, reloads, phones and codes, any lifetimes, and   *)
(* requests that end before the sweep's margin has passed.                 *)
(***************************************************************************)
EXTENDS CheckoutForm, FiniteSetTheorems, TLAPS

\* Time, typed.
LEMMA OlderType ==
    ASSUME NEW end \in Nat, NEW n \in 0..end
    PROVE  /\ Older(n, end) \in 0..end
           /\ Older(n, end) <= n + 1
           /\ \A m \in 0..end : m <= n => Older(m, end) <= Older(n, end)
BY DEF Older

LEMMA EndsAreNumbers == CodeEnd \in Nat /\ TokenEnd \in Nat
BY VerificationAssumption DEF CodeEnd, TokenEnd

LEMMA OlderTokenType ==
    ASSUME NEW t \in Tokens
    PROVE  /\ OlderToken(t) \in Tokens
           /\ OlderToken(t).phone = t.phone /\ OlderToken(t).key = t.key
           /\ OlderToken(t).age = Older(t.age, TokenEnd)
BY EndsAreNumbers, OlderType DEF OlderToken, Tokens

LEMMA OlderProofType ==
    ASSUME NEW p \in Proofs
    PROVE  /\ OlderToken(p) \in Proofs
           /\ OlderToken(p).phone = p.phone /\ OlderToken(p).key = p.key
           /\ OlderToken(p).code = p.code /\ OlderToken(p).inTime = p.inTime
           /\ OlderToken(p).age = Older(p.age, TokenEnd)
BY EndsAreNumbers, OlderType DEF OlderToken, Proofs

-----------------------------------------------------------------------------
\* Types.  Each request moves one browser from one kind of record to the next.

LEMMA VerifyTyped ==
    ASSUME VerifyTypeOK, NEW c \in Callers,
           Issue(c) \/ RefuseStart(c) \/ Look(c) \/ RefuseConfirm(c) \/ Match(c) \/ Mismatch(c)
    PROVE  VerifyTypeOK'
<1> USE VerificationAssumption DEF VerifyTypeOK
<1>1. CASE Issue(c)
  <2>1. issued + 1 \in 1..MaxCodes /\ ask[c].since \in 0..Hold /\ ask[c].phone \in Phones
        /\ ask[c].key \in Keys
    BY <1>1 DEF Issue, Asks
  <2>2. ask[c].since \in 0..CodeEnd
    BY <2>1 DEF CodeEnd
  <2>3. [op |-> "sent", key |-> ask[c].key] \in Asks
    BY <2>1 DEF Asks
  <2>4. QED
    BY <1>1, <2>1, <2>2, <2>3 DEF Issue, Codes
<1>0. [op |-> "idle"] \in Asks
  BY DEF Asks
<1>2. CASE RefuseStart(c) \/ RefuseConfirm(c)
  <2>1. ask' = [ask EXCEPT ![c] = [op |-> "idle"]] /\ UNCHANGED <<tableVars, proved>>
    BY <1>2 DEF RefuseStart, RefuseConfirm, Refused
  <2>2. QED
    BY <1>0, <2>1 DEF tableVars
<1>3. CASE Look(c)
  BY <1>3 DEF Look, tableVars, Asks, Newest, Codes
<1>4. CASE Match(c)
  <2>1. /\ ask[c].since \in 0..Hold /\ ask[c].phone \in Phones /\ ask[c].key \in Keys
        /\ ask[c].row \in Codes
    BY <1>4 DEF Match, Asks
  <2>2. ask[c].since \in 0..TokenEnd
    BY <2>1 DEF TokenEnd
  <2>3. [phone |-> ask[c].phone, key |-> ask[c].key, code |-> ask[c].row, age |-> ask[c].since,
         inTime |-> age[ask[c].row] < CodeTtl + ask[c].since] \in Proofs
    BY <2>1, <2>2 DEF Proofs
  <2>4. [op |-> "minted", key |-> ask[c].key,
         token |-> Mint(ask[c].phone, ask[c].key, ask[c].since)] \in Asks
    BY <2>1, <2>2 DEF Asks, Mint, Tokens
  <2>5. QED
    BY <1>4, <2>3, <2>4 DEF Match
<1>5. CASE Mismatch(c)
  BY <1>5 DEF Mismatch, Refused, Asks
<1>6. QED
  BY <1>1, <1>2, <1>3, <1>4, <1>5

LEMMA TickTyped ==
    ASSUME VerifyTypeOK, VerifyTick
    PROVE  VerifyTypeOK'
<1> USE DEF VerifyTypeOK
<1>1. age' \in [Codes -> 0..CodeEnd]
  BY EndsAreNumbers, OlderType DEF VerifyTick
<1>2. ask' \in [Callers -> Asks]
  <2>1. ASSUME NEW c \in Callers
        PROVE  ask'[c] \in Asks
    <3>1. CASE Running(c)
      <4>1. ask[c].since < Hold /\ ask'[c] = [ask[c] EXCEPT !.since = @ + 1]
        BY <3>1 DEF VerifyTick
      <4>2. ask[c] \in Asks /\ ask[c].op \in {"start", "confirm", "looked"}
        BY <3>1 DEF Running
      <4>3. QED
        BY <4>1, <4>2, VerificationAssumption DEF Asks
    <3>2. CASE ask[c].op = "minted"
      <4>1. ask'[c] = [ask[c] EXCEPT !.token = OlderToken(@)]
        BY <3>2 DEF VerifyTick, Running
      <4>2. ask[c].token \in Tokens /\ ask[c] \in [op : {"minted"}, key : Keys, token : Tokens]
        BY <3>2 DEF Asks
      <4>3. OlderToken(ask[c].token) \in Tokens
        BY <4>2, OlderTokenType
      <4>4. QED
        BY <4>1, <4>2, <4>3 DEF Asks
    <3>3. CASE ~Running(c) /\ ask[c].op # "minted"
      BY <3>3 DEF VerifyTick
    <3>4. QED
      BY <3>1, <3>2, <3>3
  <2>2. QED
    BY <2>1 DEF VerifyTick
<1>3. proved' \subseteq Proofs
  BY OlderProofType DEF VerifyTick
<1>4. QED
  BY <1>1, <1>2, <1>3 DEF VerifyTick

LEMMA FormTyped ==
    ASSUME TypeOK, NEW c \in Callers, Customer(c) \/ PlaceOrder(c) \/ RefuseOrder(c) \/ Answers(c)
    PROVE  TypeOK'
<1> USE VerificationAssumption
    DEF TypeOK, VerifyTypeOK, FormTypeOK, Mount, verifyVars, tableVars
<1>0. c \in Keys
  BY FormAssumption
<1>1. CASE TypePhone(c)
  <2>1. Typed[c] \subseteq Phones \cup {NoPhone}
    BY FormAssumption
  <2>2. QED
    BY <1>1, <2>1 DEF TypePhone
<1>2. CASE SendCode(c)
  <2>1. [op |-> "start", since |-> 0, phone |-> phone[c], key |-> c] \in Asks
    BY <1>0, <1>2 DEF SendCode, Asks
  <2>2. QED
    BY <1>2, <2>1 DEF SendCode, BeginStart
<1>3. CASE EnterCode(c)
  <2>1. PICK guess \in {Wrong} \cup (1..issued) : BeginConfirm(c, phone[c], c, guess)
    BY <1>3 DEF EnterCode
  <2>2. [op |-> "confirm", since |-> 0, phone |-> phone[c], key |-> c, guess |-> guess]
          \in Asks
    BY <1>0 DEF Asks, Wrong
  <2>3. QED
    BY <1>3, <2>1, <2>2 DEF EnterCode, BeginConfirm
<1>4. CASE DropReward(c)
  BY <1>4 DEF DropReward, Maybe
<1>5. CASE Submit(c)
  BY <1>0, <1>5 DEF Submit, Places
<1>7. CASE PlaceOrder(c)
  BY <1>7 DEF PlaceOrder, Places
<1>8. CASE RefuseOrder(c)
  BY <1>8 DEF RefuseOrder, Places
<1>9. CASE TakeCode(c) \/ DropAnswer(c)
  <2>1. [op |-> "idle"] \in Asks
    BY DEF Asks
  <2>2. ask' \in [Callers -> Asks]
    BY <1>9, <2>1 DEF TakeCode, DropAnswer, AskAnswered
  <2>3. sent' \subseteq Callers /\ UNCHANGED <<mount, phone, cart, place, orders, token>>
    BY <1>9 DEF TakeCode, DropAnswer, AskAnswered
  <2>4. UNCHANGED <<tableVars, proved>>
    BY <1>9 DEF TakeCode, DropAnswer, AskAnswered
  <2>5. QED
    BY <2>2, <2>3, <2>4
<1>10. CASE TakeToken(c)
  BY <1>10 DEF TakeToken, AskAnswered, Asks, Maybe
<1>11. CASE TakeReceipt(c)
  BY <1>11 DEF TakeReceipt, Maybe, Places
<1>12. CASE LoseReceipt(c)
  BY <1>12 DEF LoseReceipt, Places
<1>13. QED
  BY <1>1, <1>2, <1>3, <1>4, <1>5, <1>7, <1>8, <1>9, <1>10, <1>11, <1>12
     DEF Customer, Answers

LEMMA ReloadTyped ==
    ASSUME TypeOK, NEW b \in Browsers, Reload(b)
    PROVE  TypeOK'
<1>1. VerifyTypeOK'
  BY DEF TypeOK, Reload, VerifyTypeOK, verifyVars, tableVars
<1>2. /\ mount' \in [Browsers -> Nat] /\ mount'[b] = mount[b] + 1
      /\ \A d \in Browsers : d # b => mount'[d] = mount[d]
  BY DEF TypeOK, FormTypeOK, Reload
<1>3. \A d \in Browsers : Mount(d)' \in Callers
  BY <1>2 DEF TypeOK, FormTypeOK, Reload, Mount
<1>4. /\ phone' \in [Callers -> Phones \cup {NoPhone}]
      /\ sent' \subseteq Callers /\ token' \in [Callers -> Maybe(Tokens)]
      /\ UNCHANGED <<cart, place, orders>>
  BY DEF TypeOK, FormTypeOK, Reload, Maybe
<1>5. QED
  BY <1>1, <1>2, <1>3, <1>4 DEF TypeOK, FormTypeOK

LEMMA TypeStep == TypeOK /\ [Next]_vars => TypeOK'
<1> SUFFICES ASSUME TypeOK, [Next]_vars
             PROVE  TypeOK'
  OBVIOUS
<1>1. ASSUME NEW c \in Callers, Customer(c) \/ Answers(c)
      PROVE  TypeOK'
  BY <1>1, FormTyped
<1>2. ASSUME NEW c \in Callers, Server(c)
      PROVE  TypeOK'
  <2>1. CASE PlaceOrder(c) \/ RefuseOrder(c)
    BY <2>1, FormTyped
  <2>2. CASE ~(PlaceOrder(c) \/ RefuseOrder(c))
    <3>1. UNCHANGED formVars
      BY <1>2, <2>2 DEF Server
    <3>2. VerifyTypeOK'
      BY <1>2, <2>2, VerifyTyped DEF Server, TypeOK
    <3>3. QED
      BY <3>1, <3>2 DEF TypeOK, FormTypeOK, formVars, Mount
  <2>3. QED
    BY <2>1, <2>2
<1>3. CASE Sweep /\ UNCHANGED formVars
  BY <1>3 DEF Sweep, TypeOK, VerifyTypeOK, FormTypeOK, formVars, Mount
<1>4. CASE Tick
  <2>1. VerifyTypeOK'
    BY <1>4, TickTyped DEF Tick, TypeOK
  <2>2. token' \in [Callers -> Maybe(Tokens)]
    BY <1>4, OlderTokenType DEF Tick, TypeOK, FormTypeOK, Maybe
  <2>3. place' \in [Callers -> Places]
    BY <1>4, VerificationAssumption DEF Tick, TypeOK, FormTypeOK, Places
  <2>4. QED
    BY <1>4, <2>1, <2>2, <2>3 DEF Tick, TypeOK, FormTypeOK, Mount
<1>5. CASE UNCHANGED vars
  BY <1>5 DEF vars, verifyVars, tableVars, formVars, TypeOK, VerifyTypeOK, FormTypeOK, Mount
<1>6. ASSUME NEW b \in Browsers, Reload(b)
      PROVE  TypeOK'
  BY <1>6, ReloadTyped
<1>7. QED
  BY <1>1, <1>2, <1>3, <1>4, <1>5, <1>6 DEF Next

LEMMA TypeInit == Init => TypeOK
BY VerificationAssumption, FormAssumption, EndsAreNumbers
   DEF Init, VerifyInit, TypeOK, VerifyTypeOK, FormTypeOK, Maybe, Mount, Places, Asks, Codes

-----------------------------------------------------------------------------
\* What is behind a token: a right guess, no younger than the token looks to
\* the request it was handed to.
Backed(t, old) ==
    \E p \in proved : p.phone = t.phone /\ p.key = t.key /\ p.age <= t.age + old

ProofsGood ==
    \A p \in proved : p.inTime /\ p.code \in spent /\ to[p.code] = p.phone

TokensBacked ==
    \A c \in Callers :
        /\ token[c] # NoToken => Backed(token[c], 0)
        /\ ask[c].op = "minted" => Backed(ask[c].token, 0)
        /\ place[c].op = "place" /\ place[c].token # NoToken
              => Backed(place[c].token, place[c].since)

\* A row that was looked at was good by the clock of the request, and that
\* stays so while both grow older together.
LookedFresh ==
    \A c \in Callers : ask[c].op = "looked" =>
        /\ ask[c].row \in live
        /\ to[ask[c].row] = ask[c].phone
        /\ age[ask[c].row] < CodeTtl + ask[c].since

RewardInv == TypeOK /\ ProofsGood /\ TokensBacked /\ LookedFresh

LEMMA RewardInvInit == Init => RewardInv
BY TypeInit DEF Init, VerifyInit, RewardInv, ProofsGood, TokensBacked, LookedFresh

\* The table of codes only grows in `to`, and `spent` and `proved` with it.
LEMMA RewardInvStill ==
    ASSUME RewardInv, TypeOK', UNCHANGED <<to, spent, proved, age, live>>,
           \A d \in Callers : \/ ask'[d] = ask[d]
                              \/ ask'[d].op \notin {"looked", "minted"},
           \A d \in Callers : \/ token'[d] = token[d]
                              \/ token'[d] = NoToken
                              \/ ask[d].op = "minted" /\ token'[d] = ask[d].token,
           \A d \in Callers : \/ place'[d] = place[d]
                              \/ place'[d].op # "place"
                              \/ place'[d].token = token[d] /\ place'[d].since = 0
    PROVE  RewardInv'
<1>1. ProofsGood'
  BY DEF RewardInv, ProofsGood
<1>2. TokensBacked'
  <2>1. ASSUME NEW d \in Callers, token'[d] # NoToken
        PROVE  Backed(token[d], 0)' 
    BY <2>1 DEF RewardInv, TokensBacked, Backed
  <2>2. ASSUME NEW d \in Callers, ask'[d].op = "minted"
        PROVE  Backed(ask[d].token, 0)'
    BY <2>2 DEF RewardInv, TokensBacked, Backed
  <2>3. ASSUME NEW d \in Callers, place'[d].op = "place", place'[d].token # NoToken
        PROVE  Backed(place[d].token, place[d].since)'
    BY <2>3 DEF RewardInv, TokensBacked, Backed
  <2>4. QED
    BY <2>1, <2>2, <2>3 DEF TokensBacked
<1>3. LookedFresh'
  BY DEF RewardInv, LookedFresh
<1>4. QED
  BY <1>1, <1>2, <1>3 DEF RewardInv

LEMMA RewardInvCustomer ==
    ASSUME RewardInv, TypeOK', NEW c \in Callers,
           Customer(c) \/ PlaceOrder(c) \/ RefuseOrder(c) \/ Answers(c)
    PROVE  RewardInv'
<1> USE DEF RewardInv, TypeOK, VerifyTypeOK, FormTypeOK, verifyVars, tableVars
<1>1. UNCHANGED <<to, spent, proved, age, live>>
  BY DEF Customer, Answers, TypePhone, SendCode, EnterCode, BeginStart, BeginConfirm, DropReward,
         Submit, PlaceOrder, RefuseOrder, TakeCode, TakeToken, DropAnswer, AskAnswered,
         TakeReceipt, LoseReceipt
<1>2. ASSUME NEW d \in Callers
      PROVE  ask'[d] = ask[d] \/ ask'[d].op \notin {"looked", "minted"}
  BY DEF Customer, Answers, TypePhone, SendCode, EnterCode, BeginStart, BeginConfirm, DropReward,
         Submit, PlaceOrder, RefuseOrder, TakeCode, TakeToken, DropAnswer, AskAnswered,
         TakeReceipt, LoseReceipt
<1>3. ASSUME NEW d \in Callers
      PROVE  \/ token'[d] = token[d]
             \/ token'[d] = NoToken
             \/ ask[d].op = "minted" /\ token'[d] = ask[d].token
  BY DEF Customer, Answers, TypePhone, SendCode, EnterCode, DropReward,
         Submit, PlaceOrder, RefuseOrder, TakeCode, TakeToken, DropAnswer, AskAnswered,
         TakeReceipt, LoseReceipt
<1>4. ASSUME NEW d \in Callers
      PROVE  \/ place'[d] = place[d]
             \/ place'[d].op # "place"
             \/ place'[d].token = token[d] /\ place'[d].since = 0
  BY DEF Customer, Answers, TypePhone, SendCode, EnterCode, DropReward,
         Submit, PlaceOrder, RefuseOrder, TakeCode, TakeToken, DropAnswer, AskAnswered,
         TakeReceipt, LoseReceipt
<1> HIDE DEF RewardInv, TypeOK, VerifyTypeOK, FormTypeOK
<1>5. QED
  BY <1>1, <1>2, <1>3, <1>4, RewardInvStill

LEMMA RewardInvServer ==
    ASSUME RewardInv, TypeOK', NEW c \in Callers, UNCHANGED formVars,
           Issue(c) \/ RefuseStart(c) \/ Look(c) \/ RefuseConfirm(c) \/ Match(c) \/ Mismatch(c)
    PROVE  RewardInv'
<1>0. /\ UNCHANGED <<token, place>>
      /\ ask \in [Callers -> Asks] /\ live \subseteq 1..issued /\ spent \subseteq 1..issued
      /\ issued \in 0..MaxCodes /\ to \in [Codes -> Phones] /\ age \in [Codes -> 0..CodeEnd]
  BY DEF formVars, RewardInv, TypeOK, VerifyTypeOK
<1>1. CASE RefuseStart(c) \/ RefuseConfirm(c)
  <2>1. UNCHANGED <<to, spent, proved, age, live>>
    BY <1>1 DEF RefuseStart, RefuseConfirm, tableVars
  <2>2. \A d \in Callers : ask'[d] = ask[d] \/ ask'[d].op \notin {"looked", "minted"}
    BY <1>0, <1>1 DEF RefuseStart, RefuseConfirm, Refused
  <2>3. QED
    BY <1>0, <2>1, <2>2, RewardInvStill
<1>2. CASE Mismatch(c)
  <2>1. UNCHANGED <<to, spent, proved, age, live>>
    BY <1>2 DEF Mismatch
  <2>2. \A d \in Callers : ask'[d] = ask[d] \/ ask'[d].op \notin {"looked", "minted"}
    BY <1>0, <1>2 DEF Mismatch, Refused
  <2>3. QED
    BY <1>0, <2>1, <2>2, RewardInvStill
<1>3. CASE Issue(c)
  <2>1. UNCHANGED <<spent, proved>> /\ live \subseteq live'
    BY <1>3 DEF Issue
  <2>2. \A r \in 1..issued : to'[r] = to[r] /\ age'[r] = age[r]
    BY <1>0, <1>3 DEF Issue, Codes
  <2>3. \A d \in Callers : ask'[d] = ask[d] \/ ask'[d].op = "sent"
    BY <1>0, <1>3 DEF Issue
  <2>4. ProofsGood'
    BY <1>0, <2>1, <2>2 DEF RewardInv, ProofsGood
  <2>5. TokensBacked'
    BY <1>0, <2>1, <2>3 DEF RewardInv, TokensBacked, Backed
  <2>6. ASSUME NEW d \in Callers, ask'[d].op = "looked"
        PROVE  /\ ask'[d].row \in live'
               /\ to'[ask'[d].row] = ask'[d].phone
               /\ age'[ask'[d].row] < CodeTtl + ask'[d].since
    <3>1. ask'[d] = ask[d]
      BY <2>3, <2>6
    <3>2. /\ ask[d].row \in live /\ to[ask[d].row] = ask[d].phone
          /\ age[ask[d].row] < CodeTtl + ask[d].since
      BY <2>6, <3>1 DEF RewardInv, LookedFresh
    <3>3. ask[d].row \in 1..issued
      BY <1>0, <3>2
    <3>4. QED
      BY <2>1, <2>2, <3>1, <3>2, <3>3
  <2>7. LookedFresh'
    BY <2>6 DEF LookedFresh
  <2>8. QED
    BY <2>4, <2>5, <2>7 DEF RewardInv
<1>4. CASE Look(c)
  <2>1. UNCHANGED <<to, spent, proved, age, live>>
    BY <1>4 DEF Look, tableVars
  <2>2. PICK r \in Newest(ask[c].phone) :
           /\ CanAttempt(r, ask[c].since)
           /\ ask' = [ask EXCEPT ![c] = [op |-> "looked", since |-> @.since, phone |-> @.phone,
                                         key |-> @.key, guess |-> @.guess, row |-> r]]
    BY <1>4 DEF Look
  <2>3. r \in live /\ to[r] = ask[c].phone /\ age[r] < CodeTtl + ask[c].since
    BY <2>2 DEF Newest, CanAttempt
  <2>4. TokensBacked'
    BY <1>0, <2>1, <2>2 DEF RewardInv, TokensBacked, Backed
  <2>5. LookedFresh'
    BY <1>0, <2>1, <2>2, <2>3 DEF RewardInv, LookedFresh
  <2>6. ProofsGood'
    BY <2>1 DEF RewardInv, ProofsGood
  <2>7. QED
    BY <2>4, <2>5, <2>6 DEF RewardInv
<1>5. CASE Match(c)
  <2> DEFINE p == [phone |-> ask[c].phone, key |-> ask[c].key, code |-> ask[c].row,
                   age |-> ask[c].since,
                   inTime |-> age[ask[c].row] < CodeTtl + ask[c].since]
             t == Mint(ask[c].phone, ask[c].key, ask[c].since)
  <2>1. /\ UNCHANGED <<to, age, live>>
        /\ proved' = proved \cup {p} /\ spent' = spent \cup {ask[c].row}
        /\ ask' = [ask EXCEPT ![c] = [op |-> "minted", key |-> ask[c].key, token |-> t]]
    BY <1>5 DEF Match
  <2>2. /\ p.phone = t.phone /\ p.key = t.key /\ p.age = t.age /\ p.code = ask[c].row
        /\ t.age = ask[c].since
    BY DEF Mint
  <2>3. ask[c].op = "looked" /\ ask[c].since \in 0..Hold
    BY <1>0, <1>5 DEF Match, Asks
  <2>4. p.inTime /\ to[p.code] = p.phone
    BY <2>3 DEF RewardInv, LookedFresh
  <2>5. \E q \in proved' : q.phone = t.phone /\ q.key = t.key /\ q.age <= t.age + 0
    <3>1. p \in proved' /\ p.age <= t.age + 0
      BY <2>1, <2>2, <2>3, VerificationAssumption
    <3> HIDE DEF p, t
    <3>2. QED
      BY <3>1, <2>2
  <2> HIDE DEF p, t
  <2>6. ProofsGood'
    BY <2>1, <2>2, <2>4 DEF RewardInv, ProofsGood
  <2>7. \A u, n : Backed(u, n) => \E q \in proved' : q.phone = u.phone /\ q.key = u.key
                                                     /\ q.age <= u.age + n
    BY <2>1 DEF Backed
  <2>8. TokensBacked'
    <3>1. ASSUME NEW d \in Callers, token'[d] # NoToken
          PROVE  Backed(token[d], 0)'
      BY <1>0, <2>7, <3>1 DEF RewardInv, TokensBacked, Backed
    <3>2. ASSUME NEW d \in Callers, ask'[d].op = "minted"
          PROVE  Backed(ask[d].token, 0)'
      <4>1. CASE d = c
        <5>1. ask'[d].token = t
          BY <1>0, <2>1, <4>1
        <5>2. QED
          BY <2>5, <5>1 DEF Backed
      <4>2. CASE d # c
        BY <1>0, <2>1, <2>7, <3>2, <4>2 DEF RewardInv, TokensBacked, Backed
      <4>3. QED
        BY <4>1, <4>2
    <3>3. ASSUME NEW d \in Callers, place'[d].op = "place", place'[d].token # NoToken
          PROVE  Backed(place[d].token, place[d].since)'
      BY <1>0, <2>7, <3>3 DEF RewardInv, TokensBacked, Backed
    <3>4. QED
      BY <3>1, <3>2, <3>3 DEF TokensBacked
  <2>9. LookedFresh'
    BY <1>0, <2>1 DEF RewardInv, LookedFresh
  <2>10. QED
    BY <2>6, <2>8, <2>9 DEF RewardInv
<1>6. QED
  BY <1>1, <1>2, <1>3, <1>4, <1>5

LEMMA RewardInvSweep ==
    ASSUME RewardInv, TypeOK', Sweep, UNCHANGED formVars
    PROVE  RewardInv'
<1>1. UNCHANGED <<to, spent, proved, age, ask, token, place>>
  BY DEF Sweep, formVars
<1>2. ASSUME NEW c \in Callers, ask[c].op = "looked"
      PROVE  ask[c].row \in live'
  <2>1. /\ ask[c].row \in live /\ ask[c].since \in 0..Hold
        /\ age[ask[c].row] < CodeTtl + ask[c].since
    BY <1>2 DEF RewardInv, LookedFresh, TypeOK, VerifyTypeOK, Asks
  <2>2. age[ask[c].row] \in Nat
    BY <1>2, EndsAreNumbers DEF RewardInv, TypeOK, VerifyTypeOK, Asks
  <2>3. age[ask[c].row] <= CodeTtl + Margin
    BY <2>1, <2>2, VerificationAssumption
  <2>4. QED
    BY <2>1, <2>3 DEF Sweep
<1>3. LookedFresh'
  BY <1>1, <1>2 DEF RewardInv, LookedFresh
<1>4. ProofsGood' /\ TokensBacked'
  BY <1>1 DEF RewardInv, ProofsGood, TokensBacked, Backed
<1>5. QED
  BY <1>3, <1>4 DEF RewardInv

LEMMA RewardInvTick ==
    ASSUME RewardInv, TypeOK', Tick
    PROVE  RewardInv'
<1>0. /\ VerifyTypeOK /\ FormTypeOK /\ VerifyTick
      /\ UNCHANGED <<to, spent, live>>
  BY DEF RewardInv, TypeOK, Tick, VerifyTick
<1>1. ProofsGood'
  <2>1. ASSUME NEW p \in proved
        PROVE  LET q == OlderToken(p) IN q.inTime /\ q.code \in spent' /\ to'[q.code] = q.phone
    BY <1>0, OlderProofType DEF RewardInv, ProofsGood, VerifyTypeOK
  <2>2. QED
    BY <1>0, <2>1 DEF ProofsGood, VerifyTick
<1>2. ASSUME NEW t, NEW u, NEW n, NEW m, t.age \in Nat, u.age \in Nat, n \in Nat, m \in Nat,
             Backed(t, n), u.phone = t.phone, u.key = t.key,
             u.age + m >= t.age + n + 1 \/ u.age = TokenEnd
      PROVE  \E q \in proved' : q.phone = u.phone /\ q.key = u.key /\ q.age <= u.age + m
  <2>1. PICK p \in proved : p.phone = t.phone /\ p.key = t.key /\ p.age <= t.age + n
    BY <1>2 DEF Backed
  <2>2. p \in Proofs /\ p.age \in 0..TokenEnd /\ TokenEnd \in Nat
    BY <1>0, EndsAreNumbers DEF VerifyTypeOK, Proofs
  <2>3. /\ OlderToken(p) \in proved'
        /\ OlderToken(p).phone = p.phone /\ OlderToken(p).key = p.key
        /\ OlderToken(p).age = Older(p.age, TokenEnd)
    BY <1>0, <2>2, OlderProofType DEF VerifyTick
  <2>4. Older(p.age, TokenEnd) \in 0..TokenEnd /\ Older(p.age, TokenEnd) <= p.age + 1
    BY <2>2, OlderType
  <2>5. OlderToken(p).age <= u.age + m
    BY <1>2, <2>1, <2>2, <2>3, <2>4
  <2>6. QED
    BY <1>2, <2>1, <2>3, <2>5
<1>3. ASSUME NEW t \in Tokens, Backed(t, 0)
      PROVE  \E q \in proved' : /\ q.phone = OlderToken(t).phone /\ q.key = OlderToken(t).key
                                /\ q.age <= OlderToken(t).age + 0
  <2>1. t.age \in 0..TokenEnd /\ TokenEnd \in Nat
    BY EndsAreNumbers DEF Tokens
  <2>2. /\ OlderToken(t).phone = t.phone /\ OlderToken(t).key = t.key
        /\ OlderToken(t).age = IF t.age < TokenEnd THEN t.age + 1 ELSE TokenEnd
    BY OlderTokenType DEF Older
  <2>3. OlderToken(t).age \in Nat
    BY <2>1, <2>2
  <2>4. OlderToken(t).age + 0 >= t.age + 0 + 1 \/ OlderToken(t).age = TokenEnd
    BY <2>1, <2>2
  <2>5. QED
    BY <1>2, <1>3, <2>1, <2>2, <2>3, <2>4
<1>4. TokensBacked'
  <2>1. ASSUME NEW c \in Callers, token'[c] # NoToken
        PROVE  Backed(token[c], 0)'
    <3>1. token[c] \in Tokens /\ token'[c] = OlderToken(token[c]) /\ token[c] # NoToken
      BY <1>0, <2>1 DEF Tick, FormTypeOK, Maybe
    <3>2. QED
      BY <1>3, <3>1 DEF RewardInv, TokensBacked, Backed
  <2>2. ASSUME NEW c \in Callers, ask'[c].op = "minted"
        PROVE  Backed(ask[c].token, 0)'
    <3>1. ask[c] \in Asks
      BY <1>0 DEF VerifyTypeOK
    <3>2. ask[c].op = "minted"
      <4>1. CASE Running(c)
        BY <1>0, <2>2, <3>1, <4>1 DEF VerifyTick, Running, Asks
      <4>2. CASE ~Running(c)
        BY <1>0, <2>2, <3>1, <4>2 DEF VerifyTick, Asks
      <4>3. QED
        BY <4>1, <4>2
    <3>3. ask[c].token \in Tokens /\ ask'[c].token = OlderToken(ask[c].token)
      BY <1>0, <3>1, <3>2 DEF VerifyTick, Running, Asks
    <3>4. QED
      BY <1>3, <3>2, <3>3 DEF RewardInv, TokensBacked, Backed
  <2>3. ASSUME NEW c \in Callers, place'[c].op = "place", place'[c].token # NoToken
        PROVE  Backed(place[c].token, place[c].since)'
    <3>1. place[c] \in Places
      BY <1>0 DEF FormTypeOK
    <3>2. /\ place[c].op = "place" /\ place'[c].token = place[c].token
          /\ place[c].since \in Nat /\ place'[c].since = place[c].since + 1
          /\ place[c].token \in Maybe(Tokens)
      BY <2>3, <3>1, VerificationAssumption DEF Tick, Places
    <3>3. place[c].token \in Tokens /\ Backed(place[c].token, place[c].since)
      BY <2>3, <3>2 DEF Maybe, RewardInv, TokensBacked
    <3>4. place[c].token.age \in Nat
      BY <3>3, EndsAreNumbers DEF Tokens
    <3>5. \E q \in proved' : /\ q.phone = place[c].token.phone /\ q.key = place[c].token.key
                             /\ q.age <= place[c].token.age + (place[c].since + 1)
      <4> DEFINE t == place[c].token
                 n == place[c].since
      <4>1. /\ t.age \in Nat /\ n \in Nat /\ n + 1 \in Nat /\ Backed(t, n)
            /\ t.age + (n + 1) >= t.age + n + 1
        BY <3>2, <3>3, <3>4
      <4> HIDE DEF t, n
      <4>2. \E q \in proved' : /\ q.phone = t.phone /\ q.key = t.key
                               /\ q.age <= t.age + (n + 1)
        BY <1>2, <4>1
      <4>3. QED
        BY <4>2 DEF t, n
    <3>6. QED
      BY <3>2, <3>5 DEF Backed
  <2>4. QED
    BY <2>1, <2>2, <2>3 DEF TokensBacked
<1>5. LookedFresh'
  <2>1. ASSUME NEW c \in Callers, ask'[c].op = "looked"
        PROVE  /\ ask'[c].row \in live'
               /\ to'[ask'[c].row] = ask'[c].phone
               /\ age'[ask'[c].row] < CodeTtl + ask'[c].since
    <3>1. ask[c] \in Asks
      BY <1>0 DEF VerifyTypeOK
    <3>2. ask[c].op = "looked"
      <4>1. CASE Running(c)
        BY <1>0, <2>1, <3>1, <4>1 DEF VerifyTick, Running, Asks
      <4>2. CASE ~Running(c)
        BY <1>0, <2>1, <3>1, <4>2 DEF VerifyTick, Asks, Running
      <4>3. QED
        BY <4>1, <4>2
    <3>3. /\ ask'[c].row = ask[c].row /\ ask'[c].phone = ask[c].phone
          /\ ask'[c].since = ask[c].since + 1 /\ ask[c].since \in Nat
      BY <1>0, <3>1, <3>2, VerificationAssumption DEF VerifyTick, Running, Asks
    <3>4. /\ ask[c].row \in live /\ to[ask[c].row] = ask[c].phone
          /\ age[ask[c].row] < CodeTtl + ask[c].since
      BY <3>2 DEF RewardInv, LookedFresh
    <3>5. ask[c].row \in Codes /\ ask[c].row \in 1..issued /\ age[ask[c].row] \in 0..CodeEnd
      BY <1>0, <3>1, <3>2, <3>4 DEF VerifyTypeOK, Asks
    <3>6. age'[ask[c].row] <= age[ask[c].row] + 1 /\ age'[ask[c].row] \in 0..CodeEnd
      BY <1>0, <3>5, EndsAreNumbers, OlderType DEF VerifyTick
    <3>7. QED
      BY <1>0, <3>3, <3>4, <3>5, <3>6, EndsAreNumbers, VerificationAssumption
  <2>2. QED
    BY <2>1 DEF LookedFresh
<1>6. QED
  BY <1>1, <1>4, <1>5 DEF RewardInv

LEMMA RewardInvStep == RewardInv /\ [Next]_vars => RewardInv'
<1> SUFFICES ASSUME RewardInv, [Next]_vars
             PROVE  RewardInv'
  OBVIOUS
<1>0. TypeOK'
  BY TypeStep DEF RewardInv
<1>1. ASSUME NEW c \in Callers, Customer(c) \/ PlaceOrder(c) \/ RefuseOrder(c) \/ Answers(c)
      PROVE  RewardInv'
  BY <1>0, <1>1, RewardInvCustomer
<1>2. ASSUME NEW c \in Callers, Server(c), ~PlaceOrder(c), ~RefuseOrder(c)
      PROVE  RewardInv'
  BY <1>0, <1>2, RewardInvServer DEF Server
<1>3. CASE Sweep /\ UNCHANGED formVars
  BY <1>0, <1>3, RewardInvSweep
<1>4. CASE Tick
  BY <1>0, <1>4, RewardInvTick
<1>5. CASE UNCHANGED vars
  BY <1>0, <1>5 DEF vars, verifyVars, tableVars, formVars, RewardInv, ProofsGood, TokensBacked,
                    LookedFresh, Backed
<1>6. ASSUME NEW b \in Browsers, Reload(b)
      PROVE  RewardInv'
  <2>1. \A d \in Callers : token'[d] = token[d] \/ token'[d] = NoToken
    BY <1>6 DEF Reload, RewardInv, TypeOK, FormTypeOK
  <2>2. QED
    BY <1>0, <1>6, <2>1, RewardInvStill DEF Reload, verifyVars, tableVars
<1>7. QED
  BY <1>1, <1>2, <1>3, <1>4, <1>5, <1>6 DEF Next

\* The token of a granted reward was minted for this attempt and this phone,
\* and is young; so is the proof behind it.
LEMMA RewardInvEnough == RewardInv => RewardProved
<1> SUFFICES ASSUME RewardInv, NEW c \in Callers, place[c].op = "place", RewardGranted(c)
             PROVE  \E p \in proved :
                        /\ p.phone = place[c].phone /\ p.key = place[c].key
                        /\ p.age < TokenTtl + place[c].since
                        /\ p.inTime /\ to[p.code] = p.phone
  BY DEF RewardProved
<1>1. place[c] \in Places /\ proved \subseteq Proofs
  BY DEF RewardInv, TypeOK, VerifyTypeOK, FormTypeOK
<1>2. /\ place[c].token \in Tokens /\ place[c].since \in 0..Hold
      /\ place[c].token.key = place[c].key /\ place[c].token.phone = place[c].phone
      /\ place[c].token.age < TokenTtl
  BY <1>1 DEF RewardGranted, TokenGood, Places, Maybe
<1>3. PICK p \in proved : /\ p.phone = place[c].token.phone /\ p.key = place[c].token.key
                          /\ p.age <= place[c].token.age + place[c].since
  BY <1>2 DEF RewardInv, TokensBacked, Backed, RewardGranted
<1>4. p.age \in 0..TokenEnd /\ place[c].token.age \in 0..TokenEnd
  BY <1>1, <1>2 DEF Proofs, Tokens
<1>5. p.age < TokenTtl + place[c].since
  BY <1>2, <1>3, <1>4, EndsAreNumbers, VerificationAssumption
<1>6. p.inTime /\ to[p.code] = p.phone
  BY DEF RewardInv, ProofsGood
<1>7. QED
  BY <1>2, <1>3, <1>5, <1>6

\* Every variable keeps to the values its column or its component state holds.
THEOREM TypeInvariant == Spec => []TypeOK
BY TypeInit, TypeStep, PTL DEF Spec

\* A reward comes off an order only for a phone proved for that very attempt,
\* in time (resolveCheckoutReward and verifiedPhoneFromToken).
THEOREM RewardsAreProved == Spec => []RewardProved
<1>1. Spec => []RewardInv
  BY RewardInvInit, RewardInvStep, PTL DEF Spec
<1>2. QED
  BY <1>1, RewardInvEnough, PTL

\* The update of a guess finds its row: the sweep waits out the margin.
THEOREM RowsOutliveGuesses == Spec => []LookedAtIsThere
<1>1. RewardInv => LookedAtIsThere
  BY DEF RewardInv, LookedFresh, LookedAtIsThere
<1>2. Spec => []RewardInv
  BY RewardInvInit, RewardInvStep, PTL DEF Spec
<1>3. QED
  BY <1>1, <1>2, PTL

-----------------------------------------------------------------------------
\* The count of guesses.  Those looked at and not yet written are counted with
\* the written ones; a row is only looked at while there is room for everyone.
Counted(r) == attempts[r] + Cardinality(ProofsBy(r)) + Cardinality(Looking(r))
Bound == (MaxAttempts - 1) + Cardinality(Callers)

GuessInv ==
    /\ TypeOK
    /\ IsFiniteSet(proved)
    /\ \A p \in proved : p.code \in spent
    /\ \A r \in Codes : Counted(r) <= Bound

LEMMA LookersAreFinite ==
    ASSUME NEW r
    PROVE  /\ IsFiniteSet(Looking(r)) /\ Cardinality(Looking(r)) \in Nat
           /\ Cardinality(Looking(r)) <= Cardinality(Callers)
           /\ Cardinality(Callers) \in Nat
BY VerificationAssumption, FS_Subset, FS_CardinalityType, Looking(r) \subseteq Callers DEF Looking

LEMMA ProofsAreFinite ==
    ASSUME IsFiniteSet(proved), NEW r
    PROVE  IsFiniteSet(ProofsBy(r)) /\ Cardinality(ProofsBy(r)) \in Nat
BY FS_Subset, FS_CardinalityType, ProofsBy(r) \subseteq proved DEF ProofsBy

LEMMA GuessInvInit == Init => GuessInv
<1> SUFFICES ASSUME Init PROVE GuessInv
  OBVIOUS
<1>1. TypeOK /\ IsFiniteSet(proved) /\ (\A p \in proved : p.code \in spent)
  BY TypeInit, FS_EmptySet DEF Init, VerifyInit
<1>2. ASSUME NEW r \in Codes
      PROVE  Counted(r) <= Bound
  <2>1. ProofsBy(r) = {} /\ Looking(r) = {} /\ attempts[r] = 0
    BY DEF Init, VerifyInit, ProofsBy, Looking
  <2>2. QED
    BY <2>1, FS_EmptySet, FS_CardinalityType, VerificationAssumption DEF Counted, Bound
<1>3. QED
  BY <1>1, <1>2 DEF GuessInv

\* A step that writes no guess and looks at no row.
LEMMA GuessInvStill ==
    ASSUME GuessInv, TypeOK', UNCHANGED <<attempts, proved, spent>>,
           \A d \in Callers : ask'[d] = ask[d] \/ ask'[d].op # "looked"
    PROVE  GuessInv'
<1>1. ASSUME NEW r \in Codes
      PROVE  Counted(r)' <= Bound
  <2>1. Looking(r)' \subseteq Looking(r) /\ ProofsBy(r)' = ProofsBy(r)
    BY DEF Looking, ProofsBy
  <2>2. Cardinality(Looking(r)') <= Cardinality(Looking(r)) /\ Cardinality(Looking(r)') \in Nat
    BY <2>1, LookersAreFinite, FS_Subset, FS_CardinalityType
  <2>3. Cardinality(ProofsBy(r)) \in Nat /\ attempts[r] \in Nat
    BY ProofsAreFinite DEF GuessInv, TypeOK, VerifyTypeOK
  <2>4. attempts[r] + Cardinality(ProofsBy(r)) + Cardinality(Looking(r)) <= Bound
    BY DEF GuessInv, Counted
  <2>5. Bound \in Nat
    BY LookersAreFinite, VerificationAssumption DEF Bound
  <2>6. Cardinality(Looking(r)) \in Nat
    BY LookersAreFinite
  <2>7. Counted(r)' = attempts[r] + Cardinality(ProofsBy(r)) + Cardinality(Looking(r)')
    BY <2>1 DEF Counted
  <2>8. QED
    BY <2>2, <2>3, <2>4, <2>5, <2>6, <2>7
<1>2. QED
  BY <1>1 DEF GuessInv, Bound

\* A guess that is written leaves the ones looked at.
LEMMA OneLess ==
    ASSUME TypeOK, NEW c \in Callers, NEW r, ask[c].op = "looked",
           \A d \in Callers \ {c} : ask'[d] = ask[d], ask'[c].op # "looked"
    PROVE  Cardinality(Looking(r)') =
               Cardinality(Looking(r)) - (IF r = ask[c].row THEN 1 ELSE 0)
<1>1. CASE r = ask[c].row
  <2>1. c \in Looking(r) /\ Looking(r)' = Looking(r) \ {c}
    BY <1>1 DEF Looking
  <2>2. QED
    BY <1>1, <2>1, LookersAreFinite, FS_RemoveElement
<1>2. CASE r # ask[c].row
  <2>1. Looking(r)' = Looking(r)
    BY <1>2 DEF Looking
  <2>2. QED
    BY <1>2, <2>1, LookersAreFinite
<1>3. QED
  BY <1>1, <1>2

LEMMA GuessInvLook ==
    ASSUME GuessInv, TypeOK', NEW c \in Callers, Look(c)
    PROVE  GuessInv'
<1>1. PICK n \in Newest(ask[c].phone) :
          /\ CanAttempt(n, ask[c].since)
          /\ ask' = [ask EXCEPT ![c] = [op |-> "looked", since |-> @.since, phone |-> @.phone,
                                        key |-> @.key, guess |-> @.guess, row |-> n]]
  BY DEF Look
<1>2. UNCHANGED <<attempts, proved, spent>> /\ ask \in [Callers -> Asks]
  BY DEF Look, tableVars, GuessInv, TypeOK, VerifyTypeOK
<1>3. ASSUME NEW r \in Codes
      PROVE  Counted(r)' <= Bound
  <2>1. CASE r = n
    <3>1. attempts[r] \in Nat /\ attempts[r] <= MaxAttempts - 1 /\ r \notin spent
      BY <1>1, <2>1, VerificationAssumption
         DEF CanAttempt, GuessInv, TypeOK, VerifyTypeOK
    <3>2. ProofsBy(r)' = {}
      BY <1>2, <3>1 DEF ProofsBy, GuessInv
    <3>3. Cardinality(ProofsBy(r)') = 0
      BY <3>2, FS_EmptySet
    <3>4. IsFiniteSet(Looking(r)') /\ Cardinality(Looking(r)') \in Nat
          /\ Cardinality(Looking(r)') <= Cardinality(Callers) /\ Cardinality(Callers) \in Nat
      BY VerificationAssumption, FS_Subset, FS_CardinalityType,
         Looking(r)' \subseteq Callers DEF Looking
    <3>5. Counted(r)' = attempts[r] + 0 + Cardinality(Looking(r)')
      BY <1>2, <3>3 DEF Counted
    <3>6. QED
      BY <3>1, <3>4, <3>5, VerificationAssumption DEF Bound
  <2>2. CASE r # n
    <3>1. ask[c].op = "confirm"
      BY DEF Look
    <3>2. Looking(r)' = Looking(r) /\ ProofsBy(r)' = ProofsBy(r)
      BY <1>1, <1>2, <2>2, <3>1 DEF Looking, ProofsBy
    <3>3. Counted(r)' = Counted(r)
      BY <1>2, <3>2 DEF Counted
    <3>4. QED
      BY <3>3 DEF GuessInv
  <2>3. QED
    BY <2>1, <2>2
<1>4. QED
  BY <1>2, <1>3 DEF GuessInv, Bound

LEMMA GuessInvMismatch ==
    ASSUME GuessInv, TypeOK', NEW c \in Callers, Mismatch(c)
    PROVE  GuessInv'
<1>1. /\ UNCHANGED <<proved, spent>> /\ ask[c].op = "looked"
      /\ ask \in [Callers -> Asks] /\ attempts \in [Codes -> Nat]
      /\ attempts' = [attempts EXCEPT ![ask[c].row] = @ + 1]
      /\ ask' = [ask EXCEPT ![c] = [op |-> "idle"]]
  BY DEF Mismatch, Refused, GuessInv, TypeOK, VerifyTypeOK
<1>2. ASSUME NEW r \in Codes
      PROVE  Counted(r)' <= Bound
  <2>1. Cardinality(Looking(r)') =
            Cardinality(Looking(r)) - (IF r = ask[c].row THEN 1 ELSE 0)
    BY <1>1, OneLess DEF GuessInv
  <2>2. attempts'[r] = attempts[r] + (IF r = ask[c].row THEN 1 ELSE 0)
    BY <1>1
  <2>3. ProofsBy(r)' = ProofsBy(r)
    BY <1>1 DEF ProofsBy
  <2>4. /\ Cardinality(ProofsBy(r)) \in Nat /\ Cardinality(Looking(r)) \in Nat
        /\ attempts[r] \in Nat
    BY <1>1, ProofsAreFinite, LookersAreFinite DEF GuessInv
  <2>5. Counted(r)' = Counted(r)
    <3>1. Counted(r)' = attempts'[r] + Cardinality(ProofsBy(r)) + Cardinality(Looking(r)')
      BY <2>3 DEF Counted
    <3>2. QED
      BY <2>1, <2>2, <2>4, <3>1 DEF Counted
  <2>6. QED
    BY <2>5 DEF GuessInv
<1>3. QED
  BY <1>1, <1>2 DEF GuessInv, Bound

LEMMA GuessInvMatch ==
    ASSUME GuessInv, TypeOK', NEW c \in Callers, Match(c)
    PROVE  GuessInv'
<1> DEFINE p == [phone |-> ask[c].phone, key |-> ask[c].key, code |-> ask[c].row,
                 age |-> ask[c].since,
                 inTime |-> age[ask[c].row] < CodeTtl + ask[c].since]
<1>1. /\ UNCHANGED attempts /\ ask[c].op = "looked" /\ spent' = spent \cup {ask[c].row}
      /\ ask \in [Callers -> Asks] /\ attempts \in [Codes -> Nat]
      /\ proved' = proved \cup {p}
      /\ \A d \in Callers \ {c} : ask'[d] = ask[d]
      /\ ask'[c].op # "looked"
  BY DEF Match, GuessInv, TypeOK, VerifyTypeOK
<1>2. p.code = ask[c].row
  OBVIOUS
<1> HIDE DEF p
<1>3. IsFiniteSet(proved')
  BY <1>1, FS_AddElement DEF GuessInv
<1>4. \A q \in proved' : q.code \in spent'
  BY <1>1, <1>2 DEF GuessInv
<1>5. ASSUME NEW r \in Codes
      PROVE  Counted(r)' <= Bound
  <2>1. Cardinality(Looking(r)') =
            Cardinality(Looking(r)) - (IF r = ask[c].row THEN 1 ELSE 0)
    BY <1>1, OneLess DEF GuessInv
  <2>2. IsFiniteSet(ProofsBy(r)) /\ Cardinality(ProofsBy(r)) \in Nat
        /\ Cardinality(Looking(r)) \in Nat /\ attempts[r] \in Nat
    BY <1>1, ProofsAreFinite, LookersAreFinite DEF GuessInv
  <2>3. /\ Cardinality(ProofsBy(r)') \in Nat
        /\ Cardinality(ProofsBy(r)') <=
               Cardinality(ProofsBy(r)) + (IF r = ask[c].row THEN 1 ELSE 0)
    <3>1. CASE r = ask[c].row
      <4>1. ProofsBy(r)' = ProofsBy(r) \cup {p}
        BY <1>1, <1>2, <3>1 DEF ProofsBy
      <4>2. /\ IsFiniteSet(ProofsBy(r)')
            /\ Cardinality(ProofsBy(r)') <= Cardinality(ProofsBy(r)) + 1
        BY <2>2, <4>1, FS_AddElement
      <4>3. QED
        BY <3>1, <4>2, FS_CardinalityType
    <3>2. CASE r # ask[c].row
      <4>1. ProofsBy(r)' = ProofsBy(r)
        BY <1>1, <1>2, <3>2 DEF ProofsBy
      <4>2. QED
        BY <2>2, <3>2, <4>1
    <3>3. QED
      BY <3>1, <3>2
  <2>4. Counted(r)' <= Counted(r)
    <3>1. Counted(r)' = attempts[r] + Cardinality(ProofsBy(r)') + Cardinality(Looking(r)')
      BY <1>1 DEF Counted
    <3>2. QED
      BY <2>1, <2>2, <2>3, <3>1 DEF Counted
  <2>5. Counted(r) <= Bound /\ Counted(r) \in Nat /\ Counted(r)' \in Int /\ Bound \in Nat
    <3>1. Bound \in Nat
      BY LookersAreFinite, VerificationAssumption DEF Bound
    <3>2. Counted(r)' = attempts[r] + Cardinality(ProofsBy(r)') + Cardinality(Looking(r)')
      BY <1>1 DEF Counted
    <3>3. QED
      BY <2>1, <2>2, <2>3, <3>1, <3>2 DEF GuessInv, Counted
  <2>6. QED
    BY <2>4, <2>5
<1>6. QED
  BY <1>3, <1>4, <1>5 DEF GuessInv, Bound

\* Proofs that grow older do not grow in number.
LEMMA OlderAreNoMore ==
    ASSUME NEW S, IsFiniteSet(S)
    PROVE  LET T == {OlderToken(p) : p \in S}
           IN  IsFiniteSet(T) /\ Cardinality(T) <= Cardinality(S)
<1> DEFINE T == {OlderToken(p) : p \in S}
           f == [p \in S |-> OlderToken(p)]
<1>1. f \in Surjection(S, T)
  BY DEF Surjection
<1>2. QED
  BY <1>1, FS_Surjection

LEMMA GuessInvTick ==
    ASSUME GuessInv, TypeOK', Tick
    PROVE  GuessInv'
<1>1. /\ UNCHANGED <<attempts, spent>> /\ proved' = {OlderToken(p) : p \in proved}
      /\ ask \in [Callers -> Asks] /\ attempts \in [Codes -> Nat] /\ proved \subseteq Proofs
      /\ VerifyTick
  BY DEF Tick, VerifyTick, GuessInv, TypeOK, VerifyTypeOK
<1>2. IsFiniteSet(proved')
  BY <1>1, OlderAreNoMore DEF GuessInv
<1>3. \A q \in proved' : q.code \in spent'
  BY <1>1, OlderProofType DEF GuessInv
<1>4. ASSUME NEW d \in Callers
      PROVE  ask'[d].op = ask[d].op /\ (ask[d].op = "looked" => ask'[d].row = ask[d].row)
  <2>1. ask[d] \in Asks
    BY <1>1
  <2>2. CASE Running(d)
    BY <1>1, <2>1, <2>2 DEF VerifyTick, Running, Asks
  <2>3. CASE ~Running(d)
    BY <1>1, <2>1, <2>3 DEF VerifyTick, Running, Asks
  <2>4. QED
    BY <2>2, <2>3
<1>5. ASSUME NEW r \in Codes
      PROVE  Counted(r)' <= Bound
  <2>1. Looking(r)' = Looking(r)
    BY <1>4 DEF Looking
  <2>2. ProofsBy(r)' = {OlderToken(p) : p \in ProofsBy(r)}
    BY <1>1, OlderProofType DEF ProofsBy
  <2>3. IsFiniteSet(ProofsBy(r)) /\ Cardinality(ProofsBy(r)) \in Nat
    BY ProofsAreFinite DEF GuessInv
  <2>4. Cardinality(ProofsBy(r)') <= Cardinality(ProofsBy(r))
        /\ IsFiniteSet(ProofsBy(r)')
    BY <2>2, <2>3, OlderAreNoMore
  <2>5. Cardinality(ProofsBy(r)') \in Nat
    BY <2>4, FS_CardinalityType
  <2>6. Cardinality(Looking(r)) \in Nat /\ attempts[r] \in Nat /\ Bound \in Nat
    BY <1>1, LookersAreFinite, VerificationAssumption DEF Bound
  <2>7. Counted(r)' = attempts[r] + Cardinality(ProofsBy(r)') + Cardinality(Looking(r))
    BY <1>1, <2>1 DEF Counted
  <2>8. attempts[r] + Cardinality(ProofsBy(r)) + Cardinality(Looking(r)) <= Bound
    BY DEF GuessInv, Counted
  <2>9. QED
    BY <2>3, <2>4, <2>5, <2>6, <2>7, <2>8
<1>6. QED
  BY <1>1, <1>2, <1>3, <1>5 DEF GuessInv, Bound

LEMMA GuessInvStep == GuessInv /\ [Next]_vars => GuessInv'
<1> SUFFICES ASSUME GuessInv, [Next]_vars
             PROVE  GuessInv'
  OBVIOUS
<1>0. TypeOK' /\ ask \in [Callers -> Asks]
  BY TypeStep DEF GuessInv, TypeOK, VerifyTypeOK
<1>1. ASSUME NEW c \in Callers, Customer(c) \/ Answers(c) \/ PlaceOrder(c) \/ RefuseOrder(c)
      PROVE  GuessInv'
  <2>1. UNCHANGED <<attempts, proved, spent>>
    BY <1>1 DEF verifyVars, tableVars, Customer, Answers, TypePhone, SendCode, EnterCode,
       BeginStart, BeginConfirm, DropReward, Submit, PlaceOrder, RefuseOrder, TakeCode,
       TakeToken, DropAnswer, AskAnswered, TakeReceipt, LoseReceipt
  <2>2. \A d \in Callers : ask'[d] = ask[d] \/ ask'[d].op # "looked"
    BY <1>0, <1>1 DEF verifyVars, tableVars, Customer, Answers, TypePhone, SendCode, EnterCode,
       BeginStart, BeginConfirm, DropReward, Submit, PlaceOrder, RefuseOrder, TakeCode,
       TakeToken, DropAnswer, AskAnswered, TakeReceipt, LoseReceipt
  <2>3. QED
    BY <1>0, <2>1, <2>2, GuessInvStill
<1>2. ASSUME NEW c \in Callers, Issue(c) \/ RefuseStart(c) \/ RefuseConfirm(c)
      PROVE  GuessInv'
  BY <1>0, <1>2, GuessInvStill DEF Issue, RefuseStart, RefuseConfirm, Refused, tableVars
<1>3. ASSUME NEW c \in Callers, Look(c) \/ Match(c) \/ Mismatch(c)
      PROVE  GuessInv'
  BY <1>0, <1>3, GuessInvLook, GuessInvMatch, GuessInvMismatch
<1>4. CASE Sweep
  BY <1>0, <1>4, GuessInvStill DEF Sweep
<1>5. CASE Tick
  BY <1>0, <1>5, GuessInvTick
<1>6. CASE UNCHANGED vars
  BY <1>0, <1>6, GuessInvStill DEF vars, verifyVars, tableVars
<1>7. ASSUME NEW b \in Browsers, Reload(b)
      PROVE  GuessInv'
  BY <1>0, <1>7, GuessInvStill DEF Reload, verifyVars, tableVars
<1>8. QED
  BY <1>1, <1>2, <1>3, <1>4, <1>5, <1>6, <1>7 DEF Next, Server

\* Guesses looked at together overshoot the cap by fewer than there are
\* mounts of the form, and a code is exchanged for no more tokens than that.
THEOREM GuessesAreBounded == Spec => []GuessesBounded
<1>1. GuessInv => GuessesBounded
  <2> SUFFICES ASSUME GuessInv, NEW r \in Codes
               PROVE  attempts[r] + Cardinality(ProofsBy(r)) <= Bound
    BY DEF GuessesBounded, Bound
  <2>1. /\ attempts[r] \in Nat /\ Cardinality(ProofsBy(r)) \in Nat
        /\ Cardinality(Looking(r)) \in Nat /\ Bound \in Nat
    BY ProofsAreFinite, LookersAreFinite, VerificationAssumption
       DEF GuessInv, TypeOK, VerifyTypeOK, Bound
  <2>2. attempts[r] + Cardinality(ProofsBy(r)) + Cardinality(Looking(r)) <= Bound
    BY DEF GuessInv, Counted
  <2>3. QED
    BY <2>1, <2>2
<1>2. Spec => []GuessInv
  BY GuessInvInit, GuessInvStep, PTL DEF Spec
<1>3. QED
  BY <1>1, <1>2, PTL
=============================================================================
