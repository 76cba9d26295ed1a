---------------------------- MODULE Verification ----------------------------
(***************************************************************************)
(* One-time codes that prove a phone.  A request issues a code to a number *)
(* with a reward behind it, another spends one guess against the newest    *)
(* code of the number, and a right guess is exchanged for a signed token   *)
(* that names the phone, one checkout attempt and a time.  A row is looked *)
(* at in one statement and updated in a later one, so guesses that were    *)
(* looked at together are all written.                                     *)
(*                                                                         *)
(* Codes are random, so each code stands for its row: a guess is the code  *)
(* of some row, or Wrong.  Time is counted in ticks since a request read   *)
(* its clock, and since the clock that stamped a row or a token.           *)
(***************************************************************************)
EXTENDS Naturals, FiniteSets

CONSTANTS
    Callers,      \* those who ask, each with at most one of these requests running
    Phones,       \* numbers that normalise, each with its digest
    NoPhone,      \* anything else in the field
    NoToken,
    Keys,         \* idempotency keys
    MaxAttempts,  \* VERIFY_MAX_ATTEMPTS
    CodeTtl,      \* VERIFY_CODE_TTL_MINUTES, in ticks
    TokenTtl,     \* VERIFY_TOKEN_TTL_MINUTES
    Margin,       \* VERIFICATION_SWEEP_MARGIN_DAYS
    Hold,         \* the longest a request runs
    MaxCodes      \* bound on the codes issued

ASSUME VerificationAssumption ==
    /\ MaxAttempts \in Nat \ {0}
    /\ CodeTtl \in Nat /\ TokenTtl \in Nat /\ Margin \in Nat
    /\ Hold \in Nat /\ MaxCodes \in Nat
    /\ Hold <= Margin + 1      \* a request is over long before the margin is
    /\ NoPhone \notin Phones
    /\ IsFiniteSet(Callers)

Wrong == 0
Codes == 1..MaxCodes

\* Ages are counted up to where they tell no more: a code until it may be
\* swept, a token and the guess behind it until no running request predates
\* its end.
CodeEnd  == CodeTtl + Margin + 1
TokenEnd == TokenTtl + Hold

Tokens == [phone : Phones, key : Keys, age : 0..TokenEnd]
Proofs == [phone : Phones, key : Keys, code : Codes, age : 0..TokenEnd, inTime : BOOLEAN]

VARIABLES
    issued,     \* how many codes have been issued
    live,       \* the rows still in the table
    to,         \* the phone a row's digest is of
    age,        \* ticks since a row's createdAt
    attempts,   \* wrong guesses written against it
    spent,      \* rows with a consumedAt
    ask,        \* each caller's verification request
    proved      \* history: the guesses that were right

tableVars == <<issued, live, to, age, attempts, spent>>
verifyVars == <<tableVars, ask, proved>>

\* A request in flight, or its answer: the code sent or the token minted.  A
\* refusal is a sentence on the panel and ends the request.
Asks ==
    [op : {"idle"}]
        \cup [op : {"start"}, since : 0..Hold, phone : Phones, key : Keys]
        \cup [op : {"confirm"}, since : 0..Hold, phone : Phones \cup {NoPhone}, key : Keys,
              guess : 0..MaxCodes]
        \cup [op : {"looked"}, since : 0..Hold, phone : Phones, key : Keys,
              guess : 0..MaxCodes, row : Codes]
        \cup [op : {"sent"}, key : Keys]
        \cup [op : {"minted"}, key : Keys, token : Tokens]

Running(c) == ask[c].op \in {"start", "confirm", "looked"}

VerifyTypeOK ==
    /\ issued \in 0..MaxCodes
    /\ live \subseteq 1..issued
    /\ to \in [Codes -> Phones]
    /\ age \in [Codes -> 0..CodeEnd]
    /\ attempts \in [Codes -> Nat]
    /\ spent \subseteq 1..issued
    /\ ask \in [Callers -> Asks]
    /\ proved \subseteq Proofs

VerifyInit ==
    /\ issued = 0
    /\ live = {}
    /\ \E p \in Phones : to = [r \in Codes |-> p]
    /\ age = [r \in Codes |-> 0]
    /\ attempts = [r \in Codes |-> 0]
    /\ spent = {}
    /\ ask = [c \in Callers |-> [op |-> "idle"]]
    /\ proved = {}

-----------------------------------------------------------------------------
\* Rules about one row, and about one token.

\* The row confirmPhoneVerification reads: the last created for the digest.
\* Rows created at one instant come in either order.
Newest(p) == {r \in live : to[r] = p /\ \A q \in live : to[q] = p => age[r] <= age[q]}

\* Mutant: the cap is never asked.
CanAttempt_Uncapped(r, since) == r \notin spent /\ age[r] < CodeTtl + since

\* canAttemptVerification, asked with the request's own clock: not used, not
\* guessed at too often, not expired.
CanAttempt(r, since) ==
    /\ r \notin spent
    /\ attempts[r] < MaxAttempts
    /\ age[r] < CodeTtl + since

\* issueVerifiedPhoneToken, stamped with the request's clock.
Mint(phone, key, since) == [phone |-> phone, key |-> key, age |-> since]

\* Mutant: the token of an attempt is good for whatever phone is typed now.
TokenGood_AnyPhone(token, phone, key) == token.key = key /\ token.age < TokenTtl

\* verifiedPhoneFromToken, for a token this server signed, at the age it had
\* when the request read its clock: this attempt, this phone, not expired.
TokenGood(token, phone, key) ==
    /\ token.key = key
    /\ token.phone = phone
    /\ token.age < TokenTtl

-----------------------------------------------------------------------------
\* The requests, statement by statement.

BeginStart(c, phone, key) ==
    /\ ask[c].op = "idle"
    /\ ask' = [ask EXCEPT ![c] = [op |-> "start", since |-> 0, phone |-> phone, key |-> key]]
    /\ UNCHANGED <<tableVars, proved>>

\* startPhoneVerification: a new row every time, never an update of another.
\* Whether a reward is behind the number is for the punch card to say, at
\* each request anew.
Issue(c) ==
    /\ ask[c].op = "start"
    /\ issued < MaxCodes
    /\ issued' = issued + 1
    /\ live' = live \cup {issued + 1}
    /\ to' = [to EXCEPT ![issued + 1] = ask[c].phone]
    /\ age' = [age EXCEPT ![issued + 1] = ask[c].since]
    /\ ask' = [ask EXCEPT ![c] = [op |-> "sent", key |-> @.key]]
    /\ UNCHANGED <<attempts, spent, proved>>

Refused(c) == ask' = [ask EXCEPT ![c] = [op |-> "idle"]]

\* planVerificationStart: nothing is issued to a number with no reward.
RefuseStart(c) ==
    /\ ask[c].op = "start"
    /\ Refused(c)
    /\ UNCHANGED <<tableVars, proved>>

BeginConfirm(c, phone, key, guess) ==
    /\ ask[c].op = "idle"
    /\ ask' = [ask EXCEPT ![c] = [op |-> "confirm", since |-> 0, phone |-> phone, key |-> key,
                                  guess |-> guess]]
    /\ UNCHANGED <<tableVars, proved>>

\* confirmPhoneVerification reads the newest row and judges it.  A phone that
\* does not normalise has none.
Look(c) ==
    /\ ask[c].op = "confirm"
    /\ \E r \in Newest(ask[c].phone) :
          /\ CanAttempt(r, ask[c].since)
          /\ ask' = [ask EXCEPT ![c] = [op |-> "looked", since |-> @.since, phone |-> @.phone,
                                        key |-> @.key, guess |-> @.guess, row |-> r]]
    /\ UNCHANGED <<tableVars, proved>>

RefuseConfirm(c) ==
    /\ ask[c].op = "confirm"
    /\ \/ Newest(ask[c].phone) = {}
       \/ \E r \in Newest(ask[c].phone) : ~CanAttempt(r, ask[c].since)
    /\ Refused(c)
    /\ UNCHANGED <<tableVars, proved>>

\* A right guess consumes the row it looked at, whatever became of it since,
\* and is answered with a token.
Match(c) ==
    /\ ask[c].op = "looked"
    /\ ask[c].guess = ask[c].row
    /\ ask[c].row \in live
    /\ spent' = spent \cup {ask[c].row}
    /\ proved' = proved \cup {[phone |-> ask[c].phone, key |-> ask[c].key,
                               code |-> ask[c].row, age |-> ask[c].since,
                               inTime |-> age[ask[c].row] < CodeTtl + ask[c].since]}
    /\ ask' = [ask EXCEPT ![c] = [op |-> "minted", key |-> @.key,
                                  token |-> Mint(@.phone, @.key, @.since)]]
    /\ UNCHANGED <<issued, live, to, age, attempts>>

\* A wrong guess is the only one that is counted.
Mismatch(c) ==
    /\ ask[c].op = "looked"
    /\ ask[c].guess # ask[c].row
    /\ ask[c].row \in live
    /\ attempts' = [attempts EXCEPT ![ask[c].row] = @ + 1]
    /\ Refused(c)
    /\ UNCHANGED <<issued, live, to, age, spent, proved>>

\* Mutant: a code is swept as soon as it can no longer be tried.
Sweep_AtOnce ==
    /\ live' = {r \in live : age[r] < CodeTtl}
    /\ live' # live
    /\ UNCHANGED <<issued, to, age, attempts, spent, ask, proved>>

\* sweepExpiredVerifications, run by the retention job.
Sweep ==
    /\ live' = {r \in live : age[r] <= CodeTtl + Margin}
    /\ live' # live
    /\ UNCHANGED <<issued, to, age, attempts, spent, ask, proved>>

Older(n, end) == IF n < end THEN n + 1 ELSE end
OlderToken(t) == [t EXCEPT !.age = Older(@, TokenEnd)]

\* A request ends within Hold of the clock it read.
VerifyTick ==
    /\ \A c \in Callers : Running(c) => ask[c].since < Hold
    /\ age' = [r \in Codes |-> IF r \in 1..issued THEN Older(age[r], CodeEnd) ELSE age[r]]
    /\ ask' = [c \in Callers |->
                  IF Running(c) THEN [ask[c] EXCEPT !.since = @ + 1]
                  ELSE IF ask[c].op = "minted" THEN [ask[c] EXCEPT !.token = OlderToken(@)]
                  ELSE ask[c]]
    /\ proved' = {OlderToken(p) : p \in proved}
    /\ UNCHANGED <<issued, live, to, attempts, spent>>

-----------------------------------------------------------------------------
\* No guess is written to a row the sweep took: the update would throw, and
\* the customer would see neither a token nor a refusal.
LookedAtIsThere == \A c \in Callers : ask[c].op = "looked" => ask[c].row \in live

Looking(r) == {c \in Callers : ask[c].op = "looked" /\ ask[c].row = r}
ProofsBy(r) == {p \in proved : p.code = r}

\* Guesses looked at together overshoot the cap, by no more than their number
\* less one, right ones included: the same bound is how many tokens one code
\* can be exchanged for.  Their number is that of the callers: of the mounts of
\* the form, not of the browsers.
GuessesBounded ==
    \A r \in Codes :
        attempts[r] + Cardinality(ProofsBy(r)) <= (MaxAttempts - 1) + Cardinality(Callers)
=============================================================================
