----------------------------- MODULE CheckoutForm ---------------------------
(***************************************************************************)
(* The checkout screen and the two requests it makes: a reward is proved   *)
(* with a code (Verification), and the order is placed.  A caller is one   *)
(* mount of the form, <<browser, number>>, and is its own idempotency key. *)
(* A reload mounts the form anew while the requests of the old mount are   *)
(* still running on the server: one browser may then have several at once, *)
(* one for each mount.  The cart is a cookie: the answer to a placed order *)
(* clears it, if the mount that asked is still there to take the answer.   *)
(***************************************************************************)
EXTENDS Verification

CONSTANTS
    Browsers,
    Typed        \* what is typed for a phone into each mount

\* Callers bounds how often a browser's page is loaded again.
ASSUME FormAssumption ==
    /\ Callers \subseteq Browsers \X (Nat \ {0})
    /\ \A b \in Browsers : <<b, 1>> \in Callers
    /\ Keys = Callers
    /\ Typed \in [Callers -> SUBSET (Phones \cup {NoPhone})]

VARIABLES
    mount,   \* the number of the mount each browser shows
    phone,   \* the phone field
    sent,    \* mounts whose panel asks for a code
    token,   \* the token the form holds
    cart,    \* browsers whose cart cookie holds something
    place,   \* each mount's placement request
    orders   \* the keys with an order

formVars == <<mount, phone, sent, token, cart, place, orders>>
vars == <<verifyVars, formVars>>

\* The mount a browser shows.
Mount(b) == <<b, mount[b]>>

Maybe(S) == S \cup {NoToken}
Places ==
    [op : {"idle"}]
        \cup [op : {"place"}, since : 0..Hold, key : Keys, phone : Phones \cup {NoPhone},
              token : Maybe(Tokens)]
        \cup [op : {"placed"}, key : Keys]

FormTypeOK ==
    /\ mount \in [Browsers -> Nat]
    /\ \A b \in Browsers : Mount(b) \in Callers
    /\ phone \in [Callers -> Phones \cup {NoPhone}]
    /\ sent \subseteq Callers
    /\ token \in [Callers -> Maybe(Tokens)]
    /\ cart \subseteq Browsers
    /\ place \in [Callers -> Places]
    /\ orders \subseteq Keys

TypeOK == VerifyTypeOK /\ FormTypeOK

Init ==
    /\ VerifyInit
    /\ mount = [b \in Browsers |-> 1]
    /\ phone = [c \in Callers |-> NoPhone]
    /\ sent = {}
    /\ token = [c \in Callers |-> NoToken]
    /\ cart = Browsers
    /\ place = [c \in Callers |-> [op |-> "idle"]]
    /\ orders = {}

\* A mount that still shows.
Shows(c) == c = Mount(c[1])

\* The form, and not "Your cart is empty" or a receipt, which comes with an
\* empty cart.
FormShown(c) == Shows(c) /\ c[1] \in cart

\* A page sends its server actions one after another, and a pending one
\* disables its own button.  A page loaded again waits for nothing.
Quiet(c) == ask[c].op = "idle" /\ place[c].op = "idle"

-----------------------------------------------------------------------------
\* What the customer does.

\* The phone field, which the panel and the token do not follow.
TypePhone(c) ==
    /\ FormShown(c)
    /\ \E p \in Typed[c] : p # phone[c] /\ phone' = [phone EXCEPT ![c] = p]
    /\ UNCHANGED <<verifyVars, mount, sent, token, cart, place, orders>>

\* "Text me a code": enabled while no code was sent and the phone can be keyed.
SendCode(c) ==
    /\ FormShown(c) /\ Quiet(c) /\ token[c] = NoToken /\ c \notin sent
    /\ phone[c] # NoPhone
    /\ BeginStart(c, phone[c], c)
    /\ UNCHANGED <<mount, phone, sent, token, cart, place, orders>>

\* "Take $10 off": the code typed goes with the phone as it now reads.
EnterCode(c) ==
    /\ FormShown(c) /\ Quiet(c) /\ token[c] = NoToken /\ c \in sent
    /\ \E guess \in {Wrong} \cup (1..issued) : BeginConfirm(c, phone[c], c, guess)
    /\ UNCHANGED <<mount, phone, sent, token, cart, place, orders>>

\* "Don't use it".
DropReward(c) ==
    /\ FormShown(c) /\ token[c] # NoToken
    /\ token' = [token EXCEPT ![c] = NoToken]
    /\ sent' = sent \ {c}
    /\ UNCHANGED <<verifyVars, mount, phone, cart, place, orders>>

\* "Place order": the button is disabled while a placement is pending.
Submit(c) ==
    /\ FormShown(c) /\ Quiet(c)
    /\ place' = [place EXCEPT ![c] = [op |-> "place", since |-> 0, key |-> c, phone |-> phone[c],
                                      token |-> token[c]]]
    /\ UNCHANGED <<verifyVars, mount, phone, sent, token, cart, orders>>

\* The page is loaded again: every piece of component state is lost and a new
\* key is made.  What the server is doing for the old mount goes on.
Reload(b) ==
    LET old == Mount(b) IN
    /\ <<b, mount[b] + 1>> \in Callers
    /\ mount' = [mount EXCEPT ![b] = @ + 1]
    /\ phone' = [phone EXCEPT ![old] = NoPhone]
    /\ sent' = sent \ {old}
    /\ token' = [token EXCEPT ![old] = NoToken]
    /\ UNCHANGED <<verifyVars, cart, place, orders>>

-----------------------------------------------------------------------------
\* What the server does.

\* resolveCheckoutReward: the phone of the order itself, then the token.  The
\* balance comes last, and may say no (RefuseOrder).
RewardGranted(c) ==
    LET asked == place[c] IN
    /\ asked.token # NoToken
    /\ asked.phone # NoPhone
    /\ TokenGood(asked.token, asked.phone, asked.key)

\* placeOrder writes the order, with the reward or with none asked for.
PlaceOrder(c) ==
    /\ place[c].op = "place"
    /\ place[c].token = NoToken \/ RewardGranted(c)
    /\ orders' = orders \cup {place[c].key}
    /\ place' = [place EXCEPT ![c] = [op |-> "placed", key |-> @.key]]
    /\ UNCHANGED <<verifyVars, mount, phone, sent, token, cart>>

\* Refused, for the reward or for what the menu or the gate says: the form
\* stays as it was, and may be sent again under the same key.
RefuseOrder(c) ==
    /\ place[c].op = "place"
    /\ place' = [place EXCEPT ![c] = [op |-> "idle"]]
    /\ UNCHANGED <<verifyVars, mount, phone, sent, token, cart, orders>>

-----------------------------------------------------------------------------
\* Answers.  The browser takes an answer if the mount that asked still shows.

AskAnswered(c) ==
    /\ ask[c].op \in {"sent", "minted"}
    /\ ask' = [ask EXCEPT ![c] = [op |-> "idle"]]
    /\ UNCHANGED <<tableVars, proved, mount, phone, cart, place, orders>>

TakeCode(c) ==
    /\ ask[c].op = "sent" /\ Shows(c)
    /\ AskAnswered(c)
    /\ sent' = sent \cup {c}
    /\ UNCHANGED token

TakeToken(c) ==
    /\ ask[c].op = "minted" /\ Shows(c)
    /\ AskAnswered(c)
    /\ token' = [token EXCEPT ![c] = ask[c].token]
    /\ UNCHANGED sent

\* Nobody is there to take the answer of an old mount.
DropAnswer(c) ==
    /\ ask[c].op \in {"sent", "minted"} /\ ~Shows(c)
    /\ AskAnswered(c)
    /\ UNCHANGED <<sent, token>>

\* The receipt, and with the same response the cleared cart cookie.  What the
\* form held is never read again.
TakeReceipt(c) ==
    /\ place[c].op = "placed" /\ Shows(c)
    /\ place' = [place EXCEPT ![c] = [op |-> "idle"]]
    /\ cart' = cart \ {c[1]}
    /\ phone' = [phone EXCEPT ![c] = NoPhone]
    /\ sent' = sent \ {c}
    /\ token' = [token EXCEPT ![c] = NoToken]
    /\ UNCHANGED <<verifyVars, mount, orders>>

\* The receipt goes to an old mount: it is lost, and its cookie with it.
LoseReceipt(c) ==
    /\ place[c].op = "placed" /\ ~Shows(c)
    /\ place' = [place EXCEPT ![c] = [op |-> "idle"]]
    /\ UNCHANGED <<verifyVars, mount, phone, sent, token, cart, orders>>

\* The token of a placement is judged by the clock the request read.
Tick ==
    /\ VerifyTick
    /\ \A c \in Callers : place[c].op = "place" => place[c].since < Hold
    /\ token' = [c \in Callers |-> IF token[c] = NoToken THEN NoToken ELSE OlderToken(token[c])]
    /\ place' = [c \in Callers |->
                    IF place[c].op = "place" THEN [place[c] EXCEPT !.since = @ + 1] ELSE place[c]]
    /\ UNCHANGED <<mount, phone, sent, cart, orders>>

Customer(c) ==
    TypePhone(c) \/ SendCode(c) \/ EnterCode(c) \/ DropReward(c) \/ Submit(c)

Server(c) ==
    \/ Issue(c) /\ UNCHANGED formVars
    \/ RefuseStart(c) /\ UNCHANGED formVars
    \/ Look(c) /\ UNCHANGED formVars
    \/ RefuseConfirm(c) /\ UNCHANGED formVars
    \/ Match(c) /\ UNCHANGED formVars
    \/ Mismatch(c) /\ UNCHANGED formVars
    \/ PlaceOrder(c)
    \/ RefuseOrder(c)

Answers(c) ==
    \/ TakeCode(c) \/ TakeToken(c) \/ DropAnswer(c)
    \/ TakeReceipt(c) \/ LoseReceipt(c)

Next ==
    \/ \E c \in Callers : Customer(c) \/ Server(c) \/ Answers(c)
    \/ \E b \in Browsers : Reload(b)
    \/ Sweep /\ UNCHANGED formVars
    \/ Tick

Spec == Init /\ [][Next]_vars

-----------------------------------------------------------------------------
\* A reward comes off an order only for a phone proved for that very attempt:
\* with a code sent to that phone, while the code was good, and a short time
\* before the order was asked for.
RewardProved ==
    \A c \in Callers : place[c].op = "place" /\ RewardGranted(c) =>
        \E p \in proved :
            /\ p.phone = place[c].phone /\ p.key = place[c].key
            /\ p.age < TokenTtl + place[c].since
            /\ p.inTime /\ to[p.code] = p.phone
=============================================================================
