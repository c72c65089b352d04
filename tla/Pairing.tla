------------------------------ MODULE Pairing ------------------------------
(***************************************************************************)
(* Who may talk to the hub: the tokens of auth.ts, the one-time codes that *)
(* exchange for one (api/pair.ts) and the limit on tries, the Bearer hook  *)
(* of server.ts, the AUTH handshake of ws-handler.ts, and a page that      *)
(* generates codes, enters them and authenticates (PairingScreen,          *)
(* PairingCodeGenerator, stores/session.ts, stores/auth.ts).               *)
(* Time passes in ticks; rows keep how long they have left.                *)
(***************************************************************************)
EXTENDS HostCatalog

CONSTANTS Secrets,          \* plaintext tokens, which their hashes stand for
          Codes,         \* pairing codes
          MaxActive,     \* unused codes at a time
          CodeLife,      \* ticks a code lives
          TokenTtl,      \* auth.token_ttl_days in ticks, 0 for no expiry
          VerifyMax, VerifyWindow, Threshold   \* checkAndIncrement

(* The rows of the tables.  An attempt counter stops where it no longer    *)
(* tells anything apart, an age where the row is old.                      *)
MaxCount == Threshold + 3 * VerifyMax
CodeRow == [left : -1 .. CodeLife, used : BOOLEAN]
TokenRow == [id : {"primary", "paired"}, left : 0 .. TokenTtl \cup {None}, revoked : BOOLEAN,
             code : Codes \cup {None}]
RateRow == [attempts : 1 .. MaxCount, age : 0 .. 8 * VerifyWindow + 1]

ASSUME PairingAssumption ==
  /\ {MaxActive, CodeLife, VerifyMax, VerifyWindow} \subseteq Nat \ {0}
  /\ TokenTtl \in Nat /\ Threshold \in 1 .. VerifyMax
  /\ None \notin Int \cup CodeRow \cup TokenRow \cup RateRow

VARIABLES codes,     \* table pairing_codes
          tokens,    \* table auth_tokens, by hash
          rates,     \* table pair_rate_limits: every page has its address
          authFile,  \* the token in auth.json
          seat,      \* what a page knows: stores/auth.ts, stores/session.ts
          tries      \* (history) tries let through in the window of each page, and its age

pairVars == <<codes, tokens, rates, authFile, seat, tries>>

Ttl == IF Does("forever") THEN 0 ELSE TokenTtl
Expiry == IF Ttl > 0 THEN Ttl ELSE None
NewCode == [left |-> CodeLife, used |-> FALSE]
Token(id, left, code) == [id |-> id, left |-> left, revoked |-> FALSE, code |-> code]
FreshKeys == AnId(Secrets, Rows(tokens) \cup {seat[p].token : p \in Pages})
Stranger == [token |-> None, failed |-> FALSE, link |-> "none", listens |-> FALSE,
             shown |-> None, left |-> 0]

(* initAuth: the token of auth.json, or a new one.  upsertPrimaryToken     *)
(* gives the row 'primary' its hash and leaves the rest of that row alone. *)
InitAuth(file) == IF file # None THEN {file} ELSE FreshKeys
OldPrimary == {k \in Rows(tokens) : tokens[k].id = "primary"}
UpsertPrimaryClean(k) ==
  [j \in Secrets |-> IF j = k THEN Token("primary", None, None)
                  ELSE IF j \in OldPrimary THEN None ELSE tokens[j]]
UpsertPrimaryToken(k) ==
  [j \in Secrets |-> IF j = k THEN IF OldPrimary = {} THEN Token("primary", None, None)
                                ELSE tokens[CHOOSE o \in OldPrimary : TRUE]
                  ELSE IF j \in OldPrimary THEN None ELSE tokens[j]]

(* The page in the desktop shell is given the primary token; codes may     *)
(* have been generated just before.                                        *)
DesktopPage == CHOOSE p \in cast.pages : TRUE

PairInit ==
  /\ codes = [c \in Codes |-> IF Does("ready") THEN NewCode ELSE None]
  /\ rates = [p \in Pages |-> None]
  /\ \E k \in AnId(Secrets, {}) :
       /\ authFile = k
       /\ tokens = [j \in Secrets |-> IF j = k THEN Token("primary", None, None) ELSE None]
       /\ seat = [p \in Pages |-> IF Does("key") /\ p = DesktopPage
                                    THEN [Stranger EXCEPT !.token = k] ELSE Stranger]
  /\ tries = [p \in Pages |-> [let |-> 0, age |-> 2 * VerifyWindow]]

-----------------------------------------------------------------------------
(* auth.ts.                                                                *)

ValidateTokenRecord(k) ==
  /\ k \in Rows(tokens) /\ ~tokens[k].revoked
  /\ tokens[k].left # None => tokens[k].left > 0
TouchToken(k) ==
  IF Ttl > 0 /\ tokens[k].left # None THEN [tokens EXCEPT ![k].left = Ttl] ELSE tokens
CreateToken(tab, k, c) == [tab EXCEPT ![k] = Token("paired", Expiry, c)]
RevokeToken(tab, k) == [tab EXCEPT ![k].revoked = TRUE]

(* The request in slot s carries the token its page had. *)
Bearer(s) == call[s].arg.key
Authorized(s, op) == Waits(s, op) /\ ValidateTokenRecord(Bearer(s))

(* The onRequest hook: a request without a valid token is refused, and the *)
(* token of the others starts its time again.                              *)
Touched(s) == TouchToken(Bearer(s))
Unauthorized(s) ==
  /\ \E op \in {"pair", "api", "revoke"} : Waits(s, op)
  /\ ~ValidateTokenRecord(Bearer(s))
  /\ Reply(s, 401, None) /\ UNCHANGED pairVars

UseApi(s) ==
  /\ Authorized(s, "api") /\ tokens' = Touched(s) /\ Reply(s, 200, None)
  /\ UNCHANGED <<codes, rates, authFile, seat, tries>>

Revoke(s) ==
  LET k == call[s].arg.what IN
  /\ Authorized(s, "revoke")
  /\ IF k \in Rows(tokens) /\ ~tokens[k].revoked
       THEN tokens' = RevokeToken(Touched(s), k) /\ Reply(s, 200, None)
       ELSE tokens' = Touched(s) /\ Reply(s, 404, None)
  /\ UNCHANGED <<codes, rates, authFile, seat, tries>>

-----------------------------------------------------------------------------
(* api/pair.ts.                                                            *)

CountActivePairingCodes == Cardinality({c \in Rows(codes) : ~codes[c].used /\ codes[c].left > 0})
CreatePairingCode(s) ==
  /\ Authorized(s, "pair") /\ tokens' = Touched(s)
  /\ IF CountActivePairingCodes >= MaxActive THEN Reply(s, 429, None) /\ UNCHANGED codes
     ELSE \E c \in AnId(Codes, Rows(codes)) :
            /\ codes' = [codes EXCEPT ![c] = NewCode]
            /\ Reply(s, 201, c)
  /\ UNCHANGED <<rates, authFile, seat, tries>>

(* checkAndIncrement: the window doubles with the tries, up to eight       *)
(* times.                                                                  *)
Multiplier(n) ==
  IF n < Threshold THEN 1
  ELSE LET e == (n - Threshold) \div VerifyMax + 1
       IN IF e = 1 THEN 2 ELSE IF e = 2 THEN 4 ELSE 8
NewWindow(p) == rates[p] = None \/ rates[p].age >= VerifyWindow * Multiplier(rates[p].attempts)
Counted(p) ==
  IF NewWindow(p) THEN [attempts |-> 1, age |-> 0]
  ELSE [rates[p] EXCEPT !.attempts = IF @ < MaxCount THEN @ + 1 ELSE @]
Allowed(p) == NewWindow(p) \/ rates[p].attempts + 1 <= VerifyMax
CleanAfterOne(tab) ==
  [p \in Pages |-> IF tab[p] # None /\ tab[p].age > VerifyWindow THEN None ELSE tab[p]]
CleanExpired(tab) ==
  [p \in Pages |-> IF tab[p] # None /\ tab[p].age > 8 * VerifyWindow THEN None ELSE tab[p]]

LetThrough(p) ==
  IF NewWindow(p) THEN [let |-> 1, age |-> 0]
  ELSE [let |-> IF tries[p].let > VerifyMax THEN tries[p].let ELSE tries[p].let + 1,
        age |-> tries[p].age]

MarkNothing(c) == codes
MarkPairingCodeUsed(c) == [codes EXCEPT ![c].used = TRUE]
Redeemable(c) == c \in Rows(codes) /\ ~codes[c].used /\ codes[c].left >= 0
Redeem(s, c) ==
  \E k \in FreshKeys :
    /\ codes' = MarkPairingCodeUsed(c) /\ tokens' = CreateToken(tokens, k, c)
    /\ Reply(s, 200, k)
Reason(c) == IF c \notin Rows(codes) THEN 404 ELSE IF codes[c].used THEN 409 ELSE 410
Verify(s) ==
  LET p == call[s].page
      c == call[s].arg IN
  /\ Waits(s, "verify")
  /\ IF ~Allowed(p)
       THEN /\ rates' = [rates EXCEPT ![p] = Counted(p)] /\ Reply(s, 429, None)
            /\ UNCHANGED <<codes, tokens, tries>>
       ELSE /\ rates' = CleanExpired([rates EXCEPT ![p] = Counted(p)])
            /\ tries' = [tries EXCEPT ![p] = LetThrough(p)]
            /\ \/ Redeemable(c) /\ Redeem(s, c)
               \/ ~Redeemable(c) /\ Reply(s, Reason(c), None) /\ UNCHANGED <<codes, tokens>>
  /\ UNCHANGED <<authFile, seat>>

-----------------------------------------------------------------------------
(* The AUTH handshake of a page's socket: "sent", then the hub's answer.   *)

(* connect and _authenticate: at mount, or by the reconnect listener.      *)
Authenticate(p) ==
  /\ p \in cast.pages /\ Does("socket")
  /\ seat[p].link = "none" /\ seat[p].token # None
  /\ seat' = [seat EXCEPT ![p].link = "sent"]
  /\ UNCHANGED <<call, codes, tokens, rates, authFile, tries>>

HandleAuth(p) ==
  /\ seat[p].link = "sent"
  /\ IF ValidateTokenRecord(seat[p].token)
       THEN seat' = [seat EXCEPT ![p].link = "ok"] /\ tokens' = TouchToken(seat[p].token)
       ELSE seat' = [seat EXCEPT ![p].link = "fail"] /\ UNCHANGED tokens
  /\ UNCHANGED <<call, codes, rates, authFile, tries>>

AuthAnswered(p) ==
  /\ seat[p].link \in {"ok", "fail"}
  /\ seat' = [seat EXCEPT ![p].link = IF @ = "ok" THEN "in"
                                       ELSE IF seat[p].listens THEN "none" ELSE "deaf",
                          ![p].failed = seat[p].link = "fail",
                          ![p].listens = @ \/ seat[p].link = "ok"]
  /\ UNCHANGED <<call, codes, tokens, rates, authFile, tries>>

(* The socket closes, as after AUTH_FAIL.  Only a page that once authenticated listens for the *)
(* reconnection; one that was cut off before, _authenticate timing out,    *)
(* stays out until it is loaded again or paired again.                     *)
SocketCloses(p) ==
  /\ seat[p].link \in {"sent", "ok", "in"}
  /\ seat' = [seat EXCEPT ![p].link = IF seat[p].listens THEN "none" ELSE "deaf"]
  /\ UNCHANGED <<call, codes, tokens, rates, authFile, tries>>

ReloadPage(p) ==
  /\ p \in cast.pages /\ Does("socket") /\ CallsOf(p) = {}
  /\ seat' = [seat EXCEPT ![p] = [Stranger EXCEPT !.token = seat[p].token]]
  /\ UNCHANGED <<call, codes, tokens, rates, authFile, tries>>

-----------------------------------------------------------------------------
(* The page: the generator, the pairing screen, any request of the stores. *)

NeedsPairing(p) == seat[p].token = None \/ seat[p].failed
Carrying(p, what) == [key |-> seat[p].token, what |-> what]
Generate(p, s) ==
  /\ Does("codes") /\ ~NeedsPairing(p) /\ seat[p].shown = None
  /\ \A t \in CallsOf(p) : call[t].op # "pair"
  /\ Ask(p, s, "pair", Carrying(p, None))
(* A code that exists, or a wrong one. *)
TriesLeft(p) == Does("many") \/ (rates[p] # None => rates[p].attempts < cast.made)  \* (bound)
Submit(p, s) ==
  /\ Does("enter") /\ NeedsPairing(p) /\ TriesLeft(p)
  /\ \A t \in CallsOf(p) : call[t].op # "verify"
  /\ \E c \in Rows(codes) \cup AnId(Codes, Rows(codes)) : Ask(p, s, "verify", c)
AskApi(p, s) == Does("api") /\ ~NeedsPairing(p) /\ Ask(p, s, "api", Carrying(p, None))
AskRevoke(p, s) ==
  /\ Does("revoke") /\ ~NeedsPairing(p)
  /\ \E k \in Rows(tokens) : Ask(p, s, "revoke", Carrying(p, k))
UserPairs(p, s) ==
  /\ Generate(p, s) \/ Submit(p, s) \/ AskApi(p, s) \/ AskRevoke(p, s)
  /\ UNCHANGED pairVars

(* generate, after the answer: the countdown starts at what is left. *)
ShowCode(s) ==
  LET p == call[s].page
      c == call[s].body IN
  /\ Answered(s, "pair") /\ End(s)
  /\ seat' = IF OkCode(s) THEN [seat EXCEPT ![p].shown = c, ![p].left = Max({codes[c].left, 0})]
             ELSE seat
  /\ UNCHANGED <<codes, tokens, rates, authFile, tries>>
CloseGenerator(p) ==
  /\ seat[p].shown # None /\ seat' = [seat EXCEPT ![p].shown = None, ![p].left = 0]
  /\ UNCHANGED <<call, codes, tokens, rates, authFile, tries>>

(* handleSubmit, after the answer: setToken, disconnect, connect. *)
Paired(s) ==
  LET p == call[s].page IN
  /\ Answered(s, "verify") /\ End(s)
  /\ seat' = IF OkCode(s) THEN [seat EXCEPT ![p].token = call[s].body, ![p].link = "sent",
                                            ![p].listens = FALSE]
             ELSE seat
  /\ UNCHANGED <<codes, tokens, rates, authFile, tries>>
ApiAnswered(s) ==
  /\ Answered(s, "api") \/ Answered(s, "revoke")
  /\ End(s) /\ UNCHANGED pairVars

-----------------------------------------------------------------------------
Older(left, floor) == IF left = None THEN None ELSE Max({left - 1, floor})
Countdown(v) == IF v.shown = None \/ v.left > 1 THEN [v EXCEPT !.left = Max({@ - 1, 0})]
                ELSE [v EXCEPT !.shown = None, !.left = 0]
Tick ==
  /\ Does("time")
  /\ codes' = [c \in Codes |-> IF codes[c] = None THEN None
                               ELSE [codes[c] EXCEPT !.left = Older(@, -1)]]
  /\ tokens' = [k \in Secrets |-> IF tokens[k] = None THEN None
                               ELSE [tokens[k] EXCEPT !.left = Older(@, 0)]]
  /\ rates' = [p \in Pages |-> IF rates[p] = None THEN None
                 ELSE [rates[p] EXCEPT !.age = Min({@ + 1, 8 * VerifyWindow + 1})]]
  /\ seat' = [p \in Pages |-> Countdown(seat[p])]
  /\ tries' = [p \in Pages |-> [let |-> tries[p].let,
                 age |-> IF tries[p].age < 2 * VerifyWindow THEN tries[p].age + 1
                         ELSE tries[p].age]]
  /\ UNCHANGED <<call, authFile>>

(* The hub starts again, perhaps after its auth.json was removed.  Every   *)
(* socket closes and the requests under way fail.                          *)
HubRestarts ==
  /\ Does("newkey")
  /\ \E file \in {authFile, None} : \E k \in InitAuth(file) :
       authFile' = k /\ tokens' = UpsertPrimaryToken(k)
  /\ call' = [s \in Slots |-> None]
  /\ seat' = [p \in Pages |-> IF seat[p].link = "none" THEN seat[p]
                ELSE [seat[p] EXCEPT !.link = IF @ # "deaf" /\ seat[p].listens THEN "none" ELSE "deaf"]]
  /\ UNCHANGED <<codes, rates, tries>>

PairStep ==
  /\ \/ \E s \in Slots : \/ Unauthorized(s) \/ UseApi(s) \/ Revoke(s)
                         \/ CreatePairingCode(s) \/ Verify(s)
                         \/ ShowCode(s) \/ Paired(s) \/ ApiAnswered(s)
                         \/ \E p \in cast.pages : UserPairs(p, s)
     \/ \E p \in Pages : \/ Authenticate(p) \/ HandleAuth(p) \/ AuthAnswered(p)
                         \/ SocketCloses(p) \/ ReloadPage(p) \/ CloseGenerator(p)
     \/ Tick \/ HubRestarts
  /\ UNCHANGED <<cast, dbVars, page>>

-----------------------------------------------------------------------------
PairTypeOK ==
  /\ codes \in [Codes -> CodeRow \cup {None}]
  /\ tokens \in [Secrets -> TokenRow \cup {None}] /\ authFile \in Secrets
  /\ rates \in [Pages -> RateRow \cup {None}]

(* checkAndIncrement limits the tries of an address per window, not per    *)
(* minute: from the opening of a window at most VerifyMax tries are let    *)
(* through until the next one opens, and that is no sooner than a window   *)
(* later, and two once the threshold was reached, although refused tries   *)
(* go on counting, tries of others clear old counters, and the hub may     *)
(* start again.  (The tries at the end of a window and those at the start  *)
(* of the next may fall into one minute together.)                         *)
Opens(p) == tries'[p].age < tries[p].age \/ tries'[p].let < tries[p].let
AttemptsLimited ==
  [][\A p \in Pages :
       /\ tries'[p].let <= VerifyMax
       /\ Opens(p) => tries[p].age >= IF tries[p].let >= Threshold THEN 2 * VerifyWindow
                                      ELSE VerifyWindow]_pairVars

(* A pairing code is exchanged once: as many tokens as codes used, each    *)
(* with a code of its own, although two screens may send one code at the   *)
(* same time.                                                              *)
OneTokenPerCode ==
  LET paired == {k \in Rows(tokens) : tokens[k].id = "paired"} IN
  /\ \A k, j \in paired : tokens[k].code = tokens[j].code => k = j
  /\ {tokens[k].code : k \in paired} = {c \in Rows(codes) : codes[c].used}

(* auth.ts: a token that was revoked, has expired or was replaced is never *)
(* accepted again, by no use of it, no start of the hub and no new code.   *)
NoRevival ==
  [][\A k \in Secrets : (k \in Rows(tokens) \/ \E p \in Pages : seat[p].token = k)
                       /\ ~ValidateTokenRecord(k) => ~ValidateTokenRecord(k)']_pairVars

=============================================================================
