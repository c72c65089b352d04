-------------------------- MODULE StoredDataProofs --------------------------
(***************************************************************************)
(* Proofs about the stored data of the hub, for any number of pages,       *)
(* requests, tokens, codes, hosts and groups.                              *)
(***************************************************************************)
EXTENDS StoredData, FiniteSetTheorems, WellFoundedInduction, TLAPS

storedVars == <<catVars, launchVars, settingsVars, pairVars>>

-----------------------------------------------------------------------------
(* Tokens and codes.                                                       *)

\* The one row 'primary' is that of the token in auth.json, so that a start of the hub
\* gives a new hash to no other row.
OnePrimary ==
  /\ authFile \in Rows(tokens)
  /\ \A k \in Rows(tokens) : tokens[k].id = "primary" <=> k = authFile

PairInv == PairTypeOK /\ OnePrimary /\ OneTokenPerCode

\* An id that is taken is new.
LEMMA NewId ==
  ASSUME NEW ids, NEW used, NEW i \in AnId(ids, used)
  PROVE  i \in ids /\ i \notin used
BY DEF AnId

\* The larger of two numbers.
LEMMA MaxOfTwo ==
  ASSUME NEW a \in Int, NEW b \in Int
  PROVE  Max({a, b}) = IF a >= b THEN a ELSE b
<1>1. CASE a >= b
  <2>1. a \in {a, b} /\ \A y \in {a, b} : a >= y
    BY <1>1
  <2>2. \A x \in {a, b} : (\A y \in {a, b} : x >= y) => x = a
    BY <1>1
  <2>3. QED
    BY <1>1, <2>1, <2>2 DEF Max
<1>2. CASE ~(a >= b)
  <2>1. b \in {a, b} /\ \A y \in {a, b} : b >= y
    BY <1>2
  <2>2. \A x \in {a, b} : (\A y \in {a, b} : x >= y) => x = b
    BY <1>2
  <2>3. QED
    BY <1>2, <2>1, <2>2 DEF Max
<1>3. QED
  BY <1>1, <1>2

LEMMA MinOfTwo ==
  ASSUME NEW a \in Int, NEW b \in Int
  PROVE  Min({a, b}) = IF a <= b THEN a ELSE b
<1>1. CASE a <= b
  <2>1. a \in {a, b} /\ \A y \in {a, b} : a <= y
    BY <1>1
  <2>2. \A x \in {a, b} : (\A y \in {a, b} : x <= y) => x = a
    BY <1>1
  <2>3. QED
    BY <1>1, <2>1, <2>2 DEF Min
<1>2. CASE ~(a <= b)
  <2>1. b \in {a, b} /\ \A y \in {a, b} : b <= y
    BY <1>2
  <2>2. \A x \in {a, b} : (\A y \in {a, b} : x <= y) => x = b
    BY <1>2
  <2>3. QED
    BY <1>2, <2>1, <2>2 DEF Min
<1>3. QED
  BY <1>1, <1>2

\* Time that passes makes nothing younger.
LEMMA OlderFacts ==
  ASSUME NEW left \in Int \cup {None}, NEW floor \in Int
  PROVE  /\ Older(left, floor) \in Int \cup {None}
         /\ left = None => Older(left, floor) = None
         /\ left # None => Older(left, floor) = IF left - 1 >= floor THEN left - 1 ELSE floor
BY MaxOfTwo DEF Older

\* The table keeps its rows, and each row says whose it is and which code it was given for.
TokensKept ==
  /\ tokens' \in [Secrets -> TokenRow \cup {None}] /\ Rows(tokens)' = Rows(tokens)
  /\ \A k \in Rows(tokens) : tokens'[k].id = tokens[k].id /\ tokens'[k].code = tokens[k].code

\* The same codes are used.
Used == {c \in Rows(codes) : codes[c].used}
CodesKept == codes' \in [Codes -> CodeRow \cup {None}] /\ Used' = Used

LEMMA KeptIsEnough ==
  ASSUME PairInv, TokensKept, CodesKept, authFile' = authFile, rates' \in [Pages -> RateRow \cup {None}]
  PROVE  PairInv'
<1>1. PairTypeOK'
  BY DEF PairInv, PairTypeOK, TokensKept, CodesKept
<1>2. OnePrimary'
  BY DEF PairInv, OnePrimary, TokensKept
<1>3. OneTokenPerCode'
  <2> DEFINE paired == {k \in Rows(tokens) : tokens[k].id = "paired"}
  <2>1. {k \in Rows(tokens') : tokens'[k].id = "paired"} = paired
    BY DEF TokensKept
  <2>2. \A k \in paired : tokens'[k].code = tokens[k].code
    BY DEF TokensKept
  <2>3. /\ \A k, j \in paired : tokens[k].code = tokens[j].code => k = j
        /\ {tokens[k].code : k \in paired} = Used
    BY DEF PairInv, OneTokenPerCode, Used
  <2> HIDE DEF paired
  <2>4. /\ \A k, j \in paired : tokens'[k].code = tokens'[j].code => k = j
        /\ {tokens'[k].code : k \in paired} = Used'
    BY <2>2, <2>3 DEF CodesKept
  <2>5. QED
    BY <2>1, <2>4 DEF OneTokenPerCode, Used
<1>4. QED
  BY <1>1, <1>2, <1>3 DEF PairInv

\* A token that is used starts its time again; the other rows are left alone.
LEMMA TouchFacts ==
  ASSUME PairInv, NEW k \in Rows(tokens)
  PROVE  LET tab == TouchToken(k) IN
         /\ tab \in [Secrets -> TokenRow \cup {None}] /\ Rows(tab) = Rows(tokens)
         /\ \A j \in Rows(tokens) : /\ tab[j].id = tokens[j].id /\ tab[j].code = tokens[j].code
                                    /\ tab[j].revoked = tokens[j].revoked
                                    /\ j # k => tab[j] = tokens[j]
<1> DEFINE tab == TouchToken(k)
           r == [tokens[k] EXCEPT !.left = Ttl]
<1>1. /\ tokens \in [Secrets -> TokenRow \cup {None}] /\ Rows(tokens) \subseteq Secrets
      /\ \A j \in Rows(tokens) : tokens[j] \in TokenRow
  BY DEF PairInv, PairTypeOK, Rows
<1>2. CASE Ttl > 0 /\ tokens[k].left # None
  <2>1. Ttl \in 0 .. TokenTtl
    BY PairingAssumption DEF Ttl
  <2>2. r \in TokenRow /\ r.id = tokens[k].id /\ r.code = tokens[k].code /\ r.revoked = tokens[k].revoked
    BY <1>1, <2>1 DEF TokenRow
  <2>3. tab = [tokens EXCEPT ![k] = r]
    BY <1>2 DEF TouchToken
  <2> HIDE DEF tab, r
  <2>4. /\ tab \in [Secrets -> TokenRow \cup {None}] /\ tab[k] = r
        /\ \A j \in Secrets : j # k => tab[j] = tokens[j]
    BY <1>1, <2>2, <2>3
  <2>5. Rows(tab) = Rows(tokens)
    BY <1>1, <2>2, <2>4, PairingAssumption DEF Rows
  <2>6. QED
    BY <1>1, <2>2, <2>4, <2>5 DEF tab
<1>3. CASE ~(Ttl > 0 /\ tokens[k].left # None)
  <2>1. tab = tokens
    BY <1>3 DEF TouchToken
  <2>2. QED
    BY <1>1, <2>1
<1>4. QED
  BY <1>2, <1>3

\* A token that was known and is not valid stays so.
Known(k) == k \in Rows(tokens) \/ \E p \in Pages : seat[p].token = k
StaysOut == \A k \in Secrets : Known(k) /\ ~ValidateTokenRecord(k) => ~ValidateTokenRecord(k)'

\* Only a row that changes can become valid.
LEMMA OutByRow ==
  ASSUME PairInv, tokens' \in [Secrets -> TokenRow \cup {None}],
         \A k \in Secrets : Known(k) /\ tokens'[k] # tokens[k] =>
           \/ tokens'[k] = None
           \/ ValidateTokenRecord(k)
           \/ tokens'[k].revoked
           \/ tokens'[k].left # None /\ ~(tokens'[k].left > 0)
  PROVE  StaysOut
<1>1. DOMAIN tokens = Secrets /\ DOMAIN tokens' = Secrets
  BY DEF PairInv, PairTypeOK
<1>2. ASSUME NEW k \in Secrets, Known(k), ~ValidateTokenRecord(k) PROVE ~ValidateTokenRecord(k)'
  <2>1. CASE tokens'[k] = tokens[k]
    BY <1>1, <1>2, <2>1 DEF ValidateTokenRecord, Rows
  <2>2. CASE tokens'[k] # tokens[k]
    BY <1>2, <2>2 DEF ValidateTokenRecord, Rows
  <2>3. QED
    BY <2>1, <2>2
<1>3. QED
  BY <1>2 DEF StaysOut

\* A request or a handshake is accepted, and perhaps revokes a token.
LEMMA TouchKeeps ==
  ASSUME PairInv, NEW k \in Secrets, ValidateTokenRecord(k), tokens' = TouchToken(k),
         CodesKept, authFile' = authFile, rates' \in [Pages -> RateRow \cup {None}]
  PROVE  PairInv' /\ StaysOut
<1>1. k \in Rows(tokens)
  BY DEF ValidateTokenRecord
<1>2. TokensKept /\ \A j \in Secrets : j # k => tokens'[j] = tokens[j]
  <2>1. /\ tokens' \in [Secrets -> TokenRow \cup {None}] /\ Rows(tokens') = Rows(tokens)
        /\ \A j \in Rows(tokens) : /\ tokens'[j].id = tokens[j].id /\ tokens'[j].code = tokens[j].code
                                   /\ tokens'[j].revoked = tokens[j].revoked
                                   /\ j # k => tokens'[j] = tokens[j]
    BY <1>1, TouchFacts
  <2>2. \A j \in Secrets : j \notin Rows(tokens) => tokens[j] = None /\ tokens'[j] = None
    BY <2>1 DEF Rows, PairInv, PairTypeOK
  <2>3. QED
    BY <2>1, <2>2 DEF TokensKept
<1>3. StaysOut
  BY <1>2, OutByRow DEF TokensKept
<1>4. QED
  BY <1>2, <1>3, KeptIsEnough

\* A row that is revoked is out.
LEMMA RevokeKeeps ==
  ASSUME PairInv, NEW k \in Secrets, ValidateTokenRecord(k), NEW v \in Rows(tokens),
         tokens' = RevokeToken(TouchToken(k), v),
         CodesKept, authFile' = authFile, rates' \in [Pages -> RateRow \cup {None}]
  PROVE  PairInv' /\ StaysOut
<1> DEFINE tab == TouchToken(k)
<1>1. k \in Rows(tokens)
  BY DEF ValidateTokenRecord
<1>2. /\ tab \in [Secrets -> TokenRow \cup {None}] /\ Rows(tab) = Rows(tokens)
      /\ \A j \in Rows(tokens) : /\ tab[j].id = tokens[j].id /\ tab[j].code = tokens[j].code
                                 /\ tab[j].revoked = tokens[j].revoked
                                 /\ j # k => tab[j] = tokens[j]
  BY <1>1, TouchFacts
<1> DEFINE r == [tab[v] EXCEPT !.revoked = TRUE]
<1>3. tokens' = [tab EXCEPT ![v] = r]
  BY DEF RevokeToken
<1> HIDE DEF tab
<1>4. tab[v] \in TokenRow /\ v \in Secrets
  BY <1>2 DEF Rows
<1>5. r \in TokenRow /\ r.id = tab[v].id /\ r.code = tab[v].code /\ r.revoked
  <2>1. TRUE \in BOOLEAN
    OBVIOUS
  <2>2. QED
    BY <1>4, <2>1 DEF TokenRow
<1> HIDE DEF r
<1>6. /\ tokens' \in [Secrets -> TokenRow \cup {None}] /\ tokens'[v] = r
      /\ \A j \in Secrets : j # v => tokens'[j] = tab[j]
  BY <1>2, <1>3, <1>4, <1>5
<1>7. Rows(tokens') = Rows(tokens)
  BY <1>2, <1>4, <1>5, <1>6, PairingAssumption DEF Rows
<1>8. TokensKept
  BY <1>2, <1>5, <1>6, <1>7 DEF TokensKept, Rows
<1>9. StaysOut
  <2>1. \A j \in Secrets : j \notin Rows(tokens) => tokens[j] = None /\ tokens'[j] = None
    BY <1>6, <1>7 DEF Rows, PairInv, PairTypeOK
  <2>2. \A j \in Secrets : j # v /\ j # k => tokens'[j] = tokens[j]
    BY <1>2, <1>6, <2>1
  <2>3. QED
    BY <1>5, <1>6, <2>2, OutByRow
<1>10. QED
  BY <1>8, <1>9, KeptIsEnough

\* A step that leaves the tables alone.
LEMMA TablesStill ==
  ASSUME PairInv, UNCHANGED <<codes, tokens, authFile, rates>>
  PROVE  PairInv' /\ StaysOut
<1>1. PairInv'
  BY DEF PairInv, PairTypeOK, OnePrimary, OneTokenPerCode
<1>2. StaysOut
  BY DEF StaysOut, ValidateTokenRecord
<1>3. QED
  BY <1>1, <1>2

\* The codes that are used stay so where the table is not touched.
LEMMA CodesStill ==
  ASSUME PairInv, codes' = codes
  PROVE  CodesKept
BY DEF PairInv, PairTypeOK, CodesKept, Used

\* A new code is not used.
LEMMA CodeCreated ==
  ASSUME PairInv, NEW c \in AnId(Codes, Rows(codes)), codes' = [codes EXCEPT ![c] = NewCode]
  PROVE  CodesKept
<1>1. c \in Codes /\ c \notin Rows(codes) /\ codes \in [Codes -> CodeRow \cup {None}]
  BY NewId DEF PairInv, PairTypeOK
<1>2. NewCode \in CodeRow /\ ~NewCode.used
  <2>1. FALSE \in BOOLEAN
    OBVIOUS
  <2>2. CodeLife \in -1 .. CodeLife
    BY PairingAssumption
  <2>3. QED
    BY <2>1, <2>2 DEF NewCode, CodeRow
<1>3. /\ codes' \in [Codes -> CodeRow \cup {None}] /\ codes'[c] = NewCode
      /\ \A d \in Codes : d # c => codes'[d] = codes[d]
  BY <1>1, <1>2
<1>4. Used' = Used
  BY <1>1, <1>2, <1>3 DEF Used, Rows
<1>5. QED
  BY <1>3, <1>4 DEF CodesKept

\* The counter of an address keeps its bounds, and old ones are removed.
LEMMA RatesCounted ==
  ASSUME PairInv, NEW p
  PROVE  LET tab == [rates EXCEPT ![p] = Counted(p)] IN
         /\ tab \in [Pages -> RateRow \cup {None}]
         /\ CleanExpired(tab) \in [Pages -> RateRow \cup {None}]
<1>1. rates \in [Pages -> RateRow \cup {None}]
  BY DEF PairInv, PairTypeOK
<1>2. MaxCount \in Nat /\ MaxCount >= 1 /\ 8 * VerifyWindow + 1 \in Nat
  BY PairingAssumption DEF MaxCount
<1>3. p \in Pages => Counted(p) \in RateRow
  <2>0. SUFFICES ASSUME p \in Pages PROVE Counted(p) \in RateRow
    OBVIOUS
  <2>1. CASE NewWindow(p)
    BY <1>2, <2>1 DEF Counted, RateRow
  <2>2. CASE ~NewWindow(p)
    <3>1. rates[p] \in RateRow
      BY <1>1, <2>0, <2>2 DEF NewWindow
    <3>2. rates[p].attempts \in 1 .. MaxCount
      BY <3>1 DEF RateRow
    <3> DEFINE n == IF rates[p].attempts < MaxCount THEN rates[p].attempts + 1 ELSE rates[p].attempts
    <3>3. n \in 1 .. MaxCount
      BY <1>2, <3>2
    <3>4. Counted(p) = [rates[p] EXCEPT !.attempts = n]
      BY <2>2 DEF Counted
    <3> HIDE DEF n
    <3>5. QED
      BY <3>1, <3>3, <3>4 DEF RateRow
  <2>3. QED
    BY <2>1, <2>2
<1>4. [rates EXCEPT ![p] = Counted(p)] \in [Pages -> RateRow \cup {None}]
  BY <1>1, <1>3
<1>5. \A tab \in [Pages -> RateRow \cup {None}] : CleanExpired(tab) \in [Pages -> RateRow \cup {None}]
  BY DEF CleanExpired
<1>6. QED
  BY <1>4, <1>5

\* A code is exchanged: it was not used, so no token was given for it.
LEMMA RedeemKeeps ==
  ASSUME PairInv, NEW c, Redeemable(c), NEW k \in FreshKeys, codes' = MarkPairingCodeUsed(c),
         tokens' = CreateToken(tokens, k, c), authFile' = authFile, rates' \in [Pages -> RateRow \cup {None}]
  PROVE  PairInv' /\ StaysOut
<1> DEFINE r == Token("paired", Expiry, c)
           u == [codes[c] EXCEPT !.used = TRUE]
           paired == {j \in Rows(tokens) : tokens[j].id = "paired"}
<1>1. /\ tokens \in [Secrets -> TokenRow \cup {None}] /\ codes \in [Codes -> CodeRow \cup {None}]
      /\ \A j \in Rows(tokens) : tokens[j] \in TokenRow /\ j \in Secrets
  BY DEF PairInv, PairTypeOK, Rows
<1>2. c \in Codes /\ codes[c] \in CodeRow /\ c \in Rows(codes) /\ ~codes[c].used
  BY <1>1 DEF Redeemable, Rows
<1>3. k \in Secrets /\ k \notin Rows(tokens) /\ ~Known(k)
  BY NewId DEF FreshKeys, Known
<1>4. r \in TokenRow /\ r.id = "paired" /\ r.code = c
  <2>1. Expiry \in 0 .. TokenTtl \cup {None}
    BY PairingAssumption DEF Expiry, Ttl
  <2>2. FALSE \in BOOLEAN
    OBVIOUS
  <2>3. QED
    BY <1>2, <2>1, <2>2 DEF Token, TokenRow
<1>5. u \in CodeRow /\ u.used
  <2>1. TRUE \in BOOLEAN
    OBVIOUS
  <2>2. QED
    BY <1>2, <2>1 DEF CodeRow
<1>6. tokens' = [tokens EXCEPT ![k] = r] /\ codes' = [codes EXCEPT ![c] = u]
  BY DEF CreateToken, MarkPairingCodeUsed
<1> HIDE DEF r, u
<1>7. /\ tokens' \in [Secrets -> TokenRow \cup {None}] /\ tokens'[k] = r
      /\ \A j \in Secrets : j # k => tokens'[j] = tokens[j]
  BY <1>1, <1>3, <1>4, <1>6
<1>8. /\ codes' \in [Codes -> CodeRow \cup {None}] /\ codes'[c] = u
      /\ \A d \in Codes : d # c => codes'[d] = codes[d]
  BY <1>1, <1>2, <1>5, <1>6
<1>9. Rows(tokens') = Rows(tokens) \cup {k}
  BY <1>1, <1>3, <1>4, <1>7, PairingAssumption DEF Rows
<1>10. Used' = Used \cup {c} /\ c \notin Used
  BY <1>1, <1>2, <1>5, <1>8, PairingAssumption DEF Used, Rows
<1>11. PairTypeOK'
  BY <1>7, <1>8 DEF PairInv, PairTypeOK
<1>12. OnePrimary'
  BY <1>1, <1>3, <1>4, <1>7, <1>9 DEF PairInv, OnePrimary
<1>13. OneTokenPerCode'
  <2>1. {j \in Rows(tokens') : tokens'[j].id = "paired"} = paired \cup {k}
    BY <1>1, <1>3, <1>4, <1>7, <1>9
  <2>2. /\ \A i, j \in paired : tokens[i].code = tokens[j].code => i = j
        /\ {tokens[j].code : j \in paired} = Used
    BY DEF PairInv, OneTokenPerCode, Used
  <2>3. \A j \in paired : j # k /\ tokens'[j] = tokens[j] /\ tokens[j].code # c
    <3>1. \A j \in paired : j # k /\ tokens'[j] = tokens[j]
      BY <1>1, <1>3, <1>7
    <3>2. \A j \in paired : tokens[j].code \in Used
      BY <2>2
    <3>3. QED
      BY <1>10, <3>1, <3>2
  <2> HIDE DEF paired
  <2>4. \A i, j \in paired \cup {k} : tokens'[i].code = tokens'[j].code => i = j
    BY <1>4, <1>7, <2>2, <2>3
  <2>5. {tokens'[j].code : j \in paired \cup {k}} = Used'
    <3>1. {tokens'[j].code : j \in paired \cup {k}} = {tokens[j].code : j \in paired} \cup {c}
      BY <1>4, <1>7, <2>3
    <3>2. QED
      BY <1>10, <2>2, <3>1
  <2>6. QED
    BY <2>1, <2>4, <2>5 DEF OneTokenPerCode, Used
<1>14. StaysOut
  BY <1>3, <1>7, OutByRow
<1>15. QED
  BY <1>11, <1>12, <1>13, <1>14 DEF PairInv

\* Time passes: what has expired stays expired.
LEMMA TickKeeps ==
  ASSUME PairInv, Tick
  PROVE  PairInv' /\ StaysOut
<1>1. /\ tokens \in [Secrets -> TokenRow \cup {None}] /\ codes \in [Codes -> CodeRow \cup {None}]
      /\ rates \in [Pages -> RateRow \cup {None}]
  BY DEF PairInv, PairTypeOK
<1>2. /\ codes' = [c \in Codes |-> IF codes[c] = None THEN None ELSE [codes[c] EXCEPT !.left = Older(@, -1)]]
      /\ tokens' = [k \in Secrets |-> IF tokens[k] = None THEN None ELSE [tokens[k] EXCEPT !.left = Older(@, 0)]]
      /\ rates' = [p \in Pages |-> IF rates[p] = None THEN None
                     ELSE [rates[p] EXCEPT !.age = Min({@ + 1, 8 * VerifyWindow + 1})]]
      /\ authFile' = authFile
  BY DEF Tick
<1>3. ASSUME NEW k \in Secrets, tokens[k] # None
      PROVE  /\ tokens'[k] \in TokenRow /\ tokens'[k].id = tokens[k].id /\ tokens'[k].code = tokens[k].code
             /\ tokens'[k].revoked = tokens[k].revoked
             /\ tokens[k].left = None => tokens'[k].left = None
             /\ tokens[k].left # None /\ ~(tokens[k].left > 0) =>
                  tokens'[k].left # None /\ ~(tokens'[k].left > 0)
  <2> DEFINE n == Older(tokens[k].left, 0)
  <2>1. tokens[k] \in TokenRow /\ tokens[k].left \in 0 .. TokenTtl \cup {None} /\ None \notin Int
    BY <1>1, <1>3, PairingAssumption DEF TokenRow
  <2>2. /\ tokens[k].left = None => n = None
        /\ tokens[k].left # None => n = IF tokens[k].left - 1 >= 0 THEN tokens[k].left - 1 ELSE 0
    <3>1. tokens[k].left \in Int \cup {None} /\ 0 \in Int
      BY <2>1, PairingAssumption
    <3>2. QED
      BY ONLY <3>1, OlderFacts
  <2>3. tokens'[k] = [tokens[k] EXCEPT !.left = n]
    BY <1>2, <1>3
  <2> HIDE DEF n
  <2>4. n \in 0 .. TokenTtl \cup {None}
    BY <2>1, <2>2, PairingAssumption
  <2>5. /\ tokens'[k] \in TokenRow /\ tokens'[k].id = tokens[k].id /\ tokens'[k].code = tokens[k].code
        /\ tokens'[k].revoked = tokens[k].revoked /\ tokens'[k].left = n
    BY <2>1, <2>3, <2>4 DEF TokenRow
  <2>6. QED
    BY <2>1, <2>2, <2>5
<1>4. \A k \in Secrets : tokens[k] = None => tokens'[k] = None
  BY <1>2
<1>5. tokens' \in [Secrets -> TokenRow \cup {None}] /\ Rows(tokens') = Rows(tokens)
  <2>1. DOMAIN tokens' = Secrets /\ tokens' = [k \in Secrets |-> tokens'[k]]
    BY <1>2
  <2>2. \A k \in Secrets : tokens'[k] \in TokenRow \cup {None}
    BY <1>3, <1>4
  <2>3. tokens' \in [Secrets -> TokenRow \cup {None}]
    BY <2>1, <2>2
  <2>4. QED
    BY <1>1, <1>3, <1>4, <2>3, PairingAssumption DEF Rows
<1>6. TokensKept
  BY <1>1, <1>3, <1>5 DEF TokensKept, Rows
<1>7. StaysOut
  <2>1. ASSUME NEW k \in Secrets, Known(k), tokens'[k] # tokens[k], ~ValidateTokenRecord(k)
        PROVE  \/ tokens'[k] = None \/ tokens'[k].revoked
               \/ tokens'[k].left # None /\ ~(tokens'[k].left > 0)
    <3>1. tokens[k] # None /\ k \in Rows(tokens)
      BY <1>1, <1>4, <2>1 DEF Rows
    <3>2. tokens[k].revoked \/ (tokens[k].left # None /\ ~(tokens[k].left > 0))
      BY <2>1, <3>1 DEF ValidateTokenRecord
    <3>3. QED
      BY <1>3, <3>1, <3>2
  <2>2. QED
    BY <1>5, <2>1, OutByRow
<1>8. ASSUME NEW c \in Codes, codes[c] # None PROVE codes'[c] \in CodeRow /\ codes'[c].used = codes[c].used
  <2> DEFINE n == Older(codes[c].left, -1)
  <2>1. codes[c] \in CodeRow /\ codes[c].left \in -1 .. CodeLife /\ None \notin Int
    BY <1>1, <1>8, PairingAssumption DEF CodeRow
  <2>2. n = IF codes[c].left - 1 >= -1 THEN codes[c].left - 1 ELSE -1
    BY <2>1, PairingAssumption, OlderFacts
  <2>3. codes'[c] = [codes[c] EXCEPT !.left = n]
    BY <1>2, <1>8
  <2>4. n \in -1 .. CodeLife
    BY <2>1, <2>2, PairingAssumption
  <2> HIDE DEF n
  <2>5. QED
    BY <2>1, <2>3, <2>4 DEF CodeRow
<1>9. CodesKept
  <2>1. \A c \in Codes : codes[c] = None => codes'[c] = None
    BY <1>2
  <2>2. codes' \in [Codes -> CodeRow \cup {None}]
    <3>1. codes' = [c \in Codes |-> codes'[c]]
      BY <1>2
    <3>2. \A c \in Codes : codes'[c] \in CodeRow \cup {None}
      BY <1>8, <2>1
    <3>3. QED
      BY <3>1, <3>2
  <2>3. Used' = Used
    BY <1>1, <1>8, <2>1, <2>2, PairingAssumption DEF Used, Rows
  <2>4. QED
    BY <2>2, <2>3 DEF CodesKept
<1>10. rates' \in [Pages -> RateRow \cup {None}]
  <2>1. ASSUME NEW p \in Pages PROVE rates'[p] \in RateRow \cup {None}
    <3>1. CASE rates[p] = None
      BY <1>2, <3>1
    <3>2. CASE rates[p] # None
      <4> DEFINE n == Min({rates[p].age + 1, 8 * VerifyWindow + 1})
      <4>1. rates[p] \in RateRow /\ rates[p].age \in 0 .. 8 * VerifyWindow + 1
        BY <1>1, <3>2 DEF RateRow
      <4>2. 8 * VerifyWindow + 1 \in Nat
        BY PairingAssumption
      <4>3. n = IF rates[p].age + 1 <= 8 * VerifyWindow + 1 THEN rates[p].age + 1 ELSE 8 * VerifyWindow + 1
        BY <4>1, <4>2, MinOfTwo
      <4>4. n \in 0 .. 8 * VerifyWindow + 1
        BY <4>1, <4>2, <4>3
      <4>5. rates'[p] = [rates[p] EXCEPT !.age = n]
        BY <1>2, <3>2
      <4> HIDE DEF n
      <4>6. QED
        BY <4>1, <4>4, <4>5 DEF RateRow
    <3>3. QED
      BY <3>1, <3>2
  <2>2. rates' = [p \in Pages |-> rates'[p]]
    BY <1>2
  <2>3. QED
    BY <2>1, <2>2
<1>11. QED
  BY <1>2, <1>6, <1>7, <1>9, <1>10, KeptIsEnough

\* The hub starts with the token of auth.json, or gives the primary row a new one.
LEMMA RestartKeeps ==
  ASSUME PairInv, HubRestarts
  PROVE  PairInv' /\ StaysOut
<1>0. PICK file \in {authFile, None} :
        \E k \in InitAuth(file) : authFile' = k /\ tokens' = UpsertPrimaryToken(k)
  BY DEF HubRestarts
<1>1. PICK k \in InitAuth(file) : authFile' = k /\ tokens' = UpsertPrimaryToken(k)
  BY <1>0
<1>2. UNCHANGED <<codes, rates>>
  BY DEF HubRestarts
<1>3. /\ tokens \in [Secrets -> TokenRow \cup {None}] /\ authFile \in Secrets /\ authFile \in Rows(tokens)
      /\ tokens[authFile] \in TokenRow /\ tokens[authFile].id = "primary"
      /\ \A j \in Rows(tokens) : tokens[j] \in TokenRow /\ j \in Secrets
  BY DEF PairInv, PairTypeOK, OnePrimary, Rows
<1>4. OldPrimary = {authFile}
  BY <1>3 DEF PairInv, OnePrimary, OldPrimary
<1>5. tokens' = [j \in Secrets |-> IF j = k THEN tokens[authFile] ELSE IF j = authFile THEN None ELSE tokens[j]]
  BY <1>1, <1>4 DEF UpsertPrimaryToken
<1>6. CASE k = authFile
  <2>1. tokens' = tokens
    BY <1>3, <1>5, <1>6
  <2>2. QED
    BY <1>1, <1>2, <1>6, <2>1, TablesStill
<1>7. CASE k # authFile
  <2>1. k \in Secrets /\ k \notin Rows(tokens) /\ ~Known(k)
    <3>1. k \in FreshKeys
      BY <1>1, <1>7 DEF InitAuth
    <3>2. QED
      BY <3>1, NewId DEF FreshKeys, Known
  <2>2. /\ tokens' \in [Secrets -> TokenRow \cup {None}] /\ tokens'[k] = tokens[authFile]
        /\ tokens'[authFile] = None
        /\ \A j \in Secrets : j # k /\ j # authFile => tokens'[j] = tokens[j]
    BY <1>3, <1>5, <1>7, <2>1
  <2>3. Rows(tokens') = (Rows(tokens) \ {authFile}) \cup {k}
    BY <1>3, <1>7, <2>1, <2>2, PairingAssumption DEF Rows
  <2>4. PairTypeOK'
    BY <1>1, <1>2, <2>1, <2>2 DEF PairInv, PairTypeOK
  <2>5. OnePrimary'
    BY <1>1, <1>3, <2>1, <2>2, <2>3 DEF PairInv, OnePrimary
  <2>6. OneTokenPerCode'
    <3> DEFINE paired == {j \in Rows(tokens) : tokens[j].id = "paired"}
    <3>1. {j \in Rows(tokens') : tokens'[j].id = "paired"} = paired /\ \A j \in paired : tokens'[j] = tokens[j]
      BY <1>3, <2>1, <2>2, <2>3
    <3>2. /\ \A i, j \in paired : tokens[i].code = tokens[j].code => i = j
          /\ {tokens[j].code : j \in paired} = {c \in Rows(codes) : codes[c].used}
      BY DEF PairInv, OneTokenPerCode
    <3> HIDE DEF paired
    <3>3. /\ \A i, j \in paired : tokens'[i].code = tokens'[j].code => i = j
          /\ {tokens'[j].code : j \in paired} = {c \in Rows(codes') : codes'[c].used}
      BY <1>2, <3>1, <3>2
    <3>4. QED
      BY <3>1, <3>3 DEF OneTokenPerCode
  <2>7. StaysOut
    BY <2>1, <2>2, OutByRow
  <2>8. QED
    BY <2>4, <2>5, <2>6, <2>7 DEF PairInv
<1>8. QED
  BY <1>6, <1>7

\* Every step about tokens and codes preserves the invariant and keeps out what is out.
LEMMA PairStepKeeps ==
  ASSUME PairInv, PairStep
  PROVE  PairInv' /\ StaysOut
<1>0. rates \in [Pages -> RateRow \cup {None}] /\ Rows(tokens) \subseteq Secrets
  BY DEF PairInv, PairTypeOK, Rows
<1>1. ASSUME NEW s \in Slots, Unauthorized(s) \/ ShowCode(s) \/ Paired(s) \/ ApiAnswered(s)
                               \/ \E p \in cast.pages : UserPairs(p, s)
      PROVE  PairInv' /\ StaysOut
  BY <1>1, TablesStill DEF Unauthorized, ShowCode, Paired, ApiAnswered, UserPairs, pairVars
<1>2. ASSUME NEW p \in Pages, Authenticate(p) \/ AuthAnswered(p) \/ SocketCloses(p) \/ ReloadPage(p)
                               \/ CloseGenerator(p)
      PROVE  PairInv' /\ StaysOut
  BY <1>2, TablesStill DEF Authenticate, AuthAnswered, SocketCloses, ReloadPage, CloseGenerator
<1>3. ASSUME NEW s \in Slots, UseApi(s) PROVE PairInv' /\ StaysOut
  <2>1. ValidateTokenRecord(Bearer(s)) /\ tokens' = TouchToken(Bearer(s)) /\ UNCHANGED <<codes, rates, authFile>>
    BY <1>3 DEF UseApi, Authorized, Touched
  <2>2. Bearer(s) \in Secrets
    BY <1>0, <2>1 DEF ValidateTokenRecord
  <2>3. QED
    BY <1>0, <2>1, <2>2, CodesStill, TouchKeeps
<1>4. ASSUME NEW s \in Slots, Revoke(s) PROVE PairInv' /\ StaysOut
  <2> DEFINE v == call[s].arg.what
  <2>1. /\ ValidateTokenRecord(Bearer(s)) /\ UNCHANGED <<codes, rates, authFile>>
        /\ \/ v \in Rows(tokens) /\ tokens' = RevokeToken(TouchToken(Bearer(s)), v)
           \/ tokens' = TouchToken(Bearer(s))
    BY <1>4 DEF Revoke, Authorized, Touched
  <2>2. Bearer(s) \in Secrets
    BY <1>0, <2>1 DEF ValidateTokenRecord
  <2> HIDE DEF v
  <2>3. QED
    BY <1>0, <2>1, <2>2, CodesStill, TouchKeeps, RevokeKeeps
<1>5. ASSUME NEW s \in Slots, CreatePairingCode(s) PROVE PairInv' /\ StaysOut
  <2>1. ValidateTokenRecord(Bearer(s)) /\ tokens' = TouchToken(Bearer(s)) /\ UNCHANGED <<rates, authFile>>
    BY <1>5 DEF CreatePairingCode, Authorized, Touched
  <2>2. Bearer(s) \in Secrets
    BY <1>0, <2>1 DEF ValidateTokenRecord
  <2>3. CodesKept
    BY <1>5, CodesStill, CodeCreated DEF CreatePairingCode
  <2>4. QED
    BY <1>0, <2>1, <2>2, <2>3, TouchKeeps
<1>6. ASSUME NEW p \in Pages, HandleAuth(p) PROVE PairInv' /\ StaysOut
  <2>1. UNCHANGED <<codes, rates, authFile>>
    BY <1>6 DEF HandleAuth
  <2>2. CASE ValidateTokenRecord(seat[p].token)
    <3>1. tokens' = TouchToken(seat[p].token)
      BY <1>6, <2>2 DEF HandleAuth
    <3>2. seat[p].token \in Secrets
      BY <1>0, <2>2 DEF ValidateTokenRecord
    <3>3. QED
      BY <1>0, <2>1, <2>2, <3>1, <3>2, CodesStill, TouchKeeps
  <2>3. CASE ~ValidateTokenRecord(seat[p].token)
    BY <1>6, <2>1, <2>3, TablesStill DEF HandleAuth
  <2>4. QED
    BY <2>2, <2>3
<1>7. ASSUME NEW s \in Slots, Verify(s) PROVE PairInv' /\ StaysOut
  <2>1. authFile' = authFile /\ rates' \in [Pages -> RateRow \cup {None}]
    <3>1. /\ authFile' = authFile
          /\ \/ rates' = [rates EXCEPT ![call[s].page] = Counted(call[s].page)]
             \/ rates' = CleanExpired([rates EXCEPT ![call[s].page] = Counted(call[s].page)])
      BY <1>7 DEF Verify
    <3> DEFINE tab == [rates EXCEPT ![call[s].page] = Counted(call[s].page)]
    <3>2. /\ tab \in [Pages -> RateRow \cup {None}]
          /\ CleanExpired(tab) \in [Pages -> RateRow \cup {None}]
      BY ONLY PairInv, RatesCounted
    <3>3. rates' = tab \/ rates' = CleanExpired(tab)
      BY <3>1
    <3> HIDE DEF tab
    <3>4. QED
      BY <3>1, <3>2, <3>3, Zenon
  <2>2. CASE UNCHANGED <<codes, tokens>>
    <3>1. CodesKept /\ TokensKept
      BY <2>2, CodesStill DEF TokensKept, PairInv, PairTypeOK
    <3>2. StaysOut
      BY <2>2 DEF StaysOut, ValidateTokenRecord
    <3>3. QED
      BY <2>1, <3>1, <3>2, KeptIsEnough
  <2>3. CASE Redeemable(call[s].arg) /\ Redeem(s, call[s].arg)
    <3>1. PICK k \in FreshKeys : /\ codes' = MarkPairingCodeUsed(call[s].arg)
                                 /\ tokens' = CreateToken(tokens, k, call[s].arg)
      BY <2>3 DEF Redeem
    <3>2. QED
      BY <2>1, <2>3, <3>1, RedeemKeeps
  <2>4. QED
    BY <1>7, <2>2, <2>3 DEF Verify
<1>8. CASE Tick
  BY <1>8, TickKeeps
<1>9. CASE HubRestarts
  BY <1>9, RestartKeeps
<1>10. QED
  BY <1>1, <1>2, <1>3, <1>4, <1>5, <1>6, <1>7, <1>8, <1>9 DEF PairStep

LEMMA PairStart ==
  ASSUME PairInit
  PROVE  PairInv
<1>1. PICK k \in AnId(Secrets, {}) :
        authFile = k /\ tokens = [j \in Secrets |-> IF j = k THEN Token("primary", None, None) ELSE None]
  BY DEF PairInit
<1>2. k \in Secrets
  BY NewId
<1>3. /\ codes = [c \in Codes |-> IF Does("ready") THEN NewCode ELSE None]
      /\ rates = [p \in Pages |-> None]
  BY DEF PairInit
<1>4. FALSE \in BOOLEAN /\ CodeLife \in -1 .. CodeLife
  BY PairingAssumption
<1>5. NewCode \in CodeRow /\ ~NewCode.used
  BY <1>4 DEF NewCode, CodeRow
<1>6. Token("primary", None, None) \in TokenRow /\ Token("primary", None, None).id = "primary"
  BY <1>4 DEF Token, TokenRow
<1>7. /\ tokens \in [Secrets -> TokenRow \cup {None}] /\ tokens[k] \in TokenRow /\ tokens[k].id = "primary"
      /\ \A j \in Secrets : j # k => tokens[j] = None
  BY <1>1, <1>2, <1>6
<1>8. Rows(tokens) = {k}
  BY <1>2, <1>7, PairingAssumption DEF Rows
<1>9. PairTypeOK
  <2>1. codes \in [Codes -> CodeRow \cup {None}]
    BY <1>3, <1>5
  <2>2. QED
    BY <1>1, <1>2, <1>3, <1>7, <2>1 DEF PairTypeOK
<1>10. OnePrimary
  BY <1>1, <1>7, <1>8 DEF OnePrimary
<1>11. OneTokenPerCode
  <2>1. {j \in Rows(tokens) : tokens[j].id = "paired"} = {}
    BY <1>7, <1>8
  <2>2. {c \in Rows(codes) : codes[c].used} = {}
    BY <1>3, <1>5 DEF Rows
  <2>3. QED
    BY <2>1, <2>2 DEF OneTokenPerCode
<1>12. QED
  BY <1>9, <1>10, <1>11 DEF PairInv

LEMMA PairInvariant == Spec => []PairInv
<1>1. StoredInit => PairInv
  BY PairStart DEF StoredInit
<1>2. PairInv /\ [StoredNext]_storedVars => PairInv'
  <2>1. SUFFICES ASSUME PairInv, [StoredNext]_storedVars PROVE PairInv'
    OBVIOUS
  <2>2. CASE Pairs
    BY <2>1, <2>2, PairStepKeeps DEF Pairs
  <2>3. CASE UNCHANGED pairVars
    BY <2>1, <2>3, TablesStill DEF pairVars
  <2>4. QED
    BY <2>1, <2>2, <2>3 DEF StoredNext, storedVars, pairVars
<1>3. QED
  BY <1>1, <1>2, PTL DEF Spec, storedVars

\* The tables of tokens, codes and counters keep their types.
THEOREM PairTypeCorrect == Spec => []PairTypeOK
<1>1. PairInv => PairTypeOK
  BY DEF PairInv
<1>2. QED
  BY <1>1, PairInvariant, PTL

\* A code is exchanged for one token, however many screens send it and whatever else the
\* hub does with its tables (POST /api/pair/verify).
THEOREM CodesGiveOneToken == Spec => []OneTokenPerCode
<1>1. PairInv => OneTokenPerCode
  BY DEF PairInv
<1>2. QED
  BY <1>1, PairInvariant, PTL

\* A token that was revoked, has expired or was replaced is never accepted again: by no
\* request, no handshake, no exchange of a code and no start of the hub.
THEOREM TokensStayOut == Spec => NoRevival
<1>1. PairInv /\ [StoredNext]_storedVars =>
        [\A k \in Secrets : (k \in Rows(tokens) \/ \E p \in Pages : seat[p].token = k)
                          /\ ~ValidateTokenRecord(k) => ~ValidateTokenRecord(k)']_pairVars
  <2>1. SUFFICES ASSUME PairInv, [StoredNext]_storedVars PROVE StaysOut \/ UNCHANGED pairVars
    BY DEF StaysOut, Known
  <2>2. CASE Pairs
    BY <2>1, <2>2, PairStepKeeps DEF Pairs
  <2>3. QED
    BY <2>1, <2>2 DEF StoredNext, storedVars
<1>2. QED
  BY <1>1, PairInvariant, PTL DEF Spec, NoRevival, storedVars

-----------------------------------------------------------------------------
(* The limit on tries.                                                     *)

\* The row of an address tells at least as many tries as were let through since its window
\* opened, and how long ago that was; a row that is gone was old.
Fits(r, t) ==
  /\ t \in [let : 0 .. VerifyMax, age : 0 .. 2 * VerifyWindow]
  /\ IF r = None THEN t.age = 2 * VerifyWindow
     ELSE /\ t.let <= r.attempts
          /\ t.age = IF r.age < 2 * VerifyWindow THEN r.age ELSE 2 * VerifyWindow
TriesInv == DOMAIN tries = Pages /\ \A p \in Pages : Fits(rates[p], tries[p])

\* What AttemptsLimited says of one step of page p.
Limited(p) ==
  /\ tries'[p].let <= VerifyMax
  /\ Opens(p) => tries[p].age >= IF tries[p].let >= Threshold THEN 2 * VerifyWindow
                                 ELSE VerifyWindow

\* The window doubles at least once the threshold is reached.
LEMMA WindowLength ==
  ASSUME NEW n \in Nat
  PROVE  /\ VerifyWindow * Multiplier(n) \in Nat /\ VerifyWindow * Multiplier(n) >= VerifyWindow
         /\ n >= Threshold => VerifyWindow * Multiplier(n) >= 2 * VerifyWindow
<1>1. Multiplier(n) \in {1, 2, 4, 8} /\ (n >= Threshold => Multiplier(n) \in {2, 4, 8})
  BY PairingAssumption DEF Multiplier
<1>2. VerifyWindow \in Nat
  BY PairingAssumption
<1>3. QED
  BY <1>1, <1>2

\* The row of a page is one of the table, or there is none.
LEMMA RateFacts ==
  ASSUME PairInv, NEW p \in Pages, rates[p] # None
  PROVE  /\ rates[p] \in RateRow /\ rates[p].attempts \in Nat /\ rates[p].age \in Nat
         /\ VerifyMax \in Nat /\ VerifyWindow \in Nat /\ VerifyWindow > 0 /\ VerifyMax > 0
         /\ MaxCount > VerifyMax /\ MaxCount \in Nat
BY PairingAssumption DEF PairInv, PairTypeOK, RateRow, MaxCount

\* A step that leaves the rows alone.
LEMMA TriesStill ==
  ASSUME TriesInv, UNCHANGED <<rates, tries>>
  PROVE  TriesInv' /\ \A p \in Pages : Limited(p)
<1>1. ASSUME NEW p \in Pages PROVE Limited(p)
  <2>1. tries[p] \in [let : 0 .. VerifyMax, age : 0 .. 2 * VerifyWindow]
    BY DEF TriesInv, Fits
  <2>2. tries'[p] = tries[p]
    OBVIOUS
  <2>3. QED
    BY <2>1, <2>2, PairingAssumption DEF Limited, Opens
<1>2. QED
  BY <1>1 DEF TriesInv

\* The row of a try is one of the table.
LEMMA CountedRow ==
  ASSUME PairInv, NEW p \in Pages
  PROVE  Counted(p) # None
<1>1. rates \in [Pages -> RateRow \cup {None}]
  BY DEF PairInv, PairTypeOK
<1>2. CASE NewWindow(p)
  <2>1. Counted(p) = [attempts |-> 1, age |-> 0]
    BY <1>2 DEF Counted
  <2>2. 1 \in 1 .. MaxCount /\ 0 \in 0 .. 8 * VerifyWindow + 1
    BY PairingAssumption DEF MaxCount
  <2>3. Counted(p) \in RateRow
    BY <2>1, <2>2 DEF RateRow
  <2>4. QED
    BY <2>3, PairingAssumption
<1>3. CASE ~NewWindow(p)
  <2>1. rates[p] # None
    BY <1>3 DEF NewWindow
  <2>2. rates[p] \in RateRow /\ MaxCount \in Nat
    BY <2>1, RateFacts
  <2> DEFINE n == IF rates[p].attempts < MaxCount THEN rates[p].attempts + 1 ELSE rates[p].attempts
  <2>3. n \in 1 .. MaxCount /\ Counted(p) = [rates[p] EXCEPT !.attempts = n]
    BY <1>3, <2>2 DEF Counted, RateRow
  <2> HIDE DEF n
  <2>4. Counted(p) \in RateRow
    BY <2>2, <2>3 DEF RateRow
  <2>5. QED
    BY <2>4, PairingAssumption
<1>4. QED
  BY <1>2, <1>3

\* A page whose history does not change.
LEMMA StillLimited ==
  ASSUME NEW p \in Pages, Fits(rates[p], tries[p]), tries'[p] = tries[p]
  PROVE  Limited(p)
<1>1. tries[p] \in [let : 0 .. VerifyMax, age : 0 .. 2 * VerifyWindow]
  BY DEF Fits
<1>2. QED
  BY <1>1, PairingAssumption DEF Limited, Opens

\* Time passes.
LEMMA TriesTick ==
  ASSUME PairInv, TriesInv, Tick
  PROVE  TriesInv' /\ \A p \in Pages : Limited(p)
<1>1. DOMAIN tries' = Pages
  BY DEF Tick
<1>2. ASSUME NEW p \in Pages PROVE Fits(rates[p], tries[p])' /\ Limited(p)
  <2>1. /\ tries[p] \in [let : 0 .. VerifyMax, age : 0 .. 2 * VerifyWindow]
        /\ VerifyWindow \in Nat /\ VerifyWindow > 0 /\ VerifyMax \in Nat
    BY PairingAssumption DEF TriesInv, Fits
  <2>2. tries'[p] = [let |-> tries[p].let, age |-> IF tries[p].age < 2 * VerifyWindow
                                                   THEN tries[p].age + 1 ELSE tries[p].age]
    BY DEF Tick
  <2>3. /\ tries'[p] \in [let : 0 .. VerifyMax, age : 0 .. 2 * VerifyWindow]
        /\ tries'[p].let = tries[p].let /\ tries'[p].age >= tries[p].age
        /\ tries'[p].age = IF tries[p].age < 2 * VerifyWindow THEN tries[p].age + 1 ELSE tries[p].age
    BY <2>1, <2>2
  <2>4. Limited(p)
    BY <2>1, <2>3 DEF Limited, Opens
  <2>5. CASE rates[p] = None
    <3>1. rates'[p] = None
      BY <2>5 DEF Tick
    <3>2. QED
      BY <2>1, <2>3, <2>4, <2>5, <3>1 DEF Fits, TriesInv
  <2>6. CASE rates[p] # None
    <3>1. rates[p] \in RateRow /\ rates[p].attempts \in Nat /\ rates[p].age \in Nat
      BY <2>6, RateFacts
    <3>2. rates'[p] = [rates[p] EXCEPT !.age = Min({rates[p].age + 1, 8 * VerifyWindow + 1})]
      BY <2>6 DEF Tick
    <3>3. Min({rates[p].age + 1, 8 * VerifyWindow + 1}) =
            IF rates[p].age + 1 <= 8 * VerifyWindow + 1 THEN rates[p].age + 1 ELSE 8 * VerifyWindow + 1
      BY <2>1, <3>1, MinOfTwo
    <3>4. /\ rates'[p].attempts = rates[p].attempts
          /\ rates'[p].age = IF rates[p].age + 1 <= 8 * VerifyWindow + 1 THEN rates[p].age + 1
                             ELSE 8 * VerifyWindow + 1
      BY <3>1, <3>2, <3>3 DEF RateRow
    <3>5. /\ tries[p].let <= rates[p].attempts
          /\ tries[p].age = IF rates[p].age < 2 * VerifyWindow THEN rates[p].age ELSE 2 * VerifyWindow
      BY <2>6 DEF TriesInv, Fits
    <3>6. rates'[p] # None
      <4> DEFINE n == IF rates[p].age + 1 <= 8 * VerifyWindow + 1 THEN rates[p].age + 1 ELSE 8 * VerifyWindow + 1
      <4>1. n \in 0 .. 8 * VerifyWindow + 1
        BY <2>1, <3>1
      <4>2. rates'[p] = [rates[p] EXCEPT !.age = n]
        BY <3>2, <3>3
      <4> HIDE DEF n
      <4>3. rates'[p] \in RateRow
        BY <3>1, <4>1, <4>2 DEF RateRow
      <4>4. QED
        BY <4>3, PairingAssumption
    <3>7. QED
      BY <2>1, <2>3, <2>4, <3>1, <3>4, <3>5, <3>6 DEF Fits
  <2>7. QED
    BY <2>5, <2>6
<1>3. QED
  BY <1>1, <1>2 DEF TriesInv

\* A row that is old enough to be removed.
LEMMA CleanFits ==
  ASSUME NEW r, NEW t, Fits(r, t), r # None, r.age \in Nat, r.age > 8 * VerifyWindow
  PROVE  Fits(None, t)
BY PairingAssumption DEF Fits

\* A try that was refused: its row counts it, and nothing was let through.
LEMMA TriesRefused ==
  ASSUME PairInv, NEW p \in Pages, Fits(rates[p], tries[p]), ~Allowed(p)
  PROVE  Fits(Counted(p), tries[p])
<1>1. ~NewWindow(p) /\ rates[p] # None
  BY DEF Allowed, NewWindow
<1>2. /\ rates[p] \in RateRow /\ rates[p].attempts \in Nat /\ rates[p].age \in Nat
      /\ MaxCount \in Nat
  BY <1>1, RateFacts
<1> DEFINE n == IF rates[p].attempts < MaxCount THEN rates[p].attempts + 1 ELSE rates[p].attempts
<1>3. Counted(p) = [rates[p] EXCEPT !.attempts = n]
  BY <1>1 DEF Counted
<1>4. n \in Nat /\ n >= rates[p].attempts
  BY <1>2
<1> HIDE DEF n
<1>5. Counted(p) = [attempts |-> n, age |-> rates[p].age]
  BY <1>2, <1>3 DEF RateRow
<1>6. Counted(p) # None
  BY CountedRow
<1>7. /\ tries[p] \in [let : 0 .. VerifyMax, age : 0 .. 2 * VerifyWindow]
      /\ tries[p].let <= rates[p].attempts
      /\ tries[p].age = IF rates[p].age < 2 * VerifyWindow THEN rates[p].age ELSE 2 * VerifyWindow
  BY <1>1 DEF Fits
<1>8. tries[p].let <= n
  BY <1>2, <1>4, <1>7, PairingAssumption
<1>9. QED
  BY <1>5, <1>6, <1>7, <1>8 DEF Fits

\* A try that was let through, in its window or opening the next.
LEMMA TriesLet ==
  ASSUME PairInv, NEW p \in Pages, Fits(rates[p], tries[p]), Allowed(p), tries'[p] = LetThrough(p)
  PROVE  Fits(Counted(p), tries'[p]) /\ Limited(p)
<1>0. /\ VerifyMax \in Nat /\ VerifyWindow \in Nat /\ VerifyWindow > 0 /\ VerifyMax > 0
      /\ MaxCount > VerifyMax /\ MaxCount \in Nat /\ Threshold \in Nat
  BY PairingAssumption DEF MaxCount
<1>1. tries[p] \in [let : 0 .. VerifyMax, age : 0 .. 2 * VerifyWindow]
  BY DEF Fits
<1>2. Counted(p) # None
  BY CountedRow
<1>3. CASE NewWindow(p)
  <2>1. Counted(p) = [attempts |-> 1, age |-> 0] /\ tries'[p] = [let |-> 1, age |-> 0]
    BY <1>3 DEF Counted, LetThrough
  <2>2. Fits(Counted(p), tries'[p])
    BY <1>0, <1>2, <2>1 DEF Fits
  <2>3. tries[p].age >= IF tries[p].let >= Threshold THEN 2 * VerifyWindow ELSE VerifyWindow
    <3>1. CASE rates[p] = None
      BY <1>0, <3>1 DEF Fits
    <3>2. CASE rates[p] # None
      <4>1. rates[p].attempts \in Nat /\ rates[p].age \in Nat
        BY <3>2, RateFacts
      <4> DEFINE w == VerifyWindow * Multiplier(rates[p].attempts)
      <4>2. rates[p].age >= w
        BY <1>3, <3>2 DEF NewWindow
      <4>3. /\ w \in Nat /\ w >= VerifyWindow
            /\ rates[p].attempts >= Threshold => w >= 2 * VerifyWindow
        BY <4>1, WindowLength
      <4> HIDE DEF w
      <4>4. /\ tries[p].let <= rates[p].attempts
            /\ tries[p].age = IF rates[p].age < 2 * VerifyWindow THEN rates[p].age ELSE 2 * VerifyWindow
        BY <3>2 DEF Fits
      <4>5. QED
        BY <1>0, <1>1, <4>1, <4>2, <4>3, <4>4
    <3>3. QED
      BY <3>1, <3>2
  <2>4. QED
    BY <1>0, <2>1, <2>2, <2>3 DEF Limited
<1>4. CASE ~NewWindow(p)
  <2>1. rates[p] # None /\ rates[p].attempts + 1 <= VerifyMax
    BY <1>4 DEF Allowed, NewWindow
  <2>2. rates[p] \in RateRow /\ rates[p].attempts \in Nat /\ rates[p].age \in Nat
    BY <2>1, RateFacts
  <2>3. /\ tries[p].let <= rates[p].attempts
        /\ tries[p].age = IF rates[p].age < 2 * VerifyWindow THEN rates[p].age ELSE 2 * VerifyWindow
    BY <2>1 DEF Fits
  <2>4. rates[p].attempts < MaxCount
    BY <1>0, <2>1, <2>2
  <2>5. Counted(p) = [attempts |-> rates[p].attempts + 1, age |-> rates[p].age]
    BY <1>4, <2>2, <2>4 DEF Counted, RateRow
  <2>6. tries'[p] = [let |-> tries[p].let + 1, age |-> tries[p].age]
    BY <1>0, <1>1, <1>4 DEF LetThrough
  <2>7. tries[p].let + 1 <= VerifyMax /\ tries[p].let + 1 \in Nat /\ tries[p].age \in 0 .. 2 * VerifyWindow
    BY <1>0, <1>1, <2>1, <2>2, <2>3
  <2>8. Fits(Counted(p), tries'[p])
    BY <1>0, <1>1, <1>2, <2>2, <2>3, <2>5, <2>6, <2>7 DEF Fits
  <2>9. Limited(p)
    BY <1>0, <1>1, <2>6, <2>7 DEF Limited, Opens
  <2>10. QED
    BY <2>8, <2>9
<1>5. QED
  BY <1>3, <1>4

\* POST /api/pair/verify, the old rows of other addresses removed.
LEMMA TriesVerify ==
  ASSUME PairInv, TriesInv, NEW s \in Slots, Verify(s)
  PROVE  TriesInv' /\ \A q \in Pages : Limited(q)
<1> DEFINE p == call[s].page
           tab == [rates EXCEPT ![p] = Counted(p)]
<1>1. \/ /\ ~Allowed(p) /\ rates' = tab /\ tries' = tries
      \/ /\ Allowed(p) /\ rates' = CleanExpired(tab)
         /\ tries' = [tries EXCEPT ![p] = LetThrough(p)]
  BY DEF Verify
<1>2. /\ tab \in [Pages -> RateRow \cup {None}] /\ DOMAIN tries = Pages
      /\ rates \in [Pages -> RateRow \cup {None}]
  BY RatesCounted DEF TriesInv, PairInv, PairTypeOK
<1>3. \A q \in Pages : tab[q] = IF q = p THEN Counted(p) ELSE rates[q]
  BY <1>2
<1> HIDE DEF p, tab
<1>4. DOMAIN tries' = Pages
  BY <1>1, <1>2
<1>5. ASSUME NEW q \in Pages PROVE Fits(tab[q], tries'[q]) /\ Limited(q)
  <2>1. Fits(rates[q], tries[q])
    BY DEF TriesInv
  <2>2. CASE q = p /\ ~Allowed(p)
    <3>1. tries'[q] = tries[q]
      BY <1>1, <2>2
    <3>2. QED
      BY <1>3, <2>1, <2>2, <3>1, TriesRefused, StillLimited
  <2>3. CASE q = p /\ Allowed(p)
    <3>1. tries'[q] = LetThrough(q)
      BY <1>1, <1>2, <2>3
    <3>2. QED
      BY <1>3, <2>1, <2>3, <3>1, TriesLet
  <2>4. CASE q # p
    <3>1. tries'[q] = tries[q]
      BY <1>1, <1>2, <2>4
    <3>2. QED
      BY <1>3, <2>1, <2>4, <3>1, StillLimited
  <2>5. QED
    BY <2>2, <2>3, <2>4
<1>6. ASSUME NEW q \in Pages PROVE Fits(rates'[q], tries'[q])
  <2>1. CASE rates'[q] = tab[q]
    BY <1>5, <2>1
  <2>2. CASE rates'[q] # tab[q]
    <3>1. tab[q] # None /\ tab[q].age > 8 * VerifyWindow /\ rates'[q] = None
      BY <1>1, <2>2 DEF CleanExpired
    <3>2. tab[q] \in RateRow /\ tab[q].age \in Nat
      BY <1>2, <3>1, PairingAssumption DEF RateRow
    <3>3. QED
      BY <1>5, <3>1, <3>2, CleanFits
  <2>3. QED
    BY <2>1, <2>2
<1>7. QED
  BY <1>4, <1>5, <1>6 DEF TriesInv

\* Every step about tokens and codes keeps the limit.
LEMMA TriesStep ==
  ASSUME PairInv, TriesInv, PairStep
  PROVE  TriesInv' /\ \A p \in Pages : Limited(p)
<1>1. CASE UNCHANGED <<rates, tries>>
  BY <1>1, TriesStill
<1>2. CASE Tick
  BY <1>2, TriesTick
<1>3. CASE \E s \in Slots : Verify(s)
  BY <1>3, TriesVerify
<1>4. ASSUME NEW s \in Slots,
             \/ Unauthorized(s) \/ UseApi(s) \/ Revoke(s) \/ CreatePairingCode(s) \/ ShowCode(s)
             \/ Paired(s) \/ ApiAnswered(s) \/ \E p \in cast.pages : UserPairs(p, s)
      PROVE  UNCHANGED <<rates, tries>>
  BY <1>4 DEF Unauthorized, UseApi, Revoke, CreatePairingCode, ShowCode, Paired, ApiAnswered,
              UserPairs, pairVars
<1>5. ASSUME NEW p \in Pages,
             \/ Authenticate(p) \/ HandleAuth(p) \/ AuthAnswered(p) \/ SocketCloses(p)
             \/ ReloadPage(p) \/ CloseGenerator(p)
      PROVE  UNCHANGED <<rates, tries>>
  BY <1>5 DEF Authenticate, HandleAuth, AuthAnswered, SocketCloses, ReloadPage, CloseGenerator
<1>6. HubRestarts => UNCHANGED <<rates, tries>>
  BY DEF HubRestarts
<1>7. QED
  BY <1>1, <1>2, <1>3, <1>4, <1>5, <1>6 DEF PairStep

LEMMA TriesStart ==
  ASSUME PairInit
  PROVE  TriesInv
<1>1. rates = [p \in Pages |-> None] /\ tries = [p \in Pages |-> [let |-> 0, age |-> 2 * VerifyWindow]]
  BY DEF PairInit
<1>2. [let |-> 0, age |-> 2 * VerifyWindow] \in [let : 0 .. VerifyMax, age : 0 .. 2 * VerifyWindow]
  BY PairingAssumption
<1>3. QED
  BY <1>1, <1>2 DEF TriesInv, Fits

\* From the opening of a window at most VerifyMax tries of an address are let through until
\* the next one opens, which is no sooner than a window later, and two once the threshold
\* was reached: however the tries of pages, the cleaning of old rows, restarts and time mix.
THEOREM AttemptsStayLimited == Spec => AttemptsLimited
<1>1. StoredInit => TriesInv
  BY TriesStart DEF StoredInit
<1>2. PairInv /\ TriesInv /\ [StoredNext]_storedVars =>
        TriesInv' /\ [\A p \in Pages : Limited(p)]_pairVars
  <2>1. SUFFICES ASSUME PairInv, TriesInv, [StoredNext]_storedVars
                 PROVE  TriesInv' /\ ((\A p \in Pages : Limited(p)) \/ UNCHANGED pairVars)
    OBVIOUS
  <2>2. CASE Pairs
    BY <2>1, <2>2, TriesStep DEF Pairs
  <2>3. CASE UNCHANGED pairVars
    BY <2>1, <2>3, TriesStill DEF pairVars
  <2>4. QED
    BY <2>1, <2>2, <2>3 DEF StoredNext, storedVars
<1>3. [\A p \in Pages : Limited(p)]_pairVars =>
        [\A p \in Pages :
           /\ tries'[p].let <= VerifyMax
           /\ Opens(p) => tries[p].age >= IF tries[p].let >= Threshold THEN 2 * VerifyWindow
                                          ELSE VerifyWindow]_pairVars
  BY DEF Limited
<1>4. QED
  BY <1>1, <1>2, <1>3, PairInvariant, PTL DEF Spec, AttemptsLimited, storedVars

-----------------------------------------------------------------------------
(* The places of the host groups.                                          *)

\* A row of host_groups, whatever its name.
IsGroupRow(r) == \E n : \E o \in Nat : r = [name |-> n, order |-> o]
GroupRows == DOMAIN groups = Groups /\ \A g \in Rows(groups) : IsGroupRow(groups[g])
GroupInv == GroupRows /\ GroupOrder

LEMMA PlaceOfRow ==
  ASSUME NEW r, IsGroupRow(r)
  PROVE  r.order \in Nat
<1>1. PICK n : \E o \in Nat : r = [name |-> n, order |-> o]
  BY DEF IsGroupRow
<1>2. PICK o \in Nat : r = [name |-> n, order |-> o]
  BY <1>1
<1>3. QED
  BY <1>2

LEMMA RowWithPlace ==
  ASSUME NEW n, NEW o \in Nat
  PROVE  IsGroupRow([name |-> n, order |-> o])
BY Zenon DEF IsGroupRow

\* Of some numbers one is the least.
LEMMA LeastExists ==
  ASSUME NEW S \in SUBSET Nat, S # {}
  PROVE  \E n \in S : \A m \in S : n <= m
<1> DEFINE R == {p \in Nat \X Nat : p[1] < p[2]}
<1>1. IsWellFoundedOn(R, Nat)
  BY NatLessThanWellFounded DEF OpToRel
<1>2. PICK n \in S : \A m \in S : ~(<<m, n>> \in R)
  <2> HIDE DEF R
  <2>1. QED
    BY <1>1, WFMin
<1>3. \A m \in S : ~(m < n)
  BY <1>2
<1>4. QED
  BY <1>3

\* Of finitely many rows one is the last: the smallest set of rows without a last one
\* would have a smaller one.
LEMMA LastExists ==
  ASSUME NEW S, IsFiniteSet(S), S # {}, NEW f, \A x \in S : f[x] \in Nat
  PROVE  \E x \in S : \A y \in S : f[x] >= f[y]
<1> DEFINE Open(X) == X # {} /\ \A x \in X : \E y \in X : f[y] > f[x]
           Sizes == {n \in Nat : \E X \in SUBSET S : Open(X) /\ Cardinality(X) = n}
<1>1. SUFFICES ASSUME Open(S) PROVE FALSE
  OBVIOUS
<1>2. Cardinality(S) \in Sizes
  BY <1>1, FS_CardinalityType
<1>3. PICK n \in Sizes : \A m \in Sizes : n <= m
  <2>1. Sizes \in SUBSET Nat /\ Sizes # {}
    BY <1>2
  <2> HIDE DEF Sizes
  <2>2. QED
    BY <2>1, LeastExists
<1>4. PICK X \in SUBSET S : Open(X) /\ Cardinality(X) = n
  BY <1>3
<1>5. PICK x \in X, y \in X : f[y] > f[x]
  BY <1>4
<1> DEFINE Y == X \ {x}
<1>6. IsFiniteSet(X)
  BY FS_Subset
<1>7. Cardinality(Y) = n - 1 /\ Cardinality(Y) \in Nat /\ IsFiniteSet(Y)
  BY <1>4, <1>6, FS_RemoveElement, FS_CardinalityType
<1>8. ~Open(Y)
  <2>1. Cardinality(Y) \notin Sizes
    BY <1>3, <1>7
  <2>2. Y \in SUBSET S
    OBVIOUS
  <2>3. QED
    BY <1>7, <2>1, <2>2
<1>9. y \in Y
  BY <1>5
<1>10. PICK t \in Y : \A z \in Y : f[t] >= f[z]
  BY <1>8, <1>9
<1>11. f[t] >= f[y] /\ f[t] >= f[x]
  BY <1>5, <1>9, <1>10
<1>12. \A z \in X : f[t] >= f[z]
  BY <1>10, <1>11
<1>13. QED
  BY <1>4, <1>10, <1>12

\* createHostGroup and the migration put a group after all others.
LEMMA NextSortIsAfter ==
  ASSUME GroupInv
  PROVE  NextSort \in Nat /\ \A g \in Rows(groups) : groups[g].order < NextSort
<1>1. CASE Rows(groups) = {}
  BY <1>1 DEF NextSort
<1>2. CASE Rows(groups) # {}
  <2> DEFINE f == [g \in Rows(groups) |-> groups[g].order]
             S == {groups[g].order : g \in Rows(groups)}
  <2>1. \A g \in Rows(groups) : groups[g].order \in Nat
    BY PlaceOfRow DEF GroupInv, GroupRows
  <2>2. IsFiniteSet(Rows(groups))
    BY CatalogAssumption, FS_Subset DEF GroupInv, GroupRows, Rows
  <2>3. PICK x \in Rows(groups) : \A y \in Rows(groups) : f[x] >= f[y]
    <3>1. \A y \in Rows(groups) : f[y] \in Nat
      BY <2>1
    <3> HIDE DEF f
    <3>2. QED
      BY <1>2, <2>2, <3>1, LastExists
  <2>4. groups[x].order \in S /\ \A y \in S : groups[x].order >= y
    BY <2>3
  <2>5. Max(S) \in S /\ \A y \in S : Max(S) >= y
    BY <2>4 DEF Max
  <2>6. Max(S) \in Nat /\ NextSort = Max(S) + 1
    BY <1>2, <2>1, <2>5 DEF NextSort
  <2>7. \A g \in Rows(groups) : groups[g].order \in S
    OBVIOUS
  <2> HIDE DEF S
  <2>8. QED
    BY <2>1, <2>5, <2>6, <2>7
<1>3. QED
  BY <1>1, <1>2

LEMMA GroupsStill ==
  ASSUME GroupInv, groups' = groups
  PROVE  GroupInv'
BY DEF GroupInv, GroupRows, GroupOrder, Rows

LEMMA PostGroupKeeps ==
  ASSUME GroupInv, NEW s, PostGroup(s)
  PROVE  GroupInv'
<1>1. CASE groups' = groups
  BY <1>1, GroupsStill
<1>2. CASE \E g \in FreshGroups :
             groups' = [groups EXCEPT ![g] = [name |-> call[s].arg.name, order |-> NextSort]]
  <2>1. PICK g \in FreshGroups :
             groups' = [groups EXCEPT ![g] = [name |-> call[s].arg.name, order |-> NextSort]]
    BY <1>2
  <2>2. g \in Groups
    BY NewId DEF FreshGroups
  <2>3. /\ DOMAIN groups' = Groups /\ groups'[g] = [name |-> call[s].arg.name, order |-> NextSort]
        /\ \A k \in Groups : k # g => groups'[k] = groups[k]
    BY <2>1, <2>2 DEF GroupInv, GroupRows
  <2>4. IsGroupRow(groups'[g]) /\ groups'[g].order = NextSort
    BY <2>3, NextSortIsAfter, RowWithPlace
  <2>5. \A k \in Rows(groups') : k # g => k \in Rows(groups) /\ groups'[k] = groups[k]
    BY <2>3 DEF Rows, GroupInv, GroupRows
  <2>6. GroupRows'
    BY <2>3, <2>4, <2>5 DEF GroupInv, GroupRows
  <2>7. GroupOrder'
    BY <2>4, <2>5, NextSortIsAfter DEF GroupInv, GroupOrder
  <2>8. QED
    BY <2>6, <2>7 DEF GroupInv
<1>3. QED
  BY <1>1, <1>2 DEF PostGroup, Refuse, dbVars

\* A row that gets another name keeps its place, and the other way round.
LEMMA RowRenamed ==
  ASSUME NEW r, IsGroupRow(r), NEW n
  PROVE  IsGroupRow([r EXCEPT !.name = n]) /\ [r EXCEPT !.name = n].order = r.order
<1>1. PICK m : \E q \in Nat : r = [name |-> m, order |-> q]
  BY DEF IsGroupRow
<1>2. PICK q \in Nat : r = [name |-> m, order |-> q]
  BY <1>1
<1>3. [r EXCEPT !.name = n] = [name |-> n, order |-> q]
  BY <1>2
<1>4. QED
  BY <1>2, <1>3, RowWithPlace

LEMMA RowMoved ==
  ASSUME NEW r, IsGroupRow(r), NEW o \in Nat
  PROVE  IsGroupRow([r EXCEPT !.order = o]) /\ [r EXCEPT !.order = o].order = o
<1>1. PICK m : \E q \in Nat : r = [name |-> m, order |-> q]
  BY DEF IsGroupRow
<1>2. PICK q \in Nat : r = [name |-> m, order |-> q]
  BY <1>1
<1>3. [r EXCEPT !.order = o] = [name |-> m, order |-> o]
  BY <1>2
<1>4. QED
  BY <1>3, RowWithPlace

LEMMA PutGroupKeeps ==
  ASSUME GroupInv, NEW s, PutGroup(s)
  PROVE  GroupInv'
<1> DEFINE g == call[s].arg.group
           n == call[s].arg.name
<1>1. CASE groups' = groups
  BY <1>1, GroupsStill
<1>2. CASE g \in Rows(groups) /\ groups' = [groups EXCEPT ![g].name = n]
  <2>1. g \in Groups /\ IsGroupRow(groups[g])
    BY <1>2 DEF GroupInv, GroupRows, Rows
  <2>2. /\ DOMAIN groups' = Groups /\ groups'[g] = [groups[g] EXCEPT !.name = n]
        /\ \A k \in Groups : k # g => groups'[k] = groups[k]
    BY <1>2, <2>1 DEF GroupInv, GroupRows
  <2>3. IsGroupRow(groups'[g]) /\ groups'[g].order = groups[g].order
    <3> HIDE DEF g, n
    <3>1. QED
      BY ONLY <2>1, <2>2, RowRenamed
  <2>4. \A k \in Rows(groups') : /\ k \in Rows(groups) /\ IsGroupRow(groups'[k])
                                 /\ groups'[k].order = groups[k].order
    <3> HIDE DEF g, n
    <3>1. QED
      BY <1>2, <2>2, <2>3 DEF Rows, GroupInv, GroupRows
  <2>5. GroupRows'
    BY <2>2, <2>4 DEF GroupRows
  <2>6. GroupOrder'
    BY <2>4 DEF GroupInv, GroupOrder
  <2>7. QED
    BY <2>5, <2>6 DEF GroupInv
<1>3. QED
  BY <1>1, <1>2 DEF PutGroup, Refuse, dbVars

LEMMA DeleteGroupKeeps ==
  ASSUME GroupInv, NEW s, DeleteGroup(s)
  PROVE  GroupInv'
<1>1. CASE groups' = groups
  BY <1>1, GroupsStill
<1>2. CASE groups' = [groups EXCEPT ![call[s].arg] = None]
  <2>1. DOMAIN groups' = Groups
    BY <1>2 DEF GroupInv, GroupRows
  <2>2. \A k \in Rows(groups') : k \in Rows(groups) /\ groups'[k] = groups[k]
    BY <1>2 DEF Rows, GroupInv, GroupRows
  <2>3. QED
    BY <2>1, <2>2 DEF GroupInv, GroupRows, GroupOrder
<1>3. QED
  BY <1>1, <1>2 DEF DeleteGroup, Refuse, dbVars

\* The order a page sends names every group once, so every place is given once.
LEMMA OrderGroupsKeeps ==
  ASSUME GroupInv, NEW s, OrderGroups(s)
  PROVE  GroupInv'
<1>1. CASE groups' = groups
  BY <1>1, GroupsStill
<1>2. CASE groups' # groups
  <2>1. PICK ids : ids = call[s].arg.ids
    OBVIOUS
  <2> DEFINE at(g) == CHOOSE i \in DOMAIN ids : ids[i] = g
  <2>2. /\ AcceptOrder(ids)
        /\ groups' = [g \in Groups |-> IF g \in Range(ids)
                         THEN [groups[g] EXCEPT !.order = at(g) - 1] ELSE groups[g]]
    BY <1>2, <2>1 DEF OrderGroups, Refuse, dbVars
  <2>3. ids \in Seq(Groups) /\ Range(ids) = Rows(groups)
    BY <2>2 DEF AcceptOrder
  <2>4. \A g \in Rows(groups) : at(g) \in DOMAIN ids /\ ids[at(g)] = g
    BY <2>3 DEF Range
  <2>5. \A g \in Rows(groups) : at(g) - 1 \in Nat
    BY <2>3, <2>4
  <2>6. \A g, k \in Rows(groups) : at(g) - 1 = at(k) - 1 => g = k
    <3>1. \A g \in Rows(groups) : at(g) \in Nat
      BY <2>3, <2>4
    <3> HIDE DEF at
    <3>2. QED
      BY <2>4, <3>1
  <2> HIDE DEF at
  <2>7. DOMAIN groups' = Groups
    BY <2>2
  <2>8. \A g \in Rows(groups') : /\ g \in Rows(groups) /\ IsGroupRow(groups'[g])
                                 /\ groups'[g].order = at(g) - 1
    <3>1. SUFFICES ASSUME NEW g \in Rows(groups')
                   PROVE  /\ g \in Rows(groups) /\ IsGroupRow(groups'[g])
                          /\ groups'[g].order = at(g) - 1
      OBVIOUS
    <3>2. g \in Groups /\ groups'[g] # None
      BY <2>7, <3>1 DEF Rows
    <3>3. g \in Rows(groups)
      BY <2>2, <2>3, <3>2 DEF Rows, GroupInv, GroupRows
    <3>4. groups'[g] = [groups[g] EXCEPT !.order = at(g) - 1]
      BY <2>2, <2>3, <3>2, <3>3
    <3>5. IsGroupRow(groups[g]) /\ at(g) - 1 \in Nat
      BY <2>5, <3>3 DEF GroupInv, GroupRows
    <3>6. PICK o \in Nat : o = at(g) - 1
      BY <3>5
    <3>7. groups'[g] = [groups[g] EXCEPT !.order = o]
      BY <3>4, <3>6
    <3>8. IsGroupRow(groups'[g]) /\ groups'[g].order = o
      BY ONLY <3>5, <3>7, o \in Nat, RowMoved
    <3>9. QED
      BY <3>3, <3>6, <3>8
  <2>9. GroupRows'
    BY <2>7, <2>8 DEF GroupRows
  <2>10. GroupOrder'
    BY <2>6, <2>8 DEF GroupOrder
  <2>11. QED
    BY <2>9, <2>10 DEF GroupInv
<1>3. QED
  BY <1>1, <1>2

\* The groups the migration makes follow the others, each at a place of its own.
LEMMA MigrationKeeps ==
  ASSUME GroupInv, MigrateHostGroupData
  PROVE  GroupInv'
<1> DEFINE missing == {n \in {hosts[h].legacy : h \in Rows(hosts)} \ {None} : GroupNamed(n) = {}}
           ids == NewIds(Groups, given)
<1>1. PICK ns \in SetToSeqs(missing) :
        LET at(g) == CHOOSE i \in DOMAIN ns : ids[i] = g
            made == {ids[i] : i \in DOMAIN ns}
        IN groups' = [g \in Groups |-> IF g \in made
                        THEN [name |-> ns[at(g)], order |-> NextSort + at(g) - 1] ELSE groups[g]]
  BY DEF MigrateHostGroupData
<1> DEFINE at(g) == CHOOSE i \in DOMAIN ns : ids[i] = g
           made == {ids[i] : i \in DOMAIN ns}
<1>2. groups' = [g \in Groups |-> IF g \in made
                   THEN [name |-> ns[at(g)], order |-> NextSort + at(g) - 1] ELSE groups[g]]
  BY <1>1
<1>3. \A g \in made : at(g) \in DOMAIN ns /\ ids[at(g)] = g
  OBVIOUS
<1>4. DOMAIN ns \subseteq Nat \ {0}
  BY DEF SetToSeqs
<1>5. \A g \in made : NextSort + at(g) - 1 \in Nat /\ NextSort + at(g) - 1 >= NextSort
  BY <1>3, <1>4, NextSortIsAfter
<1>6. \A g, k \in made : NextSort + at(g) - 1 = NextSort + at(k) - 1 => g = k
  BY <1>3, <1>4, NextSortIsAfter
<1> HIDE DEF at, made
<1>7. \A g \in Rows(groups') :
        \/ /\ g \in made /\ IsGroupRow(groups'[g]) /\ groups'[g].order = NextSort + at(g) - 1
        \/ g \in Rows(groups) /\ groups'[g] = groups[g]
  <2>1. SUFFICES ASSUME NEW g \in Rows(groups'), g \in made
                 PROVE  IsGroupRow(groups'[g]) /\ groups'[g].order = NextSort + at(g) - 1
    BY <1>2 DEF Rows, GroupInv, GroupRows
  <2>2. groups'[g] = [name |-> ns[at(g)], order |-> NextSort + at(g) - 1]
    BY <1>2, <2>1 DEF Rows
  <2>3. QED
    BY <1>5, <2>1, <2>2, RowWithPlace
<1>8. \A g \in Rows(groups) : groups[g].order \in Nat /\ groups[g].order < NextSort
  BY NextSortIsAfter, PlaceOfRow DEF GroupInv, GroupRows
<1>9. GroupRows'
  BY <1>2, <1>7 DEF GroupInv, GroupRows
<1>10. GroupOrder'
  BY <1>5, <1>6, <1>7, <1>8, NextSortIsAfter DEF GroupInv, GroupOrder
<1>11. QED
  BY <1>9, <1>10 DEF GroupInv

LEMMA HubKeepsGroups ==
  ASSUME GroupInv, NEW s \in Slots, HubHandles(s)
  PROVE  GroupInv'
<1>1. CASE PostGroup(s) \/ PutGroup(s) \/ DeleteGroup(s) \/ OrderGroups(s)
  BY <1>1, PostGroupKeeps, PutGroupKeeps, DeleteGroupKeeps, OrderGroupsKeeps
<1>2. CASE GetHosts(s) \/ PostHost(s) \/ PutHost(s) \/ DeleteHost(s) \/ GetGroups(s)
  <2>1. groups' = groups
    BY <1>2 DEF GetHosts, PostHost, PutHost, DeleteHost, GetGroups, Refuse, dbVars
  <2>2. QED
    BY <2>1, GroupsStill
<1>3. CASE DuplicateHost(s) \/ OrderHosts(s) \/ ImportHosts(s)
  <2>1. groups' = groups
    BY <1>3 DEF DuplicateHost, OrderHosts, ImportHosts, Refuse, dbVars
  <2>2. QED
    BY <2>1, GroupsStill
<1>4. QED
  BY <1>1, <1>2, <1>3 DEF HubHandles

LEMMA PagesKeepGroups ==
  ASSUME NEW s \in Slots, PageGets(s) \/ \E p \in cast.pages : UserDoes(p, s)
  PROVE  groups' = groups
<1>1. CASE \/ GotHosts(s) \/ GotGroups(s) \/ FormSaved(s) \/ HostMoved(s) \/ HostsOrdered(s)
           \/ HostDeleted(s) \/ HostDuplicated(s)
  BY <1>1 DEF GotHosts, GotGroups, FormSaved, HostMoved, HostsOrdered, HostDeleted,
              HostDuplicated, dbVars
<1>2. CASE \/ HostsImported(s) \/ GroupMade(s) \/ GroupRenamed(s) \/ GroupDeleted(s)
           \/ GroupsOrdered(s) \/ CallLost(s)
  BY <1>2 DEF HostsImported, GroupMade, GroupRenamed, GroupDeleted, GroupsOrdered, CallLost, dbVars
<1>3. ASSUME NEW p \in cast.pages, UserDoes(p, s) PROVE groups' = groups
  BY <1>3 DEF UserDoes, FetchHosts, OnImport, Save, OnDelete, OnDuplicate, MoveHostToGroup,
              DropHost, OnCreateGroup, OnRenameGroup, OnDeleteGroup, ReorderGroups, dbVars
<1>4. QED
  BY <1>1, <1>2, <1>3 DEF PageGets

LEMMA HostsKeepGroups ==
  ASSUME GroupInv, CatStep
  PROVE  GroupInv'
<1>1. ASSUME NEW s \in Slots, HubHandles(s) PROVE GroupInv'
  BY <1>1, HubKeepsGroups
<1>2. ASSUME NEW s \in Slots, PageGets(s) \/ \E p \in cast.pages : UserDoes(p, s) PROVE GroupInv'
  BY <1>2, PagesKeepGroups, GroupsStill
<1>3. CASE \/ \E p \in Pages : CloseForm(p) \/ \E h \in Hosts \cup {None} : OpenForm(p, h)
           \/ \E h \in Hosts : HostIsUsed(h)
  <2>1. groups' = groups
    BY <1>3 DEF CloseForm, OpenForm, HostIsUsed, dbVars
  <2>2. QED
    BY <2>1, GroupsStill
<1>4. QED
  BY <1>1, <1>2, <1>3 DEF CatStep

\* Profiles, settings, tokens and codes leave the table of groups alone.
LEMMA OthersKeepGroups ==
  ASSUME LaunchStep \/ SettingsStep \/ PairStep
  PROVE  groups' = groups
<1>1. CASE LaunchStep
  <2>1. ASSUME NEW s \in Slots, NEW p \in cast.pages, LaunchUser(p, s) PROVE groups' = groups
    BY <2>1 DEF LaunchUser, OpenProfiles, HandleSave, DoDelete, MoveUp, OpenMenu,
                OnProfileClick, HandleOverrideChange, AskLaunch, TablesKept, dbVars
  <2>2. ASSUME NEW s \in Slots,
               \/ LaunchHandles(s) \/ GotLaunches(s) \/ LaunchSaved(s)
               \/ LaunchDeleted(s) \/ GotMenu(s) \/ NothingMore(s)
        PROVE  groups' = groups
    BY <2>2 DEF LaunchHandles, GotLaunches, LaunchSaved, LaunchDeleted, GotMenu, NothingMore,
                TablesKept, dbVars
  <2>3. CASE \/ \E p \in Pages : OpenLaunchForm(p) \/ CancelLaunchForm(p)
             \/ ImportTerminalProfiles
    BY <2>3 DEF OpenLaunchForm, CancelLaunchForm, ImportTerminalProfiles, dbVars
  <2>4. QED
    BY <1>1, <2>1, <2>2, <2>3 DEF LaunchStep, dbVars
<1>2. CASE SettingsStep
  <2>1. ASSUME NEW s \in Slots,
               \/ GetConfigCascade(s) \/ GetConfigUi(s) \/ PutConfigGlobal(s) \/ PutConfigUi(s)
               \/ PutConfigAppearance(s) \/ PutConfigElevation(s)
               \/ PatchHostProfile(s) \/ PatchChannelProfile(s) \/ Unauthorised(s)
        PROVE  groups' = groups
    BY <2>1 DEF GetConfigCascade, GetConfigUi, PutConfigGlobal, PutConfigUi,
                PutConfigAppearance, PutConfigElevation, PatchHostProfile, PatchChannelProfile,
                Unauthorised, SettingsKept, dbVars
  <2>2. ASSUME NEW s \in Slots,
               \/ GotProfile(s) \/ GotCascade(s) \/ WriteDone(s) \/ LoadedBase(s)
               \/ \E p \in Pages : OpenPanel(p, s) \/ TimerFires(p, s)
        PROVE  groups' = groups
    BY <2>2 DEF GotProfile, GotCascade, WriteDone, LoadedBase, OpenPanel, TimerFires,
                SettingsKept, dbVars
  <2>3. ASSUME NEW p \in Pages,
               \/ ClosePanel(p) \/ UpdateSetting(p) \/ \E c \in Channels : SelectTerminal(p, c)
               \/ HubPortReady(p)
               \/ \E t \in Tokens \cup {None} : TokenChanges(p, t)
        PROVE  groups' = groups
    BY <2>3 DEF ClosePanel, SelectTerminal, TokenChanges, UpdateSetting, HubPortReady, SettingsKept,
                dbVars
  <2>4. CASE FileIsEdited
    BY <2>4 DEF FileIsEdited, dbVars
  <2>5. QED
    BY <1>2, <2>1, <2>2, <2>3, <2>4 DEF SettingsStep
<1>3. CASE PairStep
  BY <1>3 DEF PairStep, dbVars
<1>4. QED
  BY <1>1, <1>2, <1>3

\* No two host groups have the same place: POST puts a group after all others, PUT order
\* takes nothing but a permutation of all, DELETE leaves a gap, and the migration at a start
\* of the hub appends (host-groups.ts, "breaking ordering invariants").
THEOREM GroupPlacesDiffer == Spec => []GroupOrder
<1>1. StoredInit => GroupInv
  BY DEF StoredInit, CatInit, GroupInv, GroupRows, GroupOrder, Rows
<1>2. GroupInv /\ [StoredNext]_storedVars => GroupInv'
  <2>1. SUFFICES ASSUME GroupInv, [StoredNext]_storedVars PROVE GroupInv'
    OBVIOUS
  <2>2. CASE HostsChange
    BY <2>1, <2>2, HostsKeepGroups DEF HostsChange
  <2>3. CASE ProfilesChange \/ SettingsStep \/ Pairs
    BY <2>1, <2>3, OthersKeepGroups, GroupsStill DEF ProfilesChange, Pairs
  <2>4. CASE HubStarts
    BY <2>1, <2>4, MigrationKeeps DEF HubStarts, Start
  <2>5. CASE UNCHANGED storedVars
    BY <2>1, <2>5, GroupsStill DEF storedVars, catVars, dbVars
  <2>6. QED
    BY <2>1, <2>2, <2>3, <2>4, <2>5 DEF StoredNext
<1>3. GroupInv => GroupOrder
  BY DEF GroupInv
<1>4. QED
  BY <1>1, <1>2, <1>3, PTL DEF Spec, storedVars

-----------------------------------------------------------------------------
(* The secrets of the launch profiles.                                     *)

\* The variables of a row that an answer shows, or a page sends back.
WireRows == [id : Profiles, name : Shells, env : [Vars -> Values \cup {Mask, None}]]
Blank == [id |-> None, name |-> None, env |-> NoEnv]

\* A mask for variable v of profile i still stands for a value, unless the profile is gone or
\* a save has removed the variable.
Backed(i, v) ==
  launches[i] = None \/ launches[i].env[v] # None \/ <<i, v>> \in dropped
KnownRow(r) == r \in WireRows /\ r.id \in issued /\ \A v \in Vars : r.env[v] = Mask => Backed(r.id, v)
KnownSave(b) ==
  /\ b.id \in issued /\ b.name \in Shells /\ b.env \in [Vars -> Values \cup {Mask, None}]
  /\ \A v \in Vars : b.env[v] = Mask => v \in b.moved \/ Backed(b.id, v)
KnownList(list) == list \in Seq(WireRows) /\ \A k \in DOMAIN list : KnownRow(list[k])

\* What requests about profiles, and those of a terminal that loads its own, carry.
LaunchOps == {"getLaunches", "postLaunch", "putLaunch", "orderLaunches", "spawn"}
IsRequest(c) == c = [page |-> c.page, op |-> c.op, arg |-> c.arg, code |-> c.code, body |-> c.body]
LoadsView(op, arg) == op = "cascade" /\ arg.who = "view"
Asks(c) ==
  /\ LoadsView(c.op, c.arg) => c.arg.chan # None
  /\ c.op = "postLaunch" => c.arg \in [name : Shells, env : [Vars -> Values \cup {None}]]
  /\ c.op = "putLaunch" => KnownSave(c.arg)
  /\ c.op = "orderLaunches" => c.arg \in Seq(Profiles)
Brings(c) ==
  /\ c.op = "getLaunches" => KnownList(c.body)
  /\ c.op \in {"postLaunch", "putLaunch"} /\ c.code < 300 => KnownRow(c.body)
  /\ c.op = "spawn" => /\ c.body \in [Vars -> Values \cup {Mask, None}]
                       /\ \A v \in Vars : c.body[v] = Mask => \E i \in Profiles : <<i, v>> \in dropped
GoodCall(c) == IsRequest(c) /\ c.code \in Nat /\ Asks(c) /\ (c.code # 0 => Brings(c))

\* What a page keeps of them.
GoodForm(f) == f = [row |-> f.row, saving |-> f.saving] /\ (f.row = Blank \/ KnownRow(f.row))
GoodShelf(x) ==
  /\ x = [list |-> x.list, loaded |-> x.loaded, form |-> x.form, menu |-> x.menu]
  /\ KnownList(x.list) /\ (x.form # None => GoodForm(x.form))

\* The inductive invariant of SecretKept.
LaunchTables ==
  /\ launches \in [Profiles -> LaunchRow \cup {None}] /\ issued \subseteq Profiles
  /\ Rows(launches) \subseteq issued
  /\ \A i \in Rows(launches), v \in Vars : launches[i].env[v] = Mask => <<i, v>> \in dropped
LaunchCalls == DOMAIN call = Slots /\ \A s \in Slots : call[s] # None => GoodCall(call[s])
LaunchShelves == DOMAIN shelf = Pages /\ \A p \in Pages : GoodShelf(shelf[p])
LaunchInv == cast \in Casts /\ LaunchTables /\ LaunchCalls /\ LaunchShelves

TablesGrow ==
  /\ LaunchTables' /\ issued \subseteq issued' /\ dropped \subseteq dropped'
  /\ \A i \in issued, v \in Vars : Backed(i, v) => Backed(i, v)'

\* A row that was sent stays good when the tables grow: what its masks stand for is kept.
LEMMA KnownStays ==
  ASSUME TablesGrow, NEW r, KnownRow(r)
  PROVE  KnownRow(r)'
BY DEF TablesGrow, KnownRow

\* So does a save.
LEMMA SaveStays ==
  ASSUME TablesGrow, NEW b, KnownSave(b)
  PROVE  KnownSave(b)'
BY DEF TablesGrow, KnownSave

\* So does a list of rows.
LEMMA ListStays ==
  ASSUME TablesGrow, NEW list, KnownList(list)
  PROVE  KnownList(list)'
BY KnownStays DEF KnownList

\* So does a request, or an answer on its way.
LEMMA CallStays ==
  ASSUME TablesGrow, NEW c, GoodCall(c)
  PROVE  GoodCall(c)'
<1>1. Asks(c) => Asks(c)'
  BY SaveStays DEF Asks
<1>2. Brings(c) => Brings(c)'
  BY KnownStays, ListStays DEF Brings, TablesGrow
<1>3. QED
  BY <1>1, <1>2 DEF GoodCall

\* And what a page keeps.
LEMMA ShelfStays ==
  ASSUME TablesGrow, NEW x, GoodShelf(x)
  PROVE  GoodShelf(x)'
<1>1. x.form # None /\ GoodForm(x.form) => GoodForm(x.form)'
  BY KnownStays DEF GoodForm
<1>2. QED
  BY <1>1, ListStays DEF GoodShelf

\* The requests and the pages that a step changes are good in the new state.
LEMMA StepKeeps ==
  ASSUME LaunchInv, TablesGrow, cast' = cast,
         DOMAIN call' = Slots, DOMAIN shelf' = Pages,
         \A s \in Slots : call'[s] # None /\ call'[s] # call[s] => GoodCall(call[s])',
         \A p \in Pages : shelf'[p] # shelf[p] => GoodShelf(shelf[p])'
  PROVE  LaunchInv'
<1>1. LaunchCalls'
  BY CallStays DEF LaunchInv, LaunchCalls
<1>2. LaunchShelves'
  BY ShelfStays DEF LaunchInv, LaunchShelves
<1>3. QED
  BY <1>1, <1>2 DEF LaunchInv, TablesGrow

\* The ways a step changes the requests.
LEMMA RecordReplied ==
  ASSUME NEW c, IsRequest(c), NEW code, NEW body
  PROVE  [[c EXCEPT !.code = code] EXCEPT !.body = body]
           = [page |-> c.page, op |-> c.op, arg |-> c.arg, code |-> code, body |-> body]
<1> DEFINE new == [[c EXCEPT !.code = code] EXCEPT !.body = body]
<1>1. c \in [page : {c.page}, op : {c.op}, arg : {c.arg}, code : {c.code}, body : {c.body}]
  BY DEF IsRequest
<1>2. new \in [page : {c.page}, op : {c.op}, arg : {c.arg}, code : {code}, body : {body}]
  BY <1>1
<1> HIDE DEF new
<1>3. new = [page |-> c.page, op |-> c.op, arg |-> c.arg, code |-> code, body |-> body]
  BY <1>2
<1>4. QED
  BY <1>3 DEF new

\* The fields of a request.
LEMMA RecordFacts ==
  ASSUME NEW c, NEW p, NEW op, NEW arg, NEW code, NEW body,
         c = [page |-> p, op |-> op, arg |-> arg, code |-> code, body |-> body]
  PROVE  IsRequest(c) /\ c.op = op /\ c.arg = arg /\ c.code = code /\ c.body = body /\ c.page = p
BY DEF IsRequest

\* The request of one slot is answered.
LEMMA ReplyFacts ==
  ASSUME LaunchCalls, NEW s \in Slots, call[s] # None, NEW code, NEW body, Reply(s, code, body)
  PROVE  /\ DOMAIN call' = Slots /\ \A t \in Slots : t # s => call'[t] = call[t]
         /\ call'[s] = [page |-> call[s].page, op |-> call[s].op, arg |-> call[s].arg,
                        code |-> code, body |-> body]
<1>1. IsRequest(call[s]) /\ DOMAIN call = Slots
  BY DEF LaunchCalls, GoodCall
<1>2. call' = [call EXCEPT ![s] = [[call[s] EXCEPT !.code = code] EXCEPT !.body = body]]
  BY <1>1 DEF Reply
<1>3. QED
  BY <1>1, <1>2, RecordReplied

\* A page puts a new request into a slot.
LEMMA AskFacts ==
  ASSUME LaunchCalls, NEW s \in Slots, NEW p, NEW op, NEW arg, Ask(p, s, op, arg)
  PROVE  /\ DOMAIN call' = Slots /\ \A t \in Slots : t # s => call'[t] = call[t]
         /\ call'[s] = [page |-> p, op |-> op, arg |-> arg, code |-> 0, body |-> None]
BY DEF LaunchCalls, Ask, Request

\* A request is done with.
LEMMA EndFacts ==
  ASSUME LaunchCalls, NEW s \in Slots, End(s)
  PROVE  /\ DOMAIN call' = Slots /\ call'[s] = None /\ \A t \in Slots : t # s => call'[t] = call[t]
BY DEF LaunchCalls, End

\* The next request takes the slot of an answered one.
LEMMA ThenFacts ==
  ASSUME LaunchCalls, NEW s \in Slots, NEW op, NEW arg, Then(s, op, arg)
  PROVE  /\ DOMAIN call' = Slots /\ \A t \in Slots : t # s => call'[t] = call[t]
         /\ call'[s] = [page |-> call[s].page, op |-> op, arg |-> arg, code |-> 0, body |-> None]
BY DEF LaunchCalls, Then, Request

\* Requests that are not about profiles.
OtherCalls ==
  /\ DOMAIN call' = Slots
  /\ \A s \in Slots : call'[s] # None /\ call'[s] # call[s] =>
       /\ IsRequest(call'[s]) /\ call'[s].code \in Nat /\ call'[s].op \notin LaunchOps
       /\ LoadsView(call'[s].op, call'[s].arg) => call'[s].arg.chan # None

\* A step that writes one request, not about profiles.
LEMMA OtherOne ==
  ASSUME NEW s \in Slots, DOMAIN call' = Slots, \A t \in Slots : t # s => call'[t] = call[t],
         NEW r, IsRequest(r), r.op \notin LaunchOps, r.code \in Nat, call'[s] = r,
         LoadsView(r.op, r.arg) => r.arg.chan # None
  PROVE  OtherCalls
BY DEF OtherCalls

\* An answer of another handler.
LEMMA OtherReply ==
  ASSUME LaunchCalls, NEW s \in Slots, call[s] # None, call[s].op \notin LaunchOps,
         NEW code \in Nat, NEW body, Reply(s, code, body)
  PROVE  OtherCalls
<1>1. PICK r : r = [page |-> call[s].page, op |-> call[s].op, arg |-> call[s].arg,
                    code |-> code, body |-> body]
  OBVIOUS
<1>2. IsRequest(r) /\ r.op = call[s].op /\ r.arg = call[s].arg /\ r.code = code
  BY <1>1, RecordFacts
<1>20. LoadsView(r.op, r.arg) => r.arg.chan # None
  BY <1>2 DEF LaunchCalls, GoodCall, Asks
<1>3. DOMAIN call' = Slots /\ (\A t \in Slots : t # s => call'[t] = call[t]) /\ call'[s] = r
  BY <1>1, ReplyFacts
<1>4. QED
  BY <1>2, <1>20, <1>3, OtherOne

\* A request to another handler.
LEMMA OtherAsk ==
  ASSUME LaunchCalls, NEW s \in Slots, NEW p, NEW op, op \notin LaunchOps, NEW arg,
         LoadsView(op, arg) => arg.chan # None, Ask(p, s, op, arg)
  PROVE  OtherCalls
<1>1. PICK r : r = [page |-> p, op |-> op, arg |-> arg, code |-> 0, body |-> None]
  OBVIOUS
<1>2. IsRequest(r) /\ r.op = op /\ r.arg = arg /\ r.code = 0
  BY <1>1, RecordFacts
<1>3. DOMAIN call' = Slots /\ (\A t \in Slots : t # s => call'[t] = call[t]) /\ call'[s] = r
  BY <1>1, AskFacts
<1>4. QED
  BY <1>2, <1>3, OtherOne

\* A request to another handler that follows an answer.
LEMMA OtherThen ==
  ASSUME LaunchCalls, NEW s \in Slots, NEW op, op \notin LaunchOps, NEW arg,
         LoadsView(op, arg) => arg.chan # None, Then(s, op, arg)
  PROVE  OtherCalls
<1>1. PICK r : r = [page |-> call[s].page, op |-> op, arg |-> arg, code |-> 0, body |-> None]
  OBVIOUS
<1>2. IsRequest(r) /\ r.op = op /\ r.arg = arg /\ r.code = 0
  BY <1>1, RecordFacts
<1>3. DOMAIN call' = Slots /\ (\A t \in Slots : t # s => call'[t] = call[t]) /\ call'[s] = r
  BY <1>1, ThenFacts
<1>4. QED
  BY <1>2, <1>3, OtherOne

\* The end of a request.
LEMMA OtherEnd ==
  ASSUME LaunchCalls, NEW s \in Slots, End(s)
  PROVE  OtherCalls
BY EndFacts DEF OtherCalls

\* No request changes.
LEMMA OtherStill ==
  ASSUME LaunchCalls, call' = call
  PROVE  OtherCalls
BY DEF OtherCalls, LaunchCalls

\* Tables that do not change grow trivially.
LEMMA TablesStay ==
  ASSUME LaunchInv, UNCHANGED <<launches, issued, dropped>>
  PROVE  TablesGrow
BY DEF LaunchInv, LaunchTables, TablesGrow, Backed, Rows

\* A step of another component keeps the invariant.
LEMMA OtherSteps ==
  ASSUME LaunchInv, OtherCalls, UNCHANGED <<launches, issued, dropped, cast, shelf>>
  PROVE  LaunchInv'
<1>1. TablesGrow
  BY TablesStay
<1>2. \A s \in Slots : call'[s] # None /\ call'[s] # call[s] => GoodCall(call[s])'
  BY DEF OtherCalls, LoadsView, GoodCall, Asks, Brings, LaunchOps
<1>3. DOMAIN shelf' = Pages
  BY DEF LaunchInv, LaunchShelves
<1>4. QED
  BY <1>1, <1>2, <1>3, StepKeeps DEF OtherCalls

-----------------------------------------------------------------------------
\* What the hub does to the table of profiles.

\* A new row without a mask: POST, the seed and the import.
LEMMA RowAdded ==
  ASSUME LaunchTables, NEW i \in Profiles, i \notin issued, NEW row \in LaunchRow,
         \A v \in Vars : row.env[v] # Mask,
         launches' = [launches EXCEPT ![i] = row], issued' = issued \cup {i}, dropped' = dropped
  PROVE  TablesGrow /\ launches'[i] \in LaunchRow
<1>1. launches \in [Profiles -> LaunchRow \cup {None}]
  BY DEF LaunchTables
<1>2. /\ launches' \in [Profiles -> LaunchRow \cup {None}] /\ launches'[i] = row
      /\ \A j \in Profiles : j # i => launches'[j] = launches[j]
  BY <1>1
<1>3. LaunchTables'
  BY <1>1, <1>2 DEF LaunchTables, Rows
<1>4. \A j \in issued, v \in Vars : Backed(j, v) => Backed(j, v)'
  BY <1>2 DEF Backed, LaunchTables
<1>5. QED
  BY <1>2, <1>3, <1>4 DEF TablesGrow

\* PUT order changes nothing but the places.
LEMMA RowsReordered ==
  ASSUME LaunchTables, launches' \in [Profiles -> LaunchRow \cup {None}],
         UNCHANGED <<issued, dropped>>,
         \A i \in Profiles : \/ launches'[i] \in {launches[i], None}
                             \/ launches[i] # None /\ launches'[i].env = launches[i].env
  PROVE  TablesGrow
<1>1. LaunchTables'
  <2>1. Rows(launches)' \subseteq issued'
    BY DEF LaunchTables, Rows
  <2>2. \A i \in Rows(launches)', v \in Vars : launches'[i].env[v] = Mask => <<i, v>> \in dropped'
    BY DEF LaunchTables, Rows
  <2>3. QED
    BY <2>1, <2>2 DEF LaunchTables
<1>2. \A i \in issued, v \in Vars : Backed(i, v) => Backed(i, v)'
  BY DEF Backed, LaunchTables
<1>3. QED
  BY <1>1, <1>2 DEF TablesGrow

\* The save of a form: a mask that has nothing to stand for is stored only where a save has
\* removed the variable.
LEMMA EnvSaved ==
  ASSUME NEW env \in [Vars -> Values \cup {Mask, None}], NEW old \in [Vars -> Values \cup {Mask, None}]
  PROVE  LET new == IF env = NoEnv THEN old ELSE MergedEnv(env, old) IN
         /\ new \in [Vars -> Values \cup {Mask, None}]
         /\ \A v \in Vars : new[v] = Mask => old[v] = Mask \/ (env[v] = Mask /\ old[v] = None)
BY DEF MergedEnv

\* PUT: the row is merged with the stored one, and what it leaves out or renames is recorded.
LEMMA RowSaved ==
  ASSUME LaunchTables, NEW b, KnownSave(b), b.id \in Rows(launches), issued' = issued,
         launches' = [launches EXCEPT ![b.id] = SavedRow(launches[b.id], b)],
         dropped' = dropped \cup
             {<<b.id, v>> : v \in {w \in Vars : IF launches[b.id].env[w] # None
                                                THEN launches'[b.id].env[w] = None
                                                ELSE w \in b.moved}}
  PROVE  TablesGrow /\ launches'[b.id] \in LaunchRow
<1> DEFINE i == b.id
           old == launches[i].env
           new == IF b.env = NoEnv THEN old ELSE MergedEnv(b.env, old)
           row == SavedRow(launches[i], b)
<1>1. /\ launches \in [Profiles -> LaunchRow \cup {None}] /\ i \in Profiles
      /\ launches[i] \in LaunchRow /\ launches[i] # None /\ i \in issued
  BY DEF LaunchTables, Rows
<1>2. /\ b.name \in Shells /\ b.env \in [Vars -> Values \cup {Mask, None}]
      /\ \A v \in Vars : b.env[v] = Mask => v \in b.moved \/ Backed(i, v)
  BY DEF KnownSave
<1>3. old \in [Vars -> Values \cup {Mask, None}]
  BY <1>1 DEF LaunchRow
<1>4. /\ new \in [Vars -> Values \cup {Mask, None}]
      /\ \A v \in Vars : new[v] = Mask => old[v] = Mask \/ (b.env[v] = Mask /\ old[v] = None)
  BY <1>2, <1>3, EnvSaved
<1>5. launches' = [launches EXCEPT ![i] = row]
  OBVIOUS
<1>6. row \in LaunchRow /\ row.env = new
  BY <1>1, <1>2, <1>4 DEF LaunchRow, SavedRow
<1> HIDE DEF new
<1> HIDE DEF row
<1>7. /\ launches' \in [Profiles -> LaunchRow \cup {None}] /\ launches'[i] = row
      /\ \A j \in Profiles : j # i => launches'[j] = launches[j]
  BY <1>1, <1>5, <1>6
<1>8. /\ dropped \subseteq dropped'
      /\ \A v \in Vars : old[v] # None /\ new[v] = None => <<i, v>> \in dropped'
      /\ \A v \in Vars : old[v] = None /\ v \in b.moved => <<i, v>> \in dropped'
  BY <1>6, <1>7
<1>9. \A v \in Vars : new[v] = Mask => <<i, v>> \in dropped'
  BY <1>1, <1>2, <1>4, <1>8 DEF LaunchTables, Backed
<1>10. LaunchTables'
  <2>1. Rows(launches') \subseteq issued'
    BY <1>1, <1>7 DEF LaunchTables, Rows
  <2>2. \A j \in Rows(launches'), v \in Vars : launches'[j].env[v] = Mask => <<j, v>> \in dropped'
    BY <1>6, <1>7, <1>8, <1>9 DEF LaunchTables, Rows
  <2>3. QED
    BY <1>7, <2>1, <2>2 DEF LaunchTables
<1>11. \A j \in issued, v \in Vars : Backed(j, v) => Backed(j, v)'
  <2>1. ASSUME NEW j \in issued, NEW v \in Vars, Backed(j, v) PROVE Backed(j, v)'
    <3>1. CASE j = i
      BY <1>1, <1>6, <1>7, <1>8, <2>1, <3>1 DEF Backed
    <3>2. CASE j # i
      BY <1>7, <1>8, <2>1, <3>2 DEF Backed, LaunchTables
    <3>3. QED
      BY <3>1, <3>2
  <2>2. QED
    BY <2>1
<1>12. QED
  BY <1>6, <1>7, <1>8, <1>10, <1>11 DEF TablesGrow

\* The rows the seed adds.
LEMMA SeedGrows ==
  ASSUME LaunchTables, NEW names, DOMAIN names \subseteq Nat \ {0},
         \A k \in DOMAIN names : names[k] \in Shells,
         NEW os \in Systems, NEW ids \in IdsFor(names),
         launches' = SeedNames(names, ids, os), issued' = issued \cup Range(ids), dropped' = dropped
  PROVE  TablesGrow
<1>1. launches \in [Profiles -> LaunchRow \cup {None}] /\ issued \subseteq Profiles
  BY DEF LaunchTables
<1>2. /\ DOMAIN ids \subseteq DOMAIN names /\ Range(ids) \subseteq Profiles \ issued
      /\ \A i \in Range(ids) : \E k \in DOMAIN ids : ids[k] = i
  BY DEF IdsFor, Injection, Missing, Range
<1>3. \A i \in Range(ids) : launches'[i] \in LaunchRow /\ launches'[i].env = NoEnv
  <2>1. SUFFICES ASSUME NEW i \in Range(ids) PROVE launches'[i] \in LaunchRow /\ launches'[i].env = NoEnv
    OBVIOUS
  <2> DEFINE k == CHOOSE k \in DOMAIN ids : ids[k] = i
  <2>2. k \in DOMAIN names
    BY <1>2
  <2>3. launches'[i] = [name |-> names[k], env |-> NoEnv, os |-> os, order |-> k - 1]
    BY <1>2 DEF SeedNames
  <2> HIDE DEF k
  <2>4. names[k] \in Shells /\ k - 1 \in Nat
    BY <2>2
  <2>5. NoEnv \in [Vars -> Values \cup {Mask, None}]
    BY DEF NoEnv
  <2>6. QED
    BY <2>3, <2>4, <2>5 DEF LaunchRow
<1>4. /\ launches' \in [Profiles -> LaunchRow \cup {None}]
      /\ \A i \in Profiles \ Range(ids) : launches'[i] = launches[i]
  <2>1. /\ DOMAIN launches' = Profiles /\ launches' = [i \in Profiles |-> launches'[i]]
        /\ \A i \in Profiles \ Range(ids) : launches'[i] = launches[i]
    BY DEF SeedNames
  <2>2. QED
    BY <1>1, <1>3, <2>1
<1>5. \A v \in Vars : NoEnv[v] # Mask
  BY LaunchAssumption DEF NoEnv
<1>6. LaunchTables'
  BY <1>1, <1>2, <1>3, <1>4, <1>5 DEF LaunchTables, Rows
<1>7. \A i \in issued, v \in Vars : Backed(i, v) => Backed(i, v)'
  BY <1>1, <1>2, <1>4 DEF Backed
<1>8. QED
  BY <1>6, <1>7 DEF TablesGrow

-----------------------------------------------------------------------------
\* The handlers of the hub.

\* An answer shows what is stored.
LEMMA WireKnown ==
  ASSUME LaunchTables', NEW i \in issued', launches'[i] \in LaunchRow
  PROVE  KnownRow(ProfileToWire(launches, i))'
<1>1. PICK r : r = ProfileToWire(launches', i)
  OBVIOUS
<1>2. PICK env : env = launches'[i].env
  OBVIOUS
<1>3. i \in Profiles /\ env \in [Vars -> Values \cup {Mask, None}] /\ launches'[i].name \in Shells
  BY <1>2 DEF LaunchTables, LaunchRow
<1>4. r.id = i /\ r.env = MaskEnv(env) /\ r \in WireRows
  BY <1>1, <1>2, <1>3 DEF ProfileToWire, MaskEnv, WireRows
<1>5. \A v \in Vars : MaskEnv(env)[v] = Mask => env[v] # None
  BY <1>3, LaunchAssumption DEF MaskEnv
<1>6. \A v \in Vars : r.env[v] = Mask => Backed(i, v)'
  BY <1>2, <1>4, <1>5 DEF Backed
<1>7. KnownRow(r)'
  BY <1>4, <1>6 DEF KnownRow
<1>8. QED
  BY <1>1, <1>7

\* An answer of a profile handler, with a good body, keeps the invariant.
LEMMA AnswerKeeps ==
  ASSUME LaunchInv, TablesGrow, UNCHANGED <<cast, shelf>>,
         NEW s \in Slots, call[s] # None, NEW code \in Nat, NEW body, Reply(s, code, body),
         call[s].op = "getLaunches" => KnownList(body)',
         call[s].op \in {"postLaunch", "putLaunch"} /\ code < 300 => KnownRow(body)',
         call[s].op = "spawn" =>
           /\ body \in [Vars -> Values \cup {Mask, None}]
           /\ \A v \in Vars : body[v] = Mask => \E i \in Profiles : <<i, v>> \in dropped'
  PROVE  LaunchInv'
<1>1. /\ DOMAIN call' = Slots /\ \A t \in Slots : t # s => call'[t] = call[t]
      /\ call'[s] = [page |-> call[s].page, op |-> call[s].op, arg |-> call[s].arg,
                     code |-> code, body |-> body]
  BY ReplyFacts DEF LaunchInv
<1>2. /\ IsRequest(call'[s]) /\ call'[s].op = call[s].op /\ call'[s].arg = call[s].arg
      /\ call'[s].code = code /\ call'[s].body = body
  BY <1>1, RecordFacts
<1>3. GoodCall(call[s])
  BY DEF LaunchInv, LaunchCalls
<1>4. Asks(call[s])'
  BY <1>2, <1>3, SaveStays DEF GoodCall, Asks
<1>5. Brings(call[s])'
  BY <1>2 DEF Brings
<1>6. GoodCall(call[s])'
  BY <1>2, <1>4, <1>5 DEF GoodCall
<1>7. \A t \in Slots : call'[t] # None /\ call'[t] # call[t] => GoodCall(call[t])'
  BY <1>1, <1>6
<1>8. DOMAIN shelf' = Pages
  BY DEF LaunchInv, LaunchShelves
<1>9. QED
  BY <1>1, <1>7, <1>8, StepKeeps

\* A refusal carries no row.
LEMMA DeniedKeeps ==
  ASSUME LaunchInv, UNCHANGED <<cast, shelf>>, NEW s \in Slots, call[s] # None,
         call[s].op \notin {"getLaunches", "spawn"}, NEW code \in Nat, code >= 300, Denied(s, code)
  PROVE  LaunchInv'
<1>1. TablesGrow /\ Reply(s, code, None)
  BY TablesStay DEF Denied, tableVars
<1>2. QED
  BY <1>1, AnswerKeeps

\* GET: every row is sent with its values masked.
LEMMA GetLaunchesKeeps ==
  ASSUME LaunchInv, UNCHANGED <<cast, shelf>>, NEW s \in Slots, GetLaunches(s)
  PROVE  LaunchInv'
<1>1. TablesGrow /\ LaunchTables' /\ launches' = launches /\ issued' = issued
  BY TablesStay DEF GetLaunches, tableVars, TablesGrow
<1>2. PICK list \in LaunchLists :
        Reply(s, 200, [k \in DOMAIN list |-> ProfileToWire(launches, list[k])])
  BY DEF GetLaunches
<1>21. PICK body : body = [k \in DOMAIN list |-> ProfileToWire(launches, list[k])]
  OBVIOUS
<1>22. PICK n : n = Cardinality(Rows(launches))
  OBVIOUS
<1>3. n \in Nat
  <2>1. Rows(launches) \subseteq Profiles
    BY DEF LaunchInv, LaunchTables, Rows
  <2>2. QED
    BY <1>22, <2>1, LaunchAssumption, FS_Subset, FS_CardinalityType
<1>4. list \in [1 .. n -> Rows(launches)]
  BY <1>22 DEF LaunchLists, Injection
<1>5. \A k \in 1 .. n : KnownRow(body[k])'
  <2>1. SUFFICES ASSUME NEW k \in 1 .. n PROVE KnownRow(body[k])'
    OBVIOUS
  <2>2. list[k] \in Rows(launches)
    BY <1>4
  <2>3. list[k] \in issued' /\ launches'[list[k]] \in LaunchRow
    BY <1>1, <2>2 DEF LaunchInv, LaunchTables, Rows
  <2>4. KnownRow(ProfileToWire(launches, list[k]))'
    BY <1>1, <2>3, WireKnown
  <2>5. QED
    BY <1>1, <1>21, <1>4, <2>4
<1>6. KnownList(body)'
  <2>1. body \in [1 .. n -> WireRows]
    BY <1>21, <1>4, <1>5 DEF KnownRow
  <2>2. body \in Seq(WireRows)
    BY <1>3, <2>1
  <2>3. QED
    BY <1>5, <2>1, <2>2 DEF KnownList
<1>7. QED
  BY <1>1, <1>2, <1>21, <1>6, AnswerKeeps DEF GetLaunches, Waits

\* POST: a new row, answered masked.
LEMMA PostLaunchKeeps ==
  ASSUME LaunchInv, UNCHANGED <<cast, shelf>>, NEW s \in Slots, PostLaunch(s)
  PROVE  LaunchInv'
<1>1. PICK b : b = call[s].arg
  OBVIOUS
<1>2. /\ call[s] # None /\ call[s].op = "postLaunch"
      /\ b \in [name : Shells, env : [Vars -> Values \cup {None}]]
  BY <1>1 DEF PostLaunch, Waits, LaunchInv, LaunchCalls, GoodCall, Asks
<1>3. CASE Denied(s, 409)
  BY <1>2, <1>3, DeniedKeeps
<1>4. ASSUME NEW i \in FreshProfiles,
             launches' = AddRow(launches, i, b.name, b.env, "any", 0), issued' = issued \cup {i},
             dropped' = dropped, Reply(s, 201, ProfileToWire(launches', i))
      PROVE  LaunchInv'
  <2>1. i \in Profiles /\ i \notin issued
    BY <1>4, NewId DEF FreshProfiles
  <2> DEFINE row == [name |-> b.name, env |-> b.env, os |-> "any", order |-> 0]
  <2>2. row \in LaunchRow /\ \A v \in Vars : row.env[v] # Mask
    <3>1. b.name \in Shells /\ b.env \in [Vars -> Values \cup {None}]
      BY <1>2
    <3>2. b.env \in [Vars -> Values \cup {Mask, None}] /\ \A v \in Vars : b.env[v] # Mask
      BY <3>1, LaunchAssumption
    <3>3. QED
      BY <3>1, <3>2 DEF LaunchRow, Systems
  <2>3. launches' = [launches EXCEPT ![i] = row]
    BY <1>4 DEF AddRow
  <2> HIDE DEF row
  <2>4. TablesGrow /\ launches'[i] \in LaunchRow
    BY <1>4, <2>1, <2>2, <2>3, RowAdded DEF LaunchInv
  <2>5. KnownRow(ProfileToWire(launches, i))'
    BY <1>4, <2>4, WireKnown DEF TablesGrow
  <2>6. PICK body : body = ProfileToWire(launches', i)
    OBVIOUS
  <2>7. KnownRow(body)' /\ Reply(s, 201, body)
    BY <1>4, <2>5, <2>6
  <2>8. QED
    BY <1>2, <2>4, <2>7, AnswerKeeps
<1>5. QED
  BY <1>1, <1>3, <1>4 DEF PostLaunch

\* PUT: a mask that comes back is replaced by the stored value.
LEMMA PutLaunchKeeps ==
  ASSUME LaunchInv, UNCHANGED <<cast, shelf>>, NEW s \in Slots, PutLaunch(s)
  PROVE  LaunchInv'
<1>1. PICK b : b = call[s].arg
  OBVIOUS
<1>2. call[s] # None /\ call[s].op = "putLaunch" /\ KnownSave(b)
  BY <1>1 DEF PutLaunch, Waits, LaunchInv, LaunchCalls, GoodCall, Asks
<1>3. CASE Denied(s, 404) \/ Denied(s, 409)
  BY <1>2, <1>3, DeniedKeeps
<1>4. CASE /\ b.id \in Rows(launches) /\ issued' = issued
           /\ launches' = [launches EXCEPT ![b.id] = SavedRow(launches[b.id], b)]
           /\ dropped' = dropped \cup
                {<<b.id, v>> : v \in {w \in Vars : IF launches[b.id].env[w] # None
                                                   THEN launches'[b.id].env[w] = None
                                                   ELSE w \in b.moved}}
           /\ Reply(s, 200, ProfileToWire(launches', b.id))
  <2>1. TablesGrow /\ launches'[b.id] \in LaunchRow
    BY <1>2, <1>4, RowSaved DEF LaunchInv
  <2>2. b.id \in issued' /\ LaunchTables'
    BY <1>2, <1>4, <2>1 DEF KnownSave, TablesGrow
  <2>3. PICK i : i = b.id
    OBVIOUS
  <2>4. KnownRow(ProfileToWire(launches, i))'
    BY <2>1, <2>2, <2>3, WireKnown
  <2>5. PICK body : body = ProfileToWire(launches', i)
    OBVIOUS
  <2>6. KnownRow(body)' /\ Reply(s, 200, body)
    BY <1>4, <2>3, <2>4, <2>5
  <2>7. QED
    BY <1>2, <2>1, <2>6, AnswerKeeps
<1>5. QED
  <2> DEFINE i == b.id
             old == launches[i]
             Saved == /\ i \in Rows(launches) /\ UNCHANGED <<issued, overrides>>
                      /\ launches' = [launches EXCEPT ![i] = SavedRow(old, b)]
                      /\ dropped' = dropped \cup
                           {<<i, v>> : v \in {w \in Vars : IF old.env[w] # None
                                                           THEN launches'[i].env[w] = None
                                                           ELSE w \in b.moved}}
                      /\ Reply(s, 200, ProfileToWire(launches', i))
  <2>1. Denied(s, 404) \/ Denied(s, 409) \/ Saved
    BY <1>1, Zenon DEF PutLaunch
  <2>2. QED
    BY <1>3, <1>4, <2>1

\* DELETE.
LEMMA DeleteLaunchKeeps ==
  ASSUME LaunchInv, UNCHANGED <<cast, shelf>>, NEW s \in Slots, DeleteLaunch(s)
  PROVE  LaunchInv'
<1>1. call[s] # None /\ call[s].op = "deleteLaunch"
  BY DEF DeleteLaunch, Waits
<1>2. CASE Denied(s, 400) \/ Denied(s, 404)
  BY <1>1, <1>2, DeniedKeeps
<1>3. ASSUME NEW i, i \in Rows(launches), launches' = [launches EXCEPT ![i] = None],
             UNCHANGED <<issued, dropped>>, Reply(s, 204, None)
      PROVE  LaunchInv'
  <2>1. launches \in [Profiles -> LaunchRow \cup {None}] /\ LaunchTables
    BY DEF LaunchInv, LaunchTables
  <2>2. /\ launches' \in [Profiles -> LaunchRow \cup {None}]
        /\ \A j \in Profiles : launches'[j] \in {launches[j], None}
    BY <1>3, <2>1 DEF Rows
  <2>3. TablesGrow
    BY <1>3, <2>1, <2>2, RowsReordered
  <2>4. QED
    BY <1>1, <1>3, <2>3, AnswerKeeps
<1>4. QED
  BY <1>2, <1>3 DEF DeleteLaunch

\* PUT order.
LEMMA OrderLaunchesKeeps ==
  ASSUME LaunchInv, UNCHANGED <<cast, shelf>>, NEW s \in Slots, OrderLaunches(s)
  PROVE  LaunchInv'
<1>1. PICK ids : ids = call[s].arg
  OBVIOUS
<1>2. call[s] # None /\ call[s].op = "orderLaunches" /\ ids \in Seq(Profiles)
  BY <1>1 DEF OrderLaunches, Waits, LaunchInv, LaunchCalls, GoodCall, Asks
<1>3. launches \in [Profiles -> LaunchRow \cup {None}] /\ LaunchTables
  BY DEF LaunchInv, LaunchTables
<1>4. \A i \in Profiles :
        \/ launches'[i] = launches[i]
        \/ /\ launches[i] # None /\ i \in Range(ids)
           /\ launches'[i] = [launches[i] EXCEPT !.order = (CHOOSE k \in DOMAIN ids : ids[k] = i) - 1]
  BY <1>1 DEF OrderLaunches, Rows
<1>5. \A i \in Range(ids) : (CHOOSE k \in DOMAIN ids : ids[k] = i) - 1 \in Nat
  BY <1>2 DEF Range
<1>6. \A i \in Profiles : \/ launches'[i] = launches[i]
                          \/ /\ launches[i] # None /\ launches'[i] \in LaunchRow
                             /\ launches'[i].env = launches[i].env
  <2>1. \A row \in LaunchRow, n \in Nat : /\ [row EXCEPT !.order = n] \in LaunchRow
                                          /\ [row EXCEPT !.order = n].env = row.env
    BY DEF LaunchRow
  <2>2. \A i \in Profiles : launches[i] # None => launches[i] \in LaunchRow
    BY <1>3
  <2>3. ASSUME NEW i \in Profiles, launches'[i] # launches[i]
        PROVE  launches[i] # None /\ launches'[i] \in LaunchRow /\ launches'[i].env = launches[i].env
    <3>1. PICK n \in Nat : launches'[i] = [launches[i] EXCEPT !.order = n]
      BY <1>4, <1>5, <2>3
    <3>2. launches[i] # None
      BY <1>4, <2>3
    <3>3. QED
      BY <2>1, <2>2, <3>1, <3>2
  <2>4. QED
    BY <2>3
<1>7. launches' \in [Profiles -> LaunchRow \cup {None}]
  <2>1. launches' = [i \in Profiles |-> launches'[i]]
    BY DEF OrderLaunches
  <2>2. QED
    BY <1>3, <1>6, <2>1
<1>8. TablesGrow
  BY <1>3, <1>6, <1>7, RowsReordered DEF OrderLaunches
<1>9. Reply(s, 204, None)
  BY DEF OrderLaunches
<1>10. /\ call[s].op # "getLaunches" /\ call[s].op \notin {"postLaunch", "putLaunch"}
       /\ call[s].op # "spawn" /\ 204 \in Nat
  BY <1>2
<1>11. QED
  BY <1>2, <1>8, <1>9, <1>10, AnswerKeeps, Zenon

\* A spawn is given the values stored, never the masked row.
LEMMA ResolveLaunchKeeps ==
  ASSUME LaunchInv, UNCHANGED <<cast, shelf>>, NEW s \in Slots, ResolveLaunch(s)
  PROVE  LaunchInv'
<1>1. call[s] # None /\ call[s].op = "spawn" /\ TablesGrow /\ dropped' = dropped
  BY TablesStay DEF ResolveLaunch, Waits, tableVars
<1>2. ASSUME NEW i \in Rows(launches), Reply(s, 200, launches[i].env) PROVE LaunchInv'
  <2>1. PICK body : body = launches[i].env
    OBVIOUS
  <2>2. i \in Profiles /\ launches[i] \in LaunchRow
    BY DEF LaunchInv, LaunchTables, Rows
  <2>3. body \in [Vars -> Values \cup {Mask, None}]
    BY <2>1, <2>2 DEF LaunchRow
  <2>4. \A v \in Vars : body[v] = Mask => \E j \in Profiles : <<j, v>> \in dropped'
    BY <1>1, <2>1, <2>2 DEF LaunchInv, LaunchTables
  <2>5. QED
    BY <1>1, <1>2, <2>1, <2>3, <2>4, AnswerKeeps
<1>3. CASE Reply(s, 200, NoEnv)
  <2>1. NoEnv \in [Vars -> Values \cup {Mask, None}] /\ \A v \in Vars : NoEnv[v] # Mask
    BY LaunchAssumption DEF NoEnv
  <2>2. QED
    BY <1>1, <1>3, <2>1, AnswerKeeps
<1>4. QED
  BY <1>2, <1>3 DEF ResolveLaunch, FirstVisible, Visible

\* The handlers of api/launch-profiles.ts.
LEMMA HubKeepsLaunches ==
  ASSUME LaunchInv, NEW s \in Slots, LaunchHandles(s)
  PROVE  LaunchInv'
<1>1. UNCHANGED <<cast, shelf>>
  BY DEF LaunchHandles
<1>2. CASE \/ GetLaunches(s) \/ PostLaunch(s) \/ PutLaunch(s) \/ DeleteLaunch(s)
           \/ OrderLaunches(s) \/ ResolveLaunch(s)
  BY <1>1, <1>2, GetLaunchesKeeps, PostLaunchKeeps, PutLaunchKeeps, DeleteLaunchKeeps,
     OrderLaunchesKeeps, ResolveLaunchKeeps
<1>3. CASE GetHostProfiles(s)
  <2>1. call[s] # None /\ call[s].op = "menu" /\ UNCHANGED tableVars
    BY <1>3 DEF GetHostProfiles, Waits
  <2>2. PICK code, body : code \in Nat /\ Reply(s, code, body)
    BY <1>3 DEF GetHostProfiles
  <2>3. QED
    BY <1>1, <2>1, <2>2, TablesStay, AnswerKeeps DEF tableVars
<1>4. CASE PutOverride(s)
  <2>1. call[s] # None /\ call[s].op = "putOverride" /\ (Denied(s, 400) \/ Denied(s, 404))
    BY <1>4 DEF PutOverride, Waits
  <2>2. QED
    BY <1>1, <2>1, DeniedKeeps
<1>5. CASE DeleteOverride(s)
  <2>1. call[s] # None /\ call[s].op = "deleteOverride"
    BY <1>5 DEF DeleteOverride, Waits
  <2>2. CASE Denied(s, 404)
    BY <1>1, <2>1, <2>2, DeniedKeeps
  <2>3. CASE Reply(s, 204, None) /\ UNCHANGED <<launches, issued, dropped>>
    BY <1>1, <2>1, <2>3, TablesStay, AnswerKeeps
  <2>4. QED
    BY <1>5, <2>2, <2>3 DEF DeleteOverride
<1>6. QED
  BY <1>2, <1>3, <1>4, <1>5 DEF LaunchHandles

-----------------------------------------------------------------------------
\* The pages.

\* A request of a page that carries what the page may send.
LEMMA AskKeeps ==
  ASSUME LaunchInv, NEW s \in Slots, NEW p, NEW op, NEW arg, AskLaunch(p, s, op, arg),
         op = "postLaunch" => arg \in [name : Shells, env : [Vars -> Values \cup {None}]],
         op = "putLaunch" => KnownSave(arg),
         op # "cascade",
         op = "orderLaunches" => arg \in Seq(Profiles),
         DOMAIN shelf' = Pages,
         \A q \in Pages : shelf'[q] # shelf[q] => GoodShelf(shelf[q])'
  PROVE  LaunchInv'
<1>1. Ask(p, s, op, arg) /\ UNCHANGED <<cast, launches, issued, dropped>>
  BY DEF AskLaunch, TablesKept, tableVars
<1>2. TablesGrow
  BY <1>1, TablesStay
<1>3. /\ DOMAIN call' = Slots /\ \A t \in Slots : t # s => call'[t] = call[t]
      /\ call'[s] = [page |-> p, op |-> op, arg |-> arg, code |-> 0, body |-> None]
  BY <1>1, AskFacts DEF LaunchInv
<1>4. /\ IsRequest(call'[s]) /\ call'[s].op = op /\ call'[s].arg = arg
      /\ call'[s].code = 0
  BY <1>3, RecordFacts
<1>5. Asks(call[s])'
  BY <1>2, <1>4, SaveStays DEF Asks, LoadsView
<1>6. GoodCall(call[s])'
  BY <1>4, <1>5 DEF GoodCall
<1>7. \A t \in Slots : call'[t] # None /\ call'[t] # call[t] => GoodCall(call[t])'
  BY <1>3, <1>6
<1>8. QED
  BY <1>1, <1>2, <1>3, <1>7, StepKeeps

\* The end of a request about profiles.
LEMMA EndKeeps ==
  ASSUME LaunchInv, NEW s \in Slots, End(s), TablesKept, DOMAIN shelf' = Pages,
         \A q \in Pages : shelf'[q] # shelf[q] => GoodShelf(shelf[q])'
  PROVE  LaunchInv'
<1>1. UNCHANGED <<cast, launches, issued, dropped>>
  BY DEF TablesKept, tableVars
<1>2. TablesGrow
  BY <1>1, TablesStay
<1>3. DOMAIN call' = Slots /\ call'[s] = None /\ \A t \in Slots : t # s => call'[t] = call[t]
  BY EndFacts DEF LaunchInv
<1>4. QED
  BY <1>1, <1>2, <1>3, StepKeeps

\* A page that is changed: its list, its form.
LEMMA ShelfParts ==
  ASSUME NEW x, GoodShelf(x), NEW a
  PROVE  /\ [x EXCEPT !.list = a] = [list |-> a, loaded |-> x.loaded, form |-> x.form, menu |-> x.menu]
         /\ [x EXCEPT !.form = a] = [list |-> x.list, loaded |-> x.loaded, form |-> a, menu |-> x.menu]
         /\ [x EXCEPT !.menu = a] = [list |-> x.list, loaded |-> x.loaded, form |-> x.form, menu |-> a]
         /\ [x EXCEPT !.loaded = a] = [list |-> x.list, loaded |-> a, form |-> x.form, menu |-> x.menu]
<1> DEFINE xl == [x EXCEPT !.list = a]
           xf == [x EXCEPT !.form = a]
           xm == [x EXCEPT !.menu = a]
           xo == [x EXCEPT !.loaded = a]
<1>1. x \in [list : {x.list}, loaded : {x.loaded}, form : {x.form}, menu : {x.menu}]
  BY DEF GoodShelf
<1>2. xl \in [list : {a}, loaded : {x.loaded}, form : {x.form}, menu : {x.menu}]
  BY <1>1
<1>3. xf \in [list : {x.list}, loaded : {x.loaded}, form : {a}, menu : {x.menu}]
  BY <1>1
<1>4. xm \in [list : {x.list}, loaded : {x.loaded}, form : {x.form}, menu : {a}]
  BY <1>1
<1>40. xo \in [list : {x.list}, loaded : {a}, form : {x.form}, menu : {x.menu}]
  BY <1>1
<1> HIDE DEF xl, xf, xm, xo
<1>5. xl = [list |-> a, loaded |-> x.loaded, form |-> x.form, menu |-> x.menu]
  BY <1>2
<1>6. xf = [list |-> x.list, loaded |-> x.loaded, form |-> a, menu |-> x.menu]
  BY <1>3
<1>7. xm = [list |-> x.list, loaded |-> x.loaded, form |-> x.form, menu |-> a]
  BY <1>4
<1>70. xo = [list |-> x.list, loaded |-> a, form |-> x.form, menu |-> x.menu]
  BY <1>40
<1>8. QED
  BY <1>5, <1>6, <1>7, <1>70 DEF xl, xf, xm, xo

\* A shelf made of good parts.
LEMMA ShelfMade ==
  ASSUME NEW list, KnownList(list), NEW loaded, NEW menu, NEW form, form # None => GoodForm(form), NEW x,
         x = [list |-> list, loaded |-> loaded, form |-> form, menu |-> menu]
  PROVE  GoodShelf(x) /\ x.list = list /\ x.form = form
<1>1. x.list = list /\ x.form = form /\ x.loaded = loaded /\ x.menu = menu
  OBVIOUS
<1>2. QED
  BY <1>1 DEF GoodShelf

\* A form made of a good row.
LEMMA FormMade ==
  ASSUME NEW row, row = Blank \/ KnownRow(row), NEW n, NEW f, f = [row |-> row, saving |-> n]
  PROVE  GoodForm(f)
<1>1. f.row = row /\ f.saving = n
  OBVIOUS
<1>2. QED
  BY <1>1 DEF GoodForm

\* A form that starts or stops saving.
LEMMA FormSaving ==
  ASSUME NEW f, GoodForm(f), NEW n
  PROVE  GoodForm([f EXCEPT !.saving = n])
<1>1. f \in [row : {f.row}, saving : {f.saving}]
  BY DEF GoodForm
<1> DEFINE g == [f EXCEPT !.saving = n]
<1>2. g \in [row : {f.row}, saving : {n}]
  BY <1>1
<1> HIDE DEF g
<1>3. g = [row |-> f.row, saving |-> n]
  BY <1>2
<1>4. GoodForm(g)
  BY <1>3, FormMade DEF GoodForm
<1>5. QED
  BY <1>4 DEF g

\* A step that changes what one page keeps.
LEMMA ShelfChanged ==
  ASSUME LaunchInv, UNCHANGED <<launches, issued, dropped>>, NEW p, NEW x, p \in Pages => GoodShelf(x),
         shelf' = [shelf EXCEPT ![p] = x]
  PROVE  DOMAIN shelf' = Pages /\ \A q \in Pages : shelf'[q] # shelf[q] => GoodShelf(shelf[q])'
<1>1. TablesGrow
  BY TablesStay
<1>2. p \in Pages => GoodShelf(x)'
  BY <1>1, ShelfStays
<1>3. QED
  BY <1>2 DEF LaunchInv, LaunchShelves

\* A step that changes nothing the pages keep.
LEMMA ShelfStill ==
  ASSUME LaunchInv, shelf' = shelf
  PROVE  DOMAIN shelf' = Pages /\ \A q \in Pages : shelf'[q] # shelf[q] => GoodShelf(shelf[q])'
BY DEF LaunchInv, LaunchShelves

\* A step that changes a page and no request.
LEMMA StillKeeps ==
  ASSUME LaunchInv, UNCHANGED <<cast, call, launches, issued, dropped>>, DOMAIN shelf' = Pages,
         \A q \in Pages : shelf'[q] # shelf[q] => GoodShelf(shelf[q])'
  PROVE  LaunchInv'
<1>1. TablesGrow
  BY TablesStay
<1>2. DOMAIN call' = Slots
  BY DEF LaunchInv, LaunchCalls
<1>3. QED
  BY <1>1, <1>2, StepKeeps

\* A page takes a new list.
LEMMA ListPart ==
  ASSUME LaunchInv, UNCHANGED <<launches, issued, dropped>>, NEW p, NEW list, p \in Pages => KnownList(list),
         shelf' = [shelf EXCEPT ![p].list = list]
  PROVE  DOMAIN shelf' = Pages /\ \A q \in Pages : shelf'[q] # shelf[q] => GoodShelf(shelf[q])'
<1>1. p \in Pages => GoodShelf(shelf[p])
  BY DEF LaunchInv, LaunchShelves
<1>2. PICK x : x = [shelf[p] EXCEPT !.list = list]
  OBVIOUS
<1>3. p \in Pages => GoodShelf(x)
  <2>1. ASSUME p \in Pages PROVE GoodShelf(x)
    <3>1. x = [list |-> list, loaded |-> shelf[p].loaded, form |-> shelf[p].form, menu |-> shelf[p].menu]
      BY <1>1, <1>2, <2>1, ShelfParts
    <3>2. shelf[p].form # None => GoodForm(shelf[p].form)
      BY <1>1, <2>1 DEF GoodShelf
    <3>3. QED
      BY <2>1, <3>1, <3>2, ShelfMade
  <2>2. QED
    BY <2>1
<1>4. shelf' = [shelf EXCEPT ![p] = x]
  BY <1>2
<1>5. QED
  BY <1>3, <1>4, ShelfChanged

\* A page opens, changes or closes its form.
LEMMA FormPart ==
  ASSUME LaunchInv, UNCHANGED <<launches, issued, dropped>>, NEW p, NEW form,
         p \in Pages /\ form # None => GoodForm(form),
         shelf' = [shelf EXCEPT ![p].form = form]
  PROVE  DOMAIN shelf' = Pages /\ \A q \in Pages : shelf'[q] # shelf[q] => GoodShelf(shelf[q])'
<1>1. p \in Pages => GoodShelf(shelf[p])
  BY DEF LaunchInv, LaunchShelves
<1>2. PICK x : x = [shelf[p] EXCEPT !.form = form]
  OBVIOUS
<1>3. p \in Pages => GoodShelf(x)
  <2>1. ASSUME p \in Pages PROVE GoodShelf(x)
    <3>1. x = [list |-> shelf[p].list, loaded |-> shelf[p].loaded, form |-> form, menu |-> shelf[p].menu]
      BY <1>1, <1>2, <2>1, ShelfParts
    <3>2. KnownList(shelf[p].list)
      BY <1>1, <2>1 DEF GoodShelf
    <3>3. QED
      BY <2>1, <3>1, <3>2, ShelfMade
  <2>2. QED
    BY <2>1
<1>4. shelf' = [shelf EXCEPT ![p] = x]
  BY <1>2
<1>5. QED
  BY <1>3, <1>4, ShelfChanged

\* A page takes a new menu.
LEMMA MenuPart ==
  ASSUME LaunchInv, UNCHANGED <<launches, issued, dropped>>, NEW p, NEW menu,
         shelf' = [shelf EXCEPT ![p].menu = menu]
  PROVE  DOMAIN shelf' = Pages /\ \A q \in Pages : shelf'[q] # shelf[q] => GoodShelf(shelf[q])'
<1>1. p \in Pages => GoodShelf(shelf[p])
  BY DEF LaunchInv, LaunchShelves
<1>2. PICK x : x = [shelf[p] EXCEPT !.menu = menu]
  OBVIOUS
<1>3. p \in Pages => GoodShelf(x)
  <2>1. ASSUME p \in Pages PROVE GoodShelf(x)
    <3>1. x = [list |-> shelf[p].list, loaded |-> shelf[p].loaded, form |-> shelf[p].form, menu |-> menu]
      BY <1>1, <1>2, <2>1, ShelfParts
    <3>2. KnownList(shelf[p].list) /\ (shelf[p].form # None => GoodForm(shelf[p].form))
      BY <1>1, <2>1 DEF GoodShelf
    <3>3. QED
      BY <2>1, <3>1, <3>2, ShelfMade
  <2>2. QED
    BY <2>1
<1>4. shelf' = [shelf EXCEPT ![p] = x]
  BY <1>2
<1>5. QED
  BY <1>3, <1>4, ShelfChanged

\* A form is filled with a row of the list, masks included, or left blank.
LEMMA OpenFormKeeps ==
  ASSUME LaunchInv, NEW p \in Pages, OpenLaunchForm(p) \/ CancelLaunchForm(p)
  PROVE  LaunchInv'
<1>1. UNCHANGED <<cast, call, launches, issued, dropped>>
  BY DEF OpenLaunchForm, CancelLaunchForm, tableVars
<1>2. PICK form : shelf' = [shelf EXCEPT ![p].form = form] /\ (form # None => GoodForm(form))
  <2>1. CASE OpenLaunchForm(p)
    <3>1. PICK row \in Range(shelf[p].list) \cup {Blank} :
            shelf' = [shelf EXCEPT ![p].form = [row |-> row, saving |-> 0]]
      BY <2>1 DEF OpenLaunchForm, Blank
    <3>2. row = Blank \/ KnownRow(row)
      BY DEF LaunchInv, LaunchShelves, GoodShelf, KnownList, Range
    <3>3. GoodForm([row |-> row, saving |-> 0])
      BY <3>2, FormMade
    <3>4. QED
      BY <3>1, <3>3
  <2>2. CASE CancelLaunchForm(p)
    BY <2>2 DEF CancelLaunchForm
  <2>3. QED
    BY <2>1, <2>2
<1>3. QED
  BY <1>1, <1>2, FormPart, StillKeeps

\* A form sends masks only if it was shown some.
LEMMA FormSends ==
  ASSUME NEW env \in [Vars -> Values \cup {Mask, None}], NEW e \in FormEnvs(env)
  PROVE  /\ e \in [Vars -> Values \cup {Mask, None}]
         /\ \A v \in Vars : e[v] = Mask => \E w \in Vars : env[w] = Mask
BY LaunchAssumption DEF FormEnvs

\* The form is sent.
LEMMA HandleSaveKeeps ==
  ASSUME LaunchInv, NEW p \in Pages, NEW s \in Slots, HandleSave(p, s)
  PROVE  LaunchInv'
<1>1. PICK form : form = shelf[p].form
  OBVIOUS
<1>2. PICK row : row = form.row
  OBVIOUS
<1>3. GoodForm(form) /\ (row = Blank \/ KnownRow(row))
  BY <1>1, <1>2 DEF HandleSave, LaunchInv, LaunchShelves, GoodShelf, GoodForm
<1>4. PICK name \in FormNames(row), env \in FormEnvs(row.env) :
        IF row.id = None THEN AskLaunch(p, s, "postLaunch", [name |-> name, env |-> env])
        ELSE AskLaunch(p, s, "putLaunch", [id |-> row.id, name |-> name, env |-> env,
                                           moved |-> Moved(env, row)])
  BY <1>1, <1>2 DEF HandleSave
<1>5. UNCHANGED <<launches, issued, dropped>>
  BY <1>4 DEF AskLaunch, TablesKept, tableVars
<1>6. DOMAIN shelf' = Pages /\ \A q \in Pages : shelf'[q] # shelf[q] => GoodShelf(shelf[q])'
  <2>1. PICK new : new = [form EXCEPT !.saving = s]
    OBVIOUS
  <2>2. GoodForm(new)
    BY <1>3, <2>1, FormSaving
  <2>3. shelf' = [shelf EXCEPT ![p].form = new]
    BY <1>1, <2>1 DEF HandleSave
  <2>4. QED
    BY <1>5, <2>2, <2>3, FormPart
<1>7. AName \in Shells
  BY LaunchAssumption DEF AName
<1>8. CASE row.id = None
  <2>1. row = Blank
    BY <1>3, <1>8, LaunchAssumption DEF KnownRow, WireRows
  <2>2. name \in Shells
    BY <1>7, <1>8 DEF FormNames
  <2>3. row.env = NoEnv /\ NoEnv \in [Vars -> Values \cup {Mask, None}]
    BY <2>1 DEF Blank, NoEnv
  <2>4. \A v \in Vars : NoEnv[v] # Mask
    BY LaunchAssumption DEF NoEnv
  <2>5. env \in [Vars -> Values \cup {Mask, None}] /\ \A v \in Vars : env[v] # Mask
    BY <2>3, <2>4, FormSends
  <2>6. env \in [Vars -> Values \cup {None}]
    BY <2>5
  <2>7. PICK arg : arg = [name |-> name, env |-> env]
    OBVIOUS
  <2>8. arg \in [name : Shells, env : [Vars -> Values \cup {None}]]
    BY <2>2, <2>6, <2>7
  <2>9. AskLaunch(p, s, "postLaunch", arg)
    BY <1>4, <1>8, <2>7
  <2>10. QED
    BY <1>6, <2>8, <2>9, AskKeeps
<1>9. CASE row.id # None
  <2>1. KnownRow(row)
    BY <1>3, <1>9 DEF Blank
  <2>2. name \in Shells
    BY <1>9, <2>1 DEF FormNames, KnownRow, WireRows
  <2>3. row.env \in [Vars -> Values \cup {Mask, None}] /\ row.id \in Profiles /\ row.id \in issued
    BY <2>1 DEF KnownRow, WireRows
  <2>4. env \in [Vars -> Values \cup {Mask, None}]
    BY <2>3, FormSends
  <2>5. PICK arg : arg = [id |-> row.id, name |-> name, env |-> env, moved |-> Moved(env, row)]
    OBVIOUS
  <2>6. /\ arg.id = row.id /\ arg.name = name /\ arg.env = env
        /\ \A v \in Vars : env[v] = Mask => v \in arg.moved \/ row.env[v] = Mask
    BY <2>5 DEF Moved
  <2>7. KnownSave(arg)
    BY <2>1, <2>2, <2>3, <2>4, <2>6 DEF KnownSave, KnownRow
  <2>8. AskLaunch(p, s, "putLaunch", arg)
    BY <1>4, <1>9, <2>5
  <2>9. QED
    BY <1>6, <2>7, <2>8, AskKeeps
<1>10. QED
  BY <1>8, <1>9

\* The list is sent in another order.
LEMMA MoveUpKeeps ==
  ASSUME LaunchInv, NEW p \in Pages, NEW s \in Slots, MoveUp(p, s)
  PROVE  LaunchInv'
<1>1. PICK list : list = shelf[p].list
  OBVIOUS
<1>2. KnownList(list)
  BY <1>1 DEF LaunchInv, LaunchShelves, GoodShelf
<1>20. PICK k \in 2 .. Len(shelf[p].list) :
        LET old == shelf[p].list
            new == [old EXCEPT ![k] = old[k - 1], ![k - 1] = old[k]]
        IN /\ shelf' = [shelf EXCEPT ![p].list = new]
           /\ AskLaunch(p, s, "orderLaunches", [j \in DOMAIN new |-> new[j].id])
  BY Zenon DEF MoveUp
<1>21. PICK new : new = [list EXCEPT ![k] = list[k - 1], ![k - 1] = list[k]]
  OBVIOUS
<1>3. /\ new = [list EXCEPT ![k] = list[k - 1], ![k - 1] = list[k]] /\ k \in 2 .. Len(list)
      /\ shelf' = [shelf EXCEPT ![p].list = new]
      /\ AskLaunch(p, s, "orderLaunches", [j \in DOMAIN new |-> new[j].id])
  BY <1>1, <1>20, <1>21
<1>4. list \in Seq(WireRows) /\ \A j \in 1 .. Len(list) : KnownRow(list[j])
  BY <1>2 DEF KnownList
<1>5. k \in 1 .. Len(list) /\ k - 1 \in 1 .. Len(list) /\ Len(list) \in Nat
  BY <1>3, <1>4
<1>6. /\ DOMAIN new = 1 .. Len(list)
      /\ \A j \in 1 .. Len(list) : \E l \in 1 .. Len(list) : new[j] = list[l]
  BY <1>3, <1>4, <1>5
<1>7. /\ new = [j \in 1 .. Len(list) |-> new[j]]
      /\ \A j \in 1 .. Len(list) : KnownRow(new[j])
  BY <1>3, <1>4, <1>6
<1>8. KnownList(new)
  <2>1. new \in [1 .. Len(list) -> WireRows]
    BY <1>7 DEF KnownRow
  <2>2. new \in Seq(WireRows)
    BY <1>5, <2>1
  <2>3. QED
    BY <1>6, <1>7, <2>2 DEF KnownList
<1>9. PICK arg : arg = [j \in DOMAIN new |-> new[j].id]
  OBVIOUS
<1>10. arg \in Seq(Profiles)
  <2>1. arg \in [1 .. Len(list) -> Profiles]
    BY <1>6, <1>7, <1>9 DEF KnownRow, WireRows
  <2>2. QED
    BY <1>5, <2>1
<1>11. AskLaunch(p, s, "orderLaunches", arg) /\ UNCHANGED <<launches, issued, dropped>>
  BY <1>3, <1>9 DEF AskLaunch, TablesKept, tableVars
<1>12. DOMAIN shelf' = Pages /\ \A q \in Pages : shelf'[q] # shelf[q] => GoodShelf(shelf[q])'
  BY <1>3, <1>8, <1>11, ListPart
<1>13. QED
  BY <1>10, <1>11, <1>12, AskKeeps

\* The user of a page.
LEMMA UserKeepsLaunches ==
  ASSUME LaunchInv, NEW p \in cast.pages, NEW s \in Slots, LaunchUser(p, s)
  PROVE  LaunchInv'
<1>1. p \in Pages
  BY CatalogAssumption DEF LaunchInv
<1>2. CASE HandleSave(p, s) \/ MoveUp(p, s)
  BY <1>1, <1>2, HandleSaveKeeps, MoveUpKeeps
<1>3. CASE OpenProfiles(p, s) \/ DoDelete(p, s) \/ \E h \in Hosts : HandleOverrideChange(p, s, h)
  <2>1. /\ shelf' = shelf
        /\ \E op \in {"getLaunches", "deleteLaunch", "putOverride", "deleteOverride"} : \E arg :
             AskLaunch(p, s, op, arg)
    BY <1>3 DEF OpenProfiles, DoDelete, HandleOverrideChange
  <2>2. QED
    BY <2>1, ShelfStill, AskKeeps
<1>4. CASE \E h \in Hosts : OpenMenu(p, s, h) \/ OnProfileClick(p, s, h)
  <2>0. PICK op \in {"menu", "spawn"} : \E arg : AskLaunch(p, s, op, arg)
    BY <1>4 DEF OpenMenu, OnProfileClick
  <2>1. PICK arg : AskLaunch(p, s, op, arg)
    BY <2>0
  <2>2. UNCHANGED <<launches, issued, dropped>>
    BY <2>1 DEF AskLaunch, TablesKept, tableVars
  <2>3. shelf' = [shelf EXCEPT ![p].menu = None]
    BY <1>4 DEF OpenMenu, OnProfileClick
  <2>4. QED
    BY <2>1, <2>2, <2>3, MenuPart, AskKeeps
<1>5. QED
  BY <1>2, <1>3, <1>4 DEF LaunchUser

\* A list arrives.
LEMMA GotLaunchesKeeps ==
  ASSUME LaunchInv, NEW s \in Slots, GotLaunches(s)
  PROVE  LaunchInv'
<1>1. PICK p, list : p = call[s].page /\ list = call[s].body
  OBVIOUS
<1>2. KnownList(list) /\ UNCHANGED <<launches, issued, dropped>>
  BY <1>1 DEF GotLaunches, Answered, LaunchInv, LaunchCalls, GoodCall, Brings, TablesKept, tableVars
<1>3. PICK x : x = [[shelf[p] EXCEPT !.list = list] EXCEPT !.loaded = TRUE]
  OBVIOUS
<1>4. p \in Pages => GoodShelf(x)
  <2>1. SUFFICES ASSUME p \in Pages PROVE GoodShelf(x)
    OBVIOUS
  <2>2. GoodShelf(shelf[p])
    BY <2>1 DEF LaunchInv, LaunchShelves
  <2>3. PICK y : y = [shelf[p] EXCEPT !.list = list]
    OBVIOUS
  <2>4. y = [list |-> list, loaded |-> shelf[p].loaded, form |-> shelf[p].form, menu |-> shelf[p].menu]
    BY <2>2, <2>3, ShelfParts
  <2>5. shelf[p].form # None => GoodForm(shelf[p].form)
    BY <2>2 DEF GoodShelf
  <2>6. GoodShelf(y) /\ y.list = list /\ y.form = shelf[p].form
    BY <1>2, <2>4, <2>5, ShelfMade
  <2>7. [y EXCEPT !.loaded = TRUE] = [list |-> y.list, loaded |-> TRUE, form |-> y.form, menu |-> y.menu]
    BY <2>6, ShelfParts
  <2>8. x = [list |-> list, loaded |-> TRUE, form |-> shelf[p].form, menu |-> y.menu]
    BY <1>3, <2>3, <2>6, <2>7
  <2>9. QED
    BY <1>2, <2>5, <2>8, ShelfMade
<1>5. shelf' = [shelf EXCEPT ![p] = x]
  BY <1>1, <1>3 DEF GotLaunches
<1>6. QED
  BY <1>2, <1>4, <1>5, ShelfChanged, EndKeeps DEF GotLaunches

\* The answer to a save arrives, the saved row in it.
LEMMA LaunchSavedKeeps ==
  ASSUME LaunchInv, NEW s \in Slots, LaunchSaved(s)
  PROVE  LaunchInv'
<1>1. PICK p, new : p = call[s].page /\ new = call[s].body
  OBVIOUS
<1>2. OkCode(s) => KnownRow(new)
  BY <1>1 DEF LaunchSaved, Answered, OkCode, LaunchInv, LaunchCalls, GoodCall, Brings
<1>3. UNCHANGED <<launches, issued, dropped>>
  BY DEF LaunchSaved, TablesKept, tableVars
<1> DEFINE old == shelf[p]
           Form(f) == IF f = None \/ f.saving # s THEN f
                      ELSE IF OkCode(s) THEN None ELSE [f EXCEPT !.saving = 0]
           List(l) == IF ~OkCode(s) THEN l
                      ELSE IF call[s].op = "postLaunch" THEN Append(l, new)
                      ELSE [k \in DOMAIN l |-> IF l[k].id = new.id THEN new ELSE l[k]]
<1>4. PICK form, list : form = Form(old.form) /\ list = List(old.list)
  OBVIOUS
<1>5. p \in Pages => GoodShelf(old)
  BY DEF LaunchInv, LaunchShelves
<1>6. p \in Pages /\ form # None => GoodForm(form)
  BY <1>4, <1>5, FormSaving DEF GoodShelf
<1>7. p \in Pages => KnownList(list)
  <2>1. SUFFICES ASSUME p \in Pages PROVE KnownList(list)
    OBVIOUS
  <2>2. PICK l : l = old.list
    OBVIOUS
  <2>3. KnownList(l)
    BY <1>5, <2>1, <2>2 DEF GoodShelf
  <2>4. l \in Seq(WireRows) /\ Len(l) \in Nat /\ DOMAIN l = 1 .. Len(l)
    BY <2>3 DEF KnownList
  <2>5. CASE list = l
    BY <2>3, <2>5
  <2>6. CASE list = Append(l, new) /\ KnownRow(new)
    <3>1. list \in Seq(WireRows) /\ DOMAIN list = 1 .. Len(l) + 1
      BY <2>4, <2>6 DEF KnownRow
    <3>2. \A k \in 1 .. Len(l) + 1 : list[k] = new \/ (k \in DOMAIN l /\ list[k] = l[k])
      BY <2>4, <2>6
    <3>3. QED
      BY <2>3, <2>6, <3>1, <3>2 DEF KnownList
  <2>7. CASE list = [k \in DOMAIN l |-> IF l[k].id = new.id THEN new ELSE l[k]] /\ KnownRow(new)
    <3>1. \A k \in DOMAIN l : KnownRow(list[k])
      BY <2>3, <2>7 DEF KnownList
    <3>2. DOMAIN list = DOMAIN l /\ list = [k \in 1 .. Len(l) |-> list[k]]
      BY <2>4, <2>7
    <3>3. list \in [1 .. Len(l) -> WireRows]
      BY <2>4, <3>1, <3>2 DEF KnownRow
    <3>4. list \in Seq(WireRows)
      BY <2>4, <3>3
    <3>5. QED
      BY <3>1, <3>2, <3>4 DEF KnownList
  <2>8. QED
    BY <1>2, <1>4, <2>2, <2>5, <2>6, <2>7
<1>8. PICK x : x = [[old EXCEPT !.form = form] EXCEPT !.list = list]
  OBVIOUS
<1>9. p \in Pages => GoodShelf(x)
  <2>1. SUFFICES ASSUME p \in Pages PROVE GoodShelf(x)
    OBVIOUS
  <2>2. PICK y : y = [old EXCEPT !.form = form]
    OBVIOUS
  <2>3. y = [list |-> old.list, loaded |-> old.loaded, form |-> form, menu |-> old.menu]
    BY <1>5, <2>1, <2>2, ShelfParts
  <2>4. [y EXCEPT !.list = list]
          = [list |-> list, loaded |-> old.loaded, form |-> form, menu |-> old.menu]
    BY <2>3
  <2>5. QED
    BY <1>6, <1>7, <1>8, <2>1, <2>2, <2>4, ShelfMade
<1>10. p \in Pages => shelf' = [shelf EXCEPT ![p] = x]
  <2>1. p \in Pages => [old EXCEPT !.form = form].list = old.list
    BY <1>5, ShelfParts
  <2>2. QED
    BY <1>1, <1>4, <1>8, <2>1 DEF LaunchSaved
<1>11. p \notin Pages => DOMAIN shelf' = Pages /\ \A q \in Pages : shelf'[q] = shelf[q]
  BY <1>1 DEF LaunchSaved, LaunchInv, LaunchShelves
<1>12. DOMAIN shelf' = Pages /\ \A q \in Pages : shelf'[q] # shelf[q] => GoodShelf(shelf[q])'
  BY <1>3, <1>9, <1>10, <1>11, ShelfChanged
<1>13. QED
  BY <1>12, EndKeeps DEF LaunchSaved

\* The answer to a deletion arrives.
LEMMA LaunchDeletedKeeps ==
  ASSUME LaunchInv, NEW s \in Slots, LaunchDeleted(s)
  PROVE  LaunchInv'
<1>1. PICK p, i : p = call[s].page /\ i = call[s].arg
  OBVIOUS
<1>2. UNCHANGED <<launches, issued, dropped>>
  BY DEF LaunchDeleted, TablesKept, tableVars
<1>3. ASSUME NEW list \in ListWithout(shelf[p].list, i), shelf' = [shelf EXCEPT ![p].list = list]
      PROVE  LaunchInv'
  <2>1. p \in Pages => KnownList(list)
    <3>1. SUFFICES ASSUME p \in Pages PROVE KnownList(list)
      OBVIOUS
    <3>2. PICK old : old = shelf[p].list
      OBVIOUS
    <3>3. KnownList(old)
      BY <3>1, <3>2 DEF LaunchInv, LaunchShelves, GoodShelf
    <3>4. PICK stay : stay = {k \in DOMAIN old : old[k].id # i}
      OBVIOUS
    <3>5. PICK n : n = Cardinality(stay)
      OBVIOUS
    <3>6. n \in Nat
      <4>1. DOMAIN old = 1 .. Len(old) /\ Len(old) \in Nat
        BY <3>3 DEF KnownList
      <4>2. IsFiniteSet(DOMAIN old) /\ stay \subseteq DOMAIN old
        BY <3>4, <4>1, FS_Interval
      <4>3. QED
        BY <3>5, <4>2, FS_Subset, FS_CardinalityType
    <3>7. PICK f \in [1 .. n -> stay] : list = [k \in 1 .. n |-> old[f[k]]]
      BY <1>3, <3>2, <3>4, <3>5 DEF ListWithout
    <3>8. \A k \in 1 .. n : KnownRow(list[k])
      BY <3>3, <3>4, <3>7 DEF KnownList
    <3>9. list \in [1 .. n -> WireRows]
      BY <3>7, <3>8 DEF KnownRow
    <3>10. list \in Seq(WireRows)
      BY <3>6, <3>9
    <3>11. QED
      BY <3>7, <3>8, <3>10 DEF KnownList
  <2>2. QED
    BY <1>2, <1>3, <2>1, ListPart, EndKeeps DEF LaunchDeleted
<1>4. CASE shelf' = shelf
  BY <1>4, ShelfStill, EndKeeps DEF LaunchDeleted
<1>5. QED
  BY <1>1, <1>3, <1>4 DEF LaunchDeleted

\* The answers about profiles.
LEMMA AnswersKeepLaunches ==
  ASSUME LaunchInv, NEW s \in Slots,
         \/ GotLaunches(s) \/ LaunchSaved(s) \/ LaunchDeleted(s) \/ GotMenu(s) \/ NothingMore(s)
  PROVE  LaunchInv'
<1>1. CASE GotMenu(s)
  <2>1. UNCHANGED <<launches, issued, dropped>>
    BY <1>1 DEF GotMenu, TablesKept, tableVars
  <2>2. PICK p, menu : shelf' = [shelf EXCEPT ![p].menu = menu]
    BY <1>1 DEF GotMenu
  <2>3. QED
    BY <1>1, <2>1, <2>2, MenuPart, EndKeeps DEF GotMenu
<1>2. CASE NothingMore(s)
  BY <1>2, ShelfStill, EndKeeps DEF NothingMore
<1>3. QED
  BY <1>1, <1>2, GotLaunchesKeeps, LaunchSavedKeeps, LaunchDeletedKeeps

-----------------------------------------------------------------------------
\* What the hub adds by itself.

\* The hello of a remote agent seeds the shells of its host.
LEMMA HelloGrows ==
  ASSUME LaunchTables, NEW h \in Hosts, SeedRemote(h)
  PROVE  TablesGrow
<1>1. PICK n \in 1 .. Cardinality(Shells), os \in Systems :
        \E names \in Injection(1 .. n, Shells) :
        \E def \in Range(names) \cup {None} : SeedShells(h, os, names, def)
  BY DEF SeedRemote
<1>10. PICK names \in [1 .. n -> Shells] : \E def : SeedShells(h, os, names, def)
  BY <1>1 DEF Injection
<1>2. PICK def : SeedShells(h, os, names, def)
  BY <1>10
<1>20. PICK todo : todo = NamesToSeed(h, os, names)
  OBVIOUS
<1>21. DOMAIN todo \subseteq 1 .. n /\ \A k \in DOMAIN todo : todo[k] \in Shells
  BY <1>20 DEF NamesToSeed, Restrict
<1>3. /\ IdsFor(todo) # {} /\ UNCHANGED dropped
      /\ launches' = SeedNames(todo, CHOOSE f \in IdsFor(todo) : TRUE, os)
      /\ issued' = issued \cup Range(CHOOSE f \in IdsFor(todo) : TRUE)
  BY <1>2, <1>20 DEF SeedShells
<1>4. PICK ids : ids = CHOOSE f \in IdsFor(todo) : TRUE
  OBVIOUS
<1>5. ids \in IdsFor(todo)
  BY <1>3, <1>4
<1>6. DOMAIN todo \subseteq Nat \ {0}
  BY <1>21
<1>7. QED
  BY <1>21, <1>3, <1>4, <1>5, <1>6, SeedGrows

\* A start of the hub seeds an empty table.
LEMMA StartGrows ==
  ASSUME LaunchInv, SeedAtStart
  PROVE  TablesGrow
<1>1. CASE UNCHANGED tableVars
  BY <1>1, TablesStay DEF tableVars
<1>2. ASSUME NEW S \in SUBSET Shells, NEW names \in SetToSeqs(S), NEW os \in Systems,
             IdsFor(names) # {}, UNCHANGED dropped,
             launches' = SeedNames(names, CHOOSE f \in IdsFor(names) : TRUE, os),
             issued' = issued \cup Range(CHOOSE f \in IdsFor(names) : TRUE)
      PROVE  TablesGrow
  <2>1. PICK ids : ids = CHOOSE f \in IdsFor(names) : TRUE
    OBVIOUS
  <2>2. ids \in IdsFor(names)
    BY <1>2, <2>1
  <2>3. DOMAIN names \subseteq Nat \ {0} /\ \A k \in DOMAIN names : names[k] \in Shells
    <3>1. names \in [1 .. Cardinality(S) -> S]
      BY DEF SetToSeqs
    <3>2. Cardinality(S) \in Nat
      BY LaunchAssumption, FS_Subset, FS_CardinalityType
    <3>3. QED
      BY <3>1, <3>2
  <2>4. QED
    BY <1>2, <2>1, <2>2, <2>3, SeedGrows DEF LaunchInv
<1>3. QED
  <2>1. CASE Rows(launches) # {}
    BY <1>1, <2>1 DEF SeedAtStart
  <2>2. CASE Rows(launches) = {}
    <3>1. PICK of \in [Rows(hosts) -> Shells \cup {None}], global \in Shells \cup {None} :
            LET old == (Range(of) \cup {global}) \ {None} IN
            \E names \in SetToSeqs(IF old # {} THEN old ELSE Shells) :
              LET ids == CHOOSE f \in IdsFor(names) : TRUE IN
              /\ IdsFor(names) # {} /\ UNCHANGED dropped
              /\ launches' = SeedNames(names, ids, IF old # {} THEN "any" ELSE "linux")
              /\ issued' = issued \cup Range(ids)
      BY <2>2 DEF SeedAtStart
    <3> DEFINE old == (Range(of) \cup {global}) \ {None}
               S == IF old # {} THEN old ELSE Shells
               os == IF old # {} THEN "any" ELSE "linux"
    <3>2. old \subseteq Shells
      BY DEF Range
    <3>3. S \in SUBSET Shells /\ os \in Systems
      BY <3>2 DEF Systems
    <3>4. QED
      BY <1>2, <3>1, <3>3
  <2>3. QED
    BY <2>1, <2>2

\* A step that only makes the tables grow keeps the invariant.
LEMMA GrownKeeps ==
  ASSUME LaunchInv, TablesGrow, UNCHANGED <<cast, call, shelf>>
  PROVE  LaunchInv'
<1>1. DOMAIN call' = Slots /\ DOMAIN shelf' = Pages
  BY DEF LaunchInv, LaunchCalls, LaunchShelves
<1>2. QED
  BY <1>1, StepKeeps

\* The import of terminal profiles.
LEMMA ImportKeeps ==
  ASSUME LaunchInv, ImportTerminalProfiles
  PROVE  LaunchInv'
<1>1. PICK n \in Shells, i \in FreshProfiles :
        /\ issued' = issued \cup {i}
        /\ launches' = AddRow(launches, i, n, NoEnv, "any", Cardinality(Rows(launches)))
  BY DEF ImportTerminalProfiles
<1>2. i \in Profiles /\ i \notin issued
  BY NewId DEF FreshProfiles
<1>3. PICK order : order = Cardinality(Rows(launches))
  OBVIOUS
<1>4. order \in Nat
  <2>1. Rows(launches) \subseteq Profiles
    BY DEF LaunchInv, LaunchTables, Rows
  <2>2. QED
    BY <1>3, <2>1, LaunchAssumption, FS_Subset, FS_CardinalityType
<1>5. PICK row : row = [name |-> n, env |-> NoEnv, os |-> "any", order |-> order]
  OBVIOUS
<1>6. row \in LaunchRow /\ \A v \in Vars : row.env[v] # Mask
  BY <1>4, <1>5, LaunchAssumption DEF LaunchRow, NoEnv, Systems
<1>7. launches' = [launches EXCEPT ![i] = row]
  BY <1>1, <1>3, <1>5 DEF AddRow
<1>8. TablesGrow
  BY <1>1, <1>2, <1>6, <1>7, RowAdded DEF LaunchInv, ImportTerminalProfiles
<1>9. QED
  BY <1>8, GrownKeeps DEF ImportTerminalProfiles

\* Every step of the profiles keeps the invariant.
LEMMA LaunchStepKeeps ==
  ASSUME LaunchInv, LaunchStep
  PROVE  LaunchInv'
<1>1. ASSUME NEW s \in Slots,
             \/ LaunchHandles(s) \/ GotLaunches(s) \/ LaunchSaved(s)
             \/ LaunchDeleted(s) \/ GotMenu(s) \/ NothingMore(s)
             \/ \E p \in cast.pages : LaunchUser(p, s)
      PROVE  LaunchInv'
  BY <1>1, HubKeepsLaunches, AnswersKeepLaunches, UserKeepsLaunches
<1>2. CASE \E p \in Pages : OpenLaunchForm(p) \/ CancelLaunchForm(p)
  BY <1>2, OpenFormKeeps
<1>3. CASE (\E h \in Hosts : SeedRemote(h)) /\ UNCHANGED <<cast, dbVars, page, call, shelf>>
  BY <1>3, HelloGrows, GrownKeeps DEF LaunchInv
<1>4. CASE ImportTerminalProfiles
  BY <1>4, ImportKeeps
<1>5. QED
  BY <1>1, <1>2, <1>3, <1>4 DEF LaunchStep

-----------------------------------------------------------------------------
\* The other components.

\* The handlers of hosts and groups.
LEMMA HostHandlersOther ==
  ASSUME LaunchInv, NEW s \in Slots, HubHandles(s)
  PROVE  OtherCalls /\ cast' = cast
<1>0. cast' = cast
  <2>1. CASE GetHosts(s) \/ PostHost(s) \/ PutHost(s) \/ DeleteHost(s)
    BY <2>1 DEF GetHosts, PostHost, PutHost, DeleteHost, Refuse
  <2>2. CASE DuplicateHost(s) \/ OrderHosts(s) \/ ImportHosts(s)
    BY <2>2 DEF DuplicateHost, OrderHosts, ImportHosts, Refuse
  <2>3. CASE GetGroups(s) \/ PostGroup(s) \/ PutGroup(s) \/ DeleteGroup(s) \/ OrderGroups(s)
    BY <2>3 DEF GetGroups, PostGroup, PutGroup, DeleteGroup, OrderGroups, Refuse
  <2>4. QED
    BY <2>1, <2>2, <2>3 DEF HubHandles
<1>1. /\ call[s] # None /\ cast' = cast
      /\ call[s].op \in {"getHosts", "postHost", "putHost", "deleteHost", "duplicate", "orderHosts",
                         "import", "getGroups", "postGroup", "putGroup", "deleteGroup",
                         "orderGroups"}
  <2>1. CASE GetHosts(s) \/ PostHost(s) \/ PutHost(s) \/ DeleteHost(s)
    BY <1>0, <2>1 DEF Waits, GetHosts, PostHost, PutHost, DeleteHost
  <2>2. CASE DuplicateHost(s) \/ OrderHosts(s) \/ ImportHosts(s)
    BY <1>0, <2>2 DEF Waits, DuplicateHost, OrderHosts, ImportHosts
  <2>3. CASE GetGroups(s) \/ PostGroup(s) \/ PutGroup(s) \/ DeleteGroup(s) \/ OrderGroups(s)
    BY <1>0, <2>3 DEF Waits, GetGroups, PostGroup, PutGroup, DeleteGroup, OrderGroups
  <2>4. QED
    BY <2>1, <2>2, <2>3 DEF HubHandles
<1>2. \A code \in Nat : \A body : Reply(s, code, body) => OtherCalls
  BY <1>1, OtherReply DEF LaunchInv, LaunchOps
<1>20. Refuse(s, 404) \/ Refuse(s, 409) \/ Refuse(s, 500) \/ Refuse(s, 400) => OtherCalls
  BY <1>2 DEF Refuse
<1>3. CASE GetHosts(s)
  BY <1>1, <1>2, <1>3 DEF GetHosts, Refuse
<1>4. CASE PostHost(s)
  <2>1. CASE \E h \in FreshHosts : Reply(s, 201, [id |-> h, row |-> hosts'[h]])
    <3>1. PICK h \in FreshHosts : Reply(s, 201, [id |-> h, row |-> hosts'[h]])
      BY <2>1
    <3>2. PICK body : body = [id |-> h, row |-> hosts'[h]]
      OBVIOUS
    <3>3. Reply(s, 201, body)
      BY <3>1, <3>2
    <3>4. QED
      BY <1>1, <1>2, <3>3
  <2>2. \/ Refuse(s, 409) \/ Refuse(s, 500)
        \/ \E h \in FreshHosts : Reply(s, 201, [id |-> h, row |-> hosts'[h]])
    BY <1>4, Zenon DEF PostHost
  <2>3. QED
    BY <1>1, <1>20, <2>1, <2>2
<1>5. CASE PutHost(s)
  BY <1>1, <1>2, <1>5 DEF PutHost, Refuse
<1>6. CASE DeleteHost(s)
  BY <1>1, <1>2, <1>6 DEF DeleteHost, Refuse
<1>7. CASE DuplicateHost(s)
  <2>1. CASE \E h \in FreshHosts : Reply(s, 201, [id |-> h, row |-> hosts'[h]])
    <3>1. PICK h \in FreshHosts : Reply(s, 201, [id |-> h, row |-> hosts'[h]])
      BY <2>1
    <3>2. PICK body : body = [id |-> h, row |-> hosts'[h]]
      OBVIOUS
    <3>3. Reply(s, 201, body)
      BY <3>1, <3>2
    <3>4. QED
      BY <1>1, <1>2, <3>3
  <2>2. Refuse(s, 400) \/ \E h \in FreshHosts : Reply(s, 201, [id |-> h, row |-> hosts'[h]])
    BY <1>7, Zenon DEF DuplicateHost
  <2>3. QED
    BY <1>1, <1>20, <2>1, <2>2
<1>8. CASE OrderHosts(s)
  <2>1. Refuse(s, 500) \/ Reply(s, 204, None)
    BY <1>8, Zenon DEF OrderHosts
  <2>2. QED
    BY <1>1, <1>2, <1>20, <2>1
<1>9. CASE ImportHosts(s)
  BY <1>1, <1>2, <1>9 DEF ImportHosts, Refuse
<1>10. CASE GetGroups(s)
  BY <1>1, <1>2, <1>10 DEF GetGroups, Refuse
<1>11. CASE PostGroup(s)
  BY <1>1, <1>2, <1>11 DEF PostGroup, Refuse
<1>12. CASE PutGroup(s)
  <2>1. Refuse(s, 404) \/ Refuse(s, 409) \/ Reply(s, 200, call[s].arg.group)
    BY <1>12, Zenon DEF PutGroup
  <2>2. QED
    BY <1>1, <1>2, <1>20, <2>1
<1>13. CASE DeleteGroup(s)
  BY <1>1, <1>2, <1>13 DEF DeleteGroup, Refuse
<1>14. CASE OrderGroups(s)
  BY <1>1, <1>2, <1>14 DEF OrderGroups, Refuse
<1>15. QED
  BY <1>3, <1>4, <1>5, <1>6, <1>7, <1>8, <1>9, <1>10, <1>11, <1>12, <1>13, <1>14 DEF HubHandles

\* A page takes an answer about hosts or groups.
LEMMA PageAnswersOther ==
  ASSUME LaunchInv, NEW s \in Slots, PageGets(s)
  PROVE  OtherCalls /\ cast' = cast
<1>1. cast' = cast
  BY DEF PageGets, GotHosts, GotGroups, FormSaved, HostMoved, HostsOrdered, HostDeleted,
         HostDuplicated, HostsImported, GroupMade, GroupRenamed, GroupDeleted, GroupsOrdered, CallLost
<1>2. CASE GroupMade(s)
  <2>1. PICK op, arg : op \in {"getHosts", "postHost", "putHost"} /\ Then(s, op, arg)
    BY <1>2 DEF GroupMade, ThenFetch, HostCall
  <2>2. QED
    BY <1>1, <2>1, OtherThen DEF LaunchInv, LaunchOps, LoadsView
<1>3. CASE ~GroupMade(s)
  <2>1. End(s) \/ ThenFetch(s) \/ Then(s, "getGroups", None)
    BY <1>3 DEF PageGets, GotHosts, GotGroups, FormSaved, HostMoved, HostsOrdered, HostDeleted,
         HostDuplicated, HostsImported, GroupRenamed, GroupDeleted, GroupsOrdered, CallLost
  <2>2. QED
    BY <1>1, <2>1, OtherThen, OtherEnd DEF LaunchInv, LaunchOps, LoadsView, ThenFetch
<1>4. QED
  BY <1>2, <1>3

\* The user of the host list.
LEMMA HostUserOther ==
  ASSUME LaunchInv, NEW s \in Slots, NEW p, UserDoes(p, s)
  PROVE  OtherCalls /\ cast' = cast
<1>1. cast' = cast
  BY DEF UserDoes, FetchHosts, OnImport, Save, OnDelete, OnDuplicate, MoveHostToGroup,
         DropHost, OnCreateGroup, OnRenameGroup, OnDeleteGroup, ReorderGroups
<1>2. CASE Save(p, s)
  <2>1. PICK op, arg : op \in {"postHost", "putHost", "postGroup"} /\ Ask(p, s, op, arg)
    BY <1>2 DEF Save, HostCall
  <2>2. QED
    BY <1>1, <2>1, OtherAsk DEF LaunchInv, LaunchOps, LoadsView
<1>3. CASE ~Save(p, s)
  <2>1. \E op \in {"getHosts", "import", "deleteHost", "duplicate", "putHost", "orderHosts",
                   "postGroup", "putGroup", "deleteGroup", "orderGroups"} : \E arg : Ask(p, s, op, arg)
    BY <1>3 DEF UserDoes, FetchHosts, OnImport, OnDelete, OnDuplicate, MoveHostToGroup, FromRail,
         DropHost, OnCreateGroup, OnRenameGroup, OnDeleteGroup, ReorderGroups
  <2>2. QED
    BY <1>1, <2>1, OtherAsk DEF LaunchInv, LaunchOps, LoadsView
<1>4. QED
  BY <1>2, <1>3

\* Every step of hosts and groups.
LEMMA CatStepOther ==
  ASSUME LaunchInv, CatStep
  PROVE  OtherCalls /\ cast' = cast
<1>1. CASE \/ \E p \in Pages : CloseForm(p) \/ \E h \in Hosts \cup {None} : OpenForm(p, h)
           \/ \E h \in Hosts : HostIsUsed(h)
  BY <1>1, OtherStill DEF LaunchInv, CloseForm, OpenForm, HostIsUsed
<1>2. QED
  BY <1>1, HostHandlersOther, PageAnswersOther, HostUserOther DEF CatStep

\* The requests calls differ from the present ones only where no profile is asked about.
NoLaunch(calls) ==
  /\ DOMAIN calls = Slots
  /\ \A s \in Slots : calls[s] # None /\ calls[s] # call[s] =>
       /\ IsRequest(calls[s]) /\ calls[s].code \in Nat /\ calls[s].op \notin LaunchOps
       /\ LoadsView(calls[s].op, calls[s].arg) => calls[s].arg.chan # None

\* One more request that is not about profiles.
LEMMA OneMore ==
  ASSUME NEW calls, NoLaunch(calls), NEW s, NEW p, NEW op, op \notin LaunchOps, NEW arg,
         LoadsView(op, arg) => arg.chan # None
  PROVE  NoLaunch([calls EXCEPT ![s] = Request(p, op, arg)])
<1>1. PICK r : r = Request(p, op, arg)
  OBVIOUS
<1>2. IsRequest(r) /\ r.op = op /\ r.arg = arg /\ r.code = 0
  BY <1>1, RecordFacts DEF Request
<1>3. PICK next : next = [calls EXCEPT ![s] = r]
  OBVIOUS
<1>4. DOMAIN next = Slots /\ \A t \in Slots : next[t] = r \/ next[t] = calls[t]
  BY <1>3 DEF NoLaunch
<1>5. NoLaunch(next)
  BY <1>2, <1>4 DEF NoLaunch
<1>6. QED
  BY <1>1, <1>3, <1>5

\* The same, as the step that makes it so.
LEMMA NoLaunchOther ==
  ASSUME NEW calls, NoLaunch(calls), call' = calls
  PROVE  OtherCalls
BY DEF NoLaunch, OtherCalls

\* A terminal loads its profile again.
LEMMA ReloadOther ==
  ASSUME NEW calls, NoLaunch(calls), NEW p, NEW v, NEW chan, chan # None, NEW token,
         Reload(p, v, chan, token, calls)
  PROVE  OtherCalls
<1>1. CASE token = None \/ ~v.ready
  BY <1>1, NoLaunchOther DEF Reload
<1>2. CASE ~(token = None \/ ~v.ready)
  <2>1. PICK arg : arg = [who |-> "view", chan |-> chan, token |-> token, seq |-> view'[p].seq]
    OBVIOUS
  <2>2. PICK s : s = Min(FreeSlots(calls))
    OBVIOUS
  <2>3. call' = [calls EXCEPT ![s] = Request(p, "cascade", arg)]
    BY <1>2, <2>1, <2>2 DEF Reload
  <2>4. PICK next : next = [calls EXCEPT ![s] = Request(p, "cascade", arg)]
    OBVIOUS
  <2>5. NoLaunch(next)
    BY <2>1, <2>4, OneMore DEF LaunchOps, LoadsView
  <2>6. QED
    BY <2>3, <2>4, <2>5, NoLaunchOther
<1>3. QED
  BY <1>1, <1>2

\* A write of a setting is followed by a load of the page's own copy, or by nothing.
LEMMA RefreshOther ==
  ASSUME LaunchInv, NEW s \in Slots, NEW key
  PROVE  NoLaunch(ThenRefresh(s, key))
<1>1. NoLaunch(call)
  BY DEF NoLaunch, LaunchInv, LaunchCalls
<1>2. PICK p, a : p = call[s].page /\ a = [who |-> "base", chan |-> None]
  OBVIOUS
<1>3. NoLaunch([call EXCEPT ![s] = Request(p, "cascade", a)])
  BY <1>1, <1>2, OneMore DEF LaunchOps, LoadsView
<1>4. NoLaunch([call EXCEPT ![s] = Request(p, "getUi", None)])
  BY <1>1, OneMore DEF LaunchOps, LoadsView
<1>5. NoLaunch([call EXCEPT ![s] = None])
  BY <1>1 DEF NoLaunch
<1>6. DOMAIN call = Slots
  BY DEF LaunchInv, LaunchCalls
<1>7. \/ ThenRefresh(s, key) = [call EXCEPT ![s] = Request(p, "cascade", a)]
      \/ ThenRefresh(s, key) = [call EXCEPT ![s] = Request(p, "getUi", None)]
      \/ ThenRefresh(s, key) = [call EXCEPT ![s] = None]
  BY <1>2, <1>6 DEF ThenRefresh
<1>8. QED
  BY <1>3, <1>4, <1>5, <1>7

\* The requests that write a setting.
LEMMA WriteOps ==
  ASSUME NEW key
  PROVE  WriteOp(key) \in {"patchHost", "patchChannel", "putTerminal", "putUi", "putAppearance",
                           "putElevation"}
BY DEF WriteOp

\* Every step of the settings.
LEMMA SettingsOther ==
  ASSUME LaunchInv, SettingsStep
  PROVE  OtherCalls /\ UNCHANGED <<cast, launchVars>>
<1>1. ASSUME NEW s \in Slots,
             \/ GetConfigCascade(s) \/ GetConfigUi(s) \/ PutConfigGlobal(s) \/ PutConfigUi(s)
             \/ PutConfigAppearance(s) \/ PutConfigElevation(s)
             \/ PatchHostProfile(s) \/ PatchChannelProfile(s) \/ Unauthorised(s)
      PROVE  OtherCalls /\ UNCHANGED <<cast, launchVars>>
  <2>1. UNCHANGED <<cast, launchVars>>
    BY <1>1 DEF GetConfigCascade, GetConfigUi, PutConfigGlobal, PutConfigUi, PutConfigAppearance,
                PutConfigElevation, PatchHostProfile, PatchChannelProfile, Unauthorised, SettingsKept
  <2>2. call[s] # None /\ call[s].op \in {"cascade", "getUi", "putTerminal", "putUi", "putAppearance",
                                          "putElevation", "patchHost", "patchChannel"}
    BY <1>1 DEF GetConfigCascade, GetConfigUi, PutConfigGlobal, PutConfigUi, PutConfigAppearance,
                PutConfigElevation, PatchHostProfile, PatchChannelProfile, Unauthorised, SettingOps, Waits
  <2>3. \/ Reply(s, 200, GetCascade(call[s].arg.chan)) \/ Reply(s, 200, mem.ui)
        \/ Reply(s, 200, None) \/ Reply(s, 400, None) \/ Reply(s, 401, None) \/ Reply(s, 404, None)
    BY <1>1, Zenon DEF GetConfigCascade, GetConfigUi, PutConfigGlobal, PutConfigUi, PutConfigAppearance,
                PutConfigElevation, PatchHostProfile, PatchChannelProfile, Unauthorised
  <2>4. \A code \in Nat : \A body : Reply(s, code, body) => OtherCalls
    BY <2>2, OtherReply DEF LaunchInv, LaunchOps
  <2>5. QED
    BY <2>1, <2>3, <2>4
<1>2. ASSUME NEW s \in Slots, GotProfile(s) \/ GotCascade(s) \/ LoadedBase(s)
      PROVE  OtherCalls /\ UNCHANGED <<cast, launchVars>>
  BY <1>2, OtherEnd DEF GotProfile, GotCascade, LoadedBase, SettingsKept, LaunchInv
<1>3. ASSUME NEW s \in Slots, WriteDone(s)
      PROVE  OtherCalls /\ UNCHANGED <<cast, launchVars>>
  <2>1. PICK rest : rest = ThenRefresh(s, call[s].arg.key)
    OBVIOUS
  <2>2. NoLaunch(rest)
    BY <2>1, RefreshOther
  <2>3. PICK p : p = call[s].page
    OBVIOUS
  <2>4. call' = rest \/ (view[p].chan # None /\ Reload(p, view[p], view[p].chan, login[p], rest))
    <3>1. CASE Concerns(call[s].arg.key, panel[p].chan, view[p])
      <4>1. Reload(p, view[p], view[p].chan, login[p], rest)
        BY <1>3, <2>1, <2>3, <3>1 DEF WriteDone
      <4>2. view[p].chan # None
        BY <3>1 DEF Concerns
      <4>3. QED
        BY <4>1, <4>2
    <3>2. CASE ~Concerns(call[s].arg.key, panel[p].chan, view[p])
      BY <1>3, <2>1, <2>3, <3>2 DEF WriteDone
    <3>3. QED
      BY <3>1, <3>2
  <2>5. QED
    BY <1>3, <2>2, <2>4, NoLaunchOther, ReloadOther DEF WriteDone, SettingsKept
<1>4. ASSUME NEW s \in Slots, NEW p \in Pages, OpenPanel(p, s) \/ TimerFires(p, s)
      PROVE  OtherCalls /\ UNCHANGED <<cast, launchVars>>
  <2>1. UNCHANGED <<cast, launchVars>>
    BY <1>4 DEF OpenPanel, TimerFires, SettingsKept
  <2>2. \/ call' = call
        \/ \E arg : arg.who = "panel" /\ Ask(p, s, "cascade", arg)
        \/ \E op \in {"patchHost", "patchChannel", "putTerminal", "putUi", "putAppearance",
                      "putElevation"} : \E arg : Ask(p, s, op, arg)
    BY <1>4, WriteOps DEF OpenPanel, TimerFires
  <2>3. QED
    BY <2>1, <2>2, OtherStill, OtherAsk DEF LaunchInv, LaunchOps, LoadsView
<1>5. ASSUME NEW p \in Pages,
             \/ ClosePanel(p) \/ UpdateSetting(p) \/ \E c \in Channels : SelectTerminal(p, c)
             \/ HubPortReady(p) \/ \E t \in Tokens \cup {None} : TokenChanges(p, t)
      PROVE  OtherCalls /\ UNCHANGED <<cast, launchVars>>
  <2>1. UNCHANGED <<cast, launchVars>>
    BY <1>5 DEF ClosePanel, UpdateSetting, SelectTerminal, TokenChanges, HubPortReady, SettingsKept
  <2>2. call' = call \/ \E v, chan, token : chan # None /\ Reload(p, v, chan, token, call)
    BY <1>5, SettingsAssumption DEF ClosePanel, UpdateSetting, SelectTerminal, TokenChanges, HubPortReady
  <2>3. NoLaunch(call)
    BY DEF NoLaunch, LaunchInv, LaunchCalls
  <2>4. QED
    BY <2>1, <2>2, <2>3, OtherStill, ReloadOther DEF LaunchInv
<1>6. CASE FileIsEdited
  BY <1>6, OtherStill DEF FileIsEdited, LaunchInv
<1>7. QED
  BY <1>1, <1>2, <1>3, <1>4, <1>5, <1>6 DEF SettingsStep

\* Every step of tokens and codes.
LEMMA PairOther ==
  ASSUME LaunchInv, PairStep
  PROVE  OtherCalls /\ cast' = cast
<1>1. cast' = cast
  BY DEF PairStep
<1>2. ASSUME NEW s \in Slots,
             Unauthorized(s) \/ UseApi(s) \/ Revoke(s) \/ CreatePairingCode(s) \/ Verify(s)
      PROVE  OtherCalls
  <2>1. call[s] # None /\ call[s].op \in {"pair", "api", "revoke", "verify"}
    BY <1>2 DEF Unauthorized, UseApi, Revoke, CreatePairingCode, Verify, Authorized, Waits
  <2>2. \A code \in Nat : \A body : Reply(s, code, body) => OtherCalls
    BY <2>1, OtherReply DEF LaunchInv, LaunchOps
  <2>3. CASE Unauthorized(s) \/ UseApi(s)
    BY <2>2, <2>3 DEF Unauthorized, UseApi
  <2>4. CASE Revoke(s)
    <3>1. Reply(s, 200, None) \/ Reply(s, 404, None)
      BY <2>4, Zenon DEF Revoke
    <3>2. QED
      BY <2>2, <3>1
  <2>5. CASE CreatePairingCode(s)
    <3>1. Reply(s, 429, None) \/ \E c \in Codes : Reply(s, 201, c)
      BY <2>5, NewId DEF CreatePairingCode
    <3>2. QED
      BY <2>2, <3>1
  <2>6. CASE Verify(s)
    <3>1. \/ Reply(s, 429, None) \/ Reply(s, Reason(call[s].arg), None)
          \/ \E k \in FreshKeys : Reply(s, 200, k)
      BY <2>6, Zenon DEF Verify, Redeem
    <3>2. Reason(call[s].arg) \in Nat
      BY DEF Reason
    <3>3. QED
      BY <2>2, <3>1, <3>2
  <2>7. QED
    BY <1>2, <2>3, <2>4, <2>5, <2>6
<1>3. ASSUME NEW s \in Slots, ShowCode(s) \/ Paired(s) \/ ApiAnswered(s)
      PROVE  OtherCalls
  BY <1>3, OtherEnd DEF ShowCode, Paired, ApiAnswered, LaunchInv
<1>4. ASSUME NEW s \in Slots, NEW p, UserPairs(p, s)
      PROVE  OtherCalls
  <2>1. \E op \in {"pair", "verify", "api", "revoke"} : \E arg : Ask(p, s, op, arg)
    BY <1>4 DEF UserPairs, Generate, Submit, AskApi, AskRevoke
  <2>2. QED
    BY <2>1, OtherAsk DEF LaunchInv, LaunchOps, LoadsView
<1>5. CASE \/ \E p \in Pages : \/ Authenticate(p) \/ HandleAuth(p) \/ AuthAnswered(p)
                               \/ SocketCloses(p) \/ ReloadPage(p) \/ CloseGenerator(p)
           \/ Tick
  <2>1. call' = call
    BY <1>5 DEF Authenticate, HandleAuth, AuthAnswered, SocketCloses, ReloadPage, CloseGenerator, Tick
  <2>2. QED
    BY <1>1, <2>1, OtherStill DEF LaunchInv
<1>6. CASE HubRestarts
  BY <1>1, <1>6 DEF HubRestarts, OtherCalls
<1>7. QED
  BY <1>1, <1>2, <1>3, <1>4, <1>5, <1>6 DEF PairStep

\* A step of hosts and groups; a form whose request is lost may save again.
LEMMA HostsKeepLaunches ==
  ASSUME LaunchInv, HostsChange
  PROVE  LaunchInv'
<1>1. OtherCalls /\ cast' = cast
  BY CatStepOther DEF HostsChange
<1>2. TablesGrow
  BY TablesStay DEF HostsChange
<1>3. \A s \in Slots : call'[s] # None /\ call'[s] # call[s] => GoodCall(call[s])'
  BY <1>1 DEF OtherCalls, GoodCall, Asks, Brings, LaunchOps
<1>4. ASSUME NEW p \in Pages, shelf'[p] # shelf[p]
      PROVE  GoodShelf(shelf[p])'
  <2>1. PICK x, y, f : x = shelf[p] /\ y = shelf'[p] /\ f = [shelf[p].form EXCEPT !.saving = 0]
    OBVIOUS
  <2>2. x.form # None /\ y = [x EXCEPT !.form = f] /\ f = [x.form EXCEPT !.saving = 0]
    BY <1>4, <2>1 DEF HostsChange, FreedForms
  <2>3. GoodShelf(x)
    BY <2>1 DEF LaunchInv, LaunchShelves
  <2>4. GoodForm(f) /\ KnownList(x.list)
    BY <2>2, <2>3, FormSaving DEF GoodShelf
  <2>5. y = [list |-> x.list, loaded |-> x.loaded, form |-> f, menu |-> x.menu]
    BY <2>2, <2>3, ShelfParts
  <2>6. GoodShelf(y)
    BY <2>4, <2>5, ShelfMade
  <2>7. GoodShelf(y)'
    BY <1>2, <2>6, ShelfStays
  <2>8. QED
    BY <2>1, <2>7
<1>5. DOMAIN call' = Slots /\ DOMAIN shelf' = Pages
  BY <1>1 DEF OtherCalls, HostsChange, FreedForms
<1>6. QED
  BY <1>1, <1>2, <1>3, <1>4, <1>5, StepKeeps

\* A start of the hub.
LEMMA StartKeepsLaunches ==
  ASSUME LaunchInv, HubStarts
  PROVE  LaunchInv'
<1>1. TablesGrow
  BY StartGrows DEF HubStarts, Start
<1>2. UNCHANGED <<cast, call, shelf>>
  BY DEF HubStarts, Start, MigrateHostGroupData
<1>3. QED
  BY <1>1, <1>2, GrownKeeps

\* The tables, the requests and the pages at the start.
LEMMA LaunchStart == StoredInit => LaunchInv
<1>1. SUFFICES ASSUME StoredInit PROVE LaunchInv
  OBVIOUS
<1>2. LaunchTables
  BY <1>1 DEF StoredInit, LaunchInit, LaunchTables, Rows
<1>3. cast \in Casts /\ LaunchCalls
  BY <1>1 DEF StoredInit, CatInit, LaunchCalls
<1>4. LaunchShelves
  <2>1. KnownList(<<>>)
    BY DEF KnownList
  <2>2. \A p \in Pages : shelf[p] = [list |-> <<>>, loaded |-> FALSE, form |-> None, menu |-> None]
    BY <1>1 DEF StoredInit, LaunchInit
  <2>3. \A p \in Pages : GoodShelf(shelf[p])
    BY <2>1, <2>2, ShelfMade
  <2>4. QED
    BY <1>1, <2>3 DEF StoredInit, LaunchInit, LaunchShelves
<1>5. QED
  BY <1>2, <1>3, <1>4 DEF LaunchInv

\* Every step of the composed specification keeps them.
LEMMA LaunchNext == LaunchInv /\ [StoredNext]_storedVars => LaunchInv'
<1>1. SUFFICES ASSUME LaunchInv, [StoredNext]_storedVars PROVE LaunchInv'
  OBVIOUS
<1>2. CASE HostsChange
  BY <1>1, <1>2, HostsKeepLaunches
<1>3. CASE ProfilesChange
  BY <1>1, <1>3, LaunchStepKeeps DEF ProfilesChange
<1>4. CASE SettingsStep
  BY <1>1, <1>4, SettingsOther, OtherSteps DEF launchVars, tableVars
<1>5. CASE Pairs
  BY <1>1, <1>5, PairOther, OtherSteps DEF Pairs, launchVars, tableVars
<1>6. CASE HubStarts
  BY <1>1, <1>6, StartKeepsLaunches
<1>7. CASE UNCHANGED storedVars
  BY <1>1, <1>7, TablesStay, GrownKeeps DEF storedVars, catVars, launchVars, tableVars
<1>8. QED
  BY <1>1, <1>2, <1>3, <1>4, <1>5, <1>6, <1>7 DEF StoredNext

\* The mask that stands for a variable on the wire is stored as its value, or given to a shell,
\* only for a variable that some save had removed from the profile, or whose name a form gave to
\* a masked variable: however the forms of several pages overlap, any other mask that comes back
\* finds the value it stands for (PUT /api/launch-profiles/:id).
THEOREM SecretsStayMasked == Spec => []SecretKept
<1>1. LaunchInv => SecretKept
  <2>1. SUFFICES ASSUME LaunchInv PROVE SecretKept
    OBVIOUS
  <2>2. ASSUME NEW s \in Slots, NEW v \in Vars, Answered(s, "spawn"), call[s].body[v] = Mask
        PROVE  \E i \in Profiles : <<i, v>> \in dropped
    BY <2>1, <2>2 DEF Answered, LaunchInv, LaunchCalls, GoodCall, Brings
  <2>3. QED
    BY <2>1, <2>2 DEF SecretKept, LaunchInv, LaunchTables
<1>2. QED
  BY <1>1, LaunchStart, LaunchNext, PTL DEF Spec, storedVars

-----------------------------------------------------------------------------
\* What a page keeps of the profile of its terminal is a record, and its own.
ViewFields == {"chan", "seq", "profile", "for", "token", "missed", "ready"}
Own(v, token) == IF v.for = None THEN v.profile = Default ELSE v.for = v.chan /\ v.token = token
ViewInv ==
  /\ DOMAIN view = Pages /\ DOMAIN login = Pages
  /\ \A p \in Pages : view[p] = [f \in ViewFields |-> view[p][f]] /\ Own(view[p], login[p])

\* A load resets what belongs to another channel or token.
LEMMA ReloadOwn ==
  ASSUME NEW v, v = [f \in ViewFields |-> v[f]], NEW chan, chan # None, NEW token
  PROVE  LET w == ReloadView(v, chan, token) IN
         w = [f \in ViewFields |-> w[f]] /\ Own(w, token)
<1>1. DOMAIN v = ViewFields
  OBVIOUS
<1>2. PICK n : n = [[[v EXCEPT !.chan = chan] EXCEPT !.seq = v.seq + 1] EXCEPT !.missed = FALSE]
  OBVIOUS
<1>3. /\ DOMAIN n = ViewFields /\ n = [f \in ViewFields |-> n[f]] /\ n.chan = chan
      /\ n.for = v.for /\ n.token = v.token
  BY <1>1, <1>2 DEF ViewFields
<1>4. PICK m : m = [[[n EXCEPT !.profile = Default] EXCEPT !.for = None] EXCEPT !.token = None]
  OBVIOUS
<1>5. m = [f \in ViewFields |-> m[f]] /\ m.for = None /\ m.profile = Default
  BY <1>3, <1>4 DEF ViewFields
<1>6. PICK w : w = ReloadView(v, chan, token)
  OBVIOUS
<1>7. w = IF token = None \/ v.token # token \/ v.for # chan THEN m ELSE n
  BY <1>1, <1>2, <1>4, <1>6 DEF ReloadView, ResetView, ViewFields
<1>8. w = [f \in ViewFields |-> w[f]] /\ Own(w, token)
  BY <1>3, <1>5, <1>7 DEF Own
<1>9. QED
  BY <1>6, <1>8

\* A load of the terminal of one page, whose token may have changed.
LEMMA ReloadKeeps ==
  ASSUME ViewInv, NEW p, NEW v, p \in Pages => v = [f \in ViewFields |-> v[f]],
         NEW chan, chan # None, NEW token, NEW calls, Reload(p, v, chan, token, calls), DOMAIN login' = Pages, p \in Pages => login'[p] = token,
         \A q \in Pages : q # p => login'[q] = login[q]
  PROVE  ViewInv'
<1>1. PICK w : w = ReloadView(v, chan, token)
  OBVIOUS
<1>2. view' = [view EXCEPT ![p] = w]
  BY <1>1 DEF Reload
<1>3. p \in Pages => w = [f \in ViewFields |-> w[f]] /\ Own(w, token)
  BY <1>1, ReloadOwn DEF ViewInv
<1>4. QED
  BY <1>2, <1>3 DEF ViewInv, Own

\* Whether a terminal missed a write does not matter to what it shows.
LEMMA MissedKeeps ==
  ASSUME ViewInv, NEW p, NEW m, view' = [view EXCEPT ![p].missed = m], login' = login
  PROVE  ViewInv'
<1>1. DOMAIN view' = Pages /\ \A q \in Pages : q # p => view'[q] = view[q]
  BY DEF ViewInv
<1>2. ASSUME p \in Pages
      PROVE  view'[p] = [f \in ViewFields |-> view'[p][f]] /\ Own(view'[p], login[p])
  <2>1. view'[p] = [view[p] EXCEPT !.missed = m] /\ DOMAIN view[p] = ViewFields
    BY <1>2 DEF ViewInv
  <2>2. QED
    BY <1>2, <2>1 DEF ViewInv, ViewFields, Own
<1>3. QED
  BY <1>1, <1>2 DEF ViewInv, Own

\* Only the newest load of the same channel and token is taken.
LEMMA GotProfileKeeps ==
  ASSUME LaunchInv, ViewInv, NEW s \in Slots, GotProfile(s)
  PROVE  ViewInv'
<1>1. PICK p, a, x : p = call[s].page /\ a = call[s].arg /\ x = call[s].body.resolved
  OBVIOUS
<1>2. login' = login /\ call[s] # None /\ LoadsView(call[s].op, call[s].arg)
  BY DEF GotProfile, Answered, LoadsView
<1>3. a.chan # None
  BY <1>1, <1>2 DEF LaunchInv, LaunchCalls, GoodCall, Asks
<1>4. CASE ~IsCurrent(p, a)
  BY <1>1, <1>2, <1>4 DEF GotProfile, ViewInv
<1>7. CASE IsCurrent(p, a) /\ ~OkCode(s)
  <2>1. view' = [view EXCEPT ![p].missed = TRUE]
    BY <1>1, <1>7 DEF GotProfile
  <2>2. QED
    BY <1>2, <2>1, MissedKeeps
<1>5. CASE IsCurrent(p, a) /\ OkCode(s)
  <2>1. view' = [view EXCEPT ![p].profile = x, ![p].for = a.chan, ![p].token = a.token]
    BY <1>1, <1>5 DEF GotProfile
  <2>2. login[p] = a.token /\ view[p].chan = a.chan
    BY <1>5 DEF IsCurrent
  <2>3. DOMAIN view' = Pages /\ \A q \in Pages : q # p => view'[q] = view[q]
    BY <2>1 DEF ViewInv
  <2>4. ASSUME p \in Pages
        PROVE  view'[p] = [f \in ViewFields |-> view'[p][f]] /\ Own(view'[p], login[p])
    <3>1. DOMAIN view[p] = ViewFields
      BY <2>4 DEF ViewInv
    <3>2. view'[p] = [[[view[p] EXCEPT !.profile = x] EXCEPT !.for = a.chan] EXCEPT !.token = a.token]
      BY <2>1, <2>4 DEF ViewInv
    <3>3. /\ view'[p] = [f \in ViewFields |-> view'[p][f]]
          /\ view'[p].for = a.chan /\ view'[p].chan = view[p].chan /\ view'[p].token = a.token
      BY <3>1, <3>2 DEF ViewFields
    <3>4. QED
      BY <1>3, <2>2, <3>3 DEF Own
  <2>5. QED
    BY <1>2, <2>3, <2>4 DEF ViewInv, Own
<1>6. QED
  BY <1>4, <1>5, <1>7

\* Every step of the settings.
LEMMA SettingsKeepViews ==
  ASSUME LaunchInv, ViewInv, SettingsStep
  PROVE  ViewInv'
<1>1. CASE UNCHANGED <<view, login>>
  BY <1>1 DEF ViewInv, Own
<1>2. ASSUME NEW s \in Slots, WriteDone(s)
      PROVE  ViewInv'
  <2>1. PICK p, rest : p = call[s].page /\ rest = ThenRefresh(s, call[s].arg.key)
    OBVIOUS
  <2>2. login' = login
    BY <1>2 DEF WriteDone
  <2>3. CASE Concerns(call[s].arg.key, panel[p].chan, view[p])
    <3>1. Reload(p, view[p], view[p].chan, login[p], rest)
      BY <1>2, <2>1, <2>3 DEF WriteDone
    <3>2. view[p].chan # None
      BY <2>3 DEF Concerns
    <3>3. QED
      BY <2>2, <3>1, <3>2, ReloadKeeps DEF ViewInv
  <2>4. CASE ~Concerns(call[s].arg.key, panel[p].chan, view[p])
    <3>1. PICK m : view' = [view EXCEPT ![p].missed = m]
      BY <1>2, <2>1, <2>4 DEF WriteDone
    <3>2. QED
      BY <2>2, <3>1, MissedKeeps
  <2>5. QED
    BY <2>3, <2>4
<1>3. ASSUME NEW p \in Pages, NEW c \in Channels, SelectTerminal(p, c)
      PROVE  ViewInv'
  BY <1>3, ReloadKeeps, SettingsAssumption DEF SelectTerminal, ViewInv
<1>4. ASSUME NEW p \in Pages, NEW t, TokenChanges(p, t)
      PROVE  ViewInv'
  <2>1. /\ DOMAIN login' = Pages /\ login'[p] = t /\ \A q \in Pages : q # p => login'[q] = login[q]
        /\ view[p].chan # None /\ Reload(p, view[p], view[p].chan, t, call)
    BY <1>4 DEF TokenChanges, ViewInv
  <2>2. QED
    BY <2>1, ReloadKeeps DEF ViewInv
<1>8. ASSUME NEW p \in Pages, HubPortReady(p)
      PROVE  ViewInv'
  <2>1. PICK v : v = [view[p] EXCEPT !.ready = TRUE]
    OBVIOUS
  <2>2. /\ v = [f \in ViewFields |-> v[f]] /\ v.chan = view[p].chan /\ Own(v, login[p])
        /\ login' = login
    BY <1>8, <2>1 DEF HubPortReady, ViewInv, ViewFields, Own
  <2>3. CASE v.chan # None
    <3>1. Reload(p, v, v.chan, login[p], call)
      BY <1>8, <2>1, <2>3 DEF HubPortReady
    <3>2. QED
      BY <2>2, <2>3, <3>1, ReloadKeeps DEF ViewInv
  <2>4. CASE v.chan = None
    <3>1. view' = [view EXCEPT ![p] = v]
      BY <1>8, <2>1, <2>4 DEF HubPortReady
    <3>2. QED
      BY <2>2, <3>1 DEF ViewInv, Own
  <2>5. QED
    BY <2>3, <2>4
<1>5. ASSUME NEW s \in Slots,
             \/ GetConfigCascade(s) \/ GetConfigUi(s) \/ PutConfigGlobal(s) \/ PutConfigUi(s)
             \/ PutConfigAppearance(s) \/ PutConfigElevation(s)
             \/ PatchHostProfile(s) \/ PatchChannelProfile(s) \/ Unauthorised(s)
             \/ GotCascade(s) \/ LoadedBase(s)
             \/ \E p \in Pages : OpenPanel(p, s) \/ TimerFires(p, s)
      PROVE  UNCHANGED <<view, login>>
  BY <1>5 DEF GetConfigCascade, GetConfigUi, PutConfigGlobal, PutConfigUi, PutConfigAppearance,
              PutConfigElevation, PatchHostProfile, PatchChannelProfile, GotCascade, LoadedBase,
              Unauthorised, OpenPanel, TimerFires, PagesKept
<1>6. CASE (\E p \in Pages : ClosePanel(p) \/ UpdateSetting(p)) \/ FileIsEdited
  BY <1>1, <1>6 DEF ClosePanel, UpdateSetting, FileIsEdited
<1>7. QED
  BY <1>1, <1>2, <1>3, <1>4, <1>5, <1>6, <1>8, GotProfileKeeps DEF SettingsStep

\* A terminal never shows a profile that was loaded for another channel, or with another token:
\* whatever loads overtake each other while the user changes terminals, logs in again or edits
\* settings, an answer counts only for the channel and the token of now (useResolvedProfile.ts).
THEOREM ProfilesStayOwn == Spec => []ProfileIsOwn
<1>1. StoredInit => LaunchInv /\ ViewInv
  <2>1. ASSUME StoredInit PROVE ViewInv
    <3>1. DOMAIN view = Pages /\ DOMAIN login = Pages
      BY <2>1 DEF StoredInit, SettingsInit
    <3>2. ASSUME NEW p \in Pages
          PROVE  view[p] = [f \in ViewFields |-> view[p][f]] /\ view[p].for = None
                 /\ view[p].profile = Default
      <4>1. PICK r : view[p] = [chan |-> None, seq |-> 0, profile |-> Default, for |-> None,
                                token |-> None, missed |-> FALSE, ready |-> r]
        BY <2>1, <3>2 DEF StoredInit, SettingsInit
      <4>2. QED
        BY <4>1 DEF ViewFields
    <3>3. QED
      BY <3>1, <3>2 DEF ViewInv, Own
  <2>2. QED
    BY <2>1, LaunchStart
<1>2. LaunchInv /\ ViewInv /\ [StoredNext]_storedVars => (LaunchInv /\ ViewInv)'
  <2>1. SUFFICES ASSUME LaunchInv, ViewInv, [StoredNext]_storedVars PROVE ViewInv'
    BY LaunchNext
  <2>2. CASE SettingsStep
    BY <2>1, <2>2, SettingsKeepViews
  <2>3. CASE ~SettingsStep
    <3>1. UNCHANGED <<view, login>>
      BY <2>1, <2>3 DEF StoredNext, HostsChange, ProfilesChange, HubStarts, LoadAtStart, Pairs,
         storedVars, settingsVars
    <3>2. QED
      BY <2>1, <3>1 DEF ViewInv, Own
  <2>4. QED
    BY <2>2, <2>3
<1>3. ViewInv => ProfileIsOwn
  BY DEF ViewInv, Own, ProfileIsOwn
<1>4. QED
  BY <1>1, <1>2, <1>3, PTL DEF Spec, storedVars
=============================================================================
