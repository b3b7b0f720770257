--------------------------- MODULE ComponentProofs ---------------------------
(***************************************************************************)
(* Proofs about Accounts, and after them about components that share this  *)
(* module with it: Documents, Compliance, Registers, Workflows and Rollup. *)
(* Every theorem is about one of them; what has the same name in two of    *)
(* them is declared once, where it is first needed.                        *)
(*                                                                         *)
(* An INSTANCE brings no assumptions along: a theorem about an instance    *)
(* states those of the component that it needs.                            *)
(***************************************************************************)
EXTENDS Accounts, AggregateTheorems

(* Accounts: what a request in flight knows and is about to do.  A         *)
(* password of the user's own lowers the flag, one that is given raises    *)
(* it, and nothing else touches it, so that a request which is not late    *)
(* has read the flag as it is.                                             *)
FlagInv(t) ==
    /\ t.sets = "own" => ~t.assigned.must
    /\ t.sets = "given" => t.assigned.must
    /\ t.sets = "none" => t.assigned.must = t.loaded.must
    /\ Writes(t) /\ ~t.late => t.loaded.must = account.must

\* Whoever gives a password mails it, but for the portal, where nothing is
\* mailed; who has sent a mail holds the row, so that its mail is the last one,
\* unless it failed.
MailInv(r, t) ==
    /\ t.mails => t.sets = "given" /\ kind # "portal"
    /\ t.sets = "given" => t.mails \/ kind = "portal"
    /\ t.mails /\ t.flushed /\ ~t.unsent => told = r

\* A request revokes tokens that were issued, and issues one at most, in the place
\* of one it revokes or as the first of its login.
TokenInv(r, t) ==
    /\ \A x \in t.revokes : token[x] # "none"
    /\ t.issues = {} \/ \E y \in Tokens : t.issues = {y}
    /\ t.issues # {} /\ t.revokes = {} =>
          /\ \A x \in Tokens : token[x] = "none"
          /\ \A o \in Requests \ {r} : txn[o] # NoTxn => txn[o].issues = {}

TxnInv(r) ==
    txn[r] # NoTxn => FlagInv(txn[r]) /\ MailInv(r, txn[r]) /\ TokenInv(r, txn[r])

OneLive == raced \/ \A x, y \in Tokens : token[x] = "live" /\ token[y] = "live" => x = y

IInv ==
    /\ TypeOK
    /\ \A r \in Requests : TxnInv(r)
    /\ GivenMustChange
    /\ MailedOpens
    /\ kind = "portal" => told = "nowhere"
    /\ OneLive


LEMMA AccountRow ==
    ASSUME TypeOK
    PROVE  /\ account.password \in Password /\ account.must \in BOOLEAN
           /\ account.active \in BOOLEAN
BY DEF TypeOK

LEMMA TxnRow ==
    ASSUME NEW t \in Txn
    PROVE  /\ t.loaded \in Columns /\ t.assigned \in Columns
           /\ t.loaded.must \in BOOLEAN /\ t.loaded.active \in BOOLEAN
           /\ t.assigned.must \in BOOLEAN /\ t.assigned.active \in BOOLEAN
           /\ t.sets \in Password /\ t.late \in BOOLEAN /\ t.mails \in BOOLEAN
           /\ t.unsent \in BOOLEAN
           /\ t.flushed \in BOOLEAN /\ t.revokes \subseteq Tokens /\ t.issues \subseteq Tokens
BY DEF Txn, Columns

\* What a request that has only read is about to do: nothing.
LEMMA ReadType ==
    ASSUME TypeOK
    PROVE  /\ Read \in Txn /\ Read.loaded.must = account.must
           /\ Read.assigned.must = account.must /\ Read.sets = "none"
           /\ Read.mails = FALSE /\ Read.flushed = FALSE /\ Read.late = FALSE
           /\ Read.revokes = {} /\ Read.issues = {}
<1>. DEFINE no == FALSE
            none == "none"
            columns == [must |-> account.must, active |-> account.active]
<1>1. /\ no \in BOOLEAN /\ none \in Password /\ columns \in Columns
      /\ columns.must = account.must
    BY AccountRow DEF Columns, Password
<1>2. Read = [loaded |-> columns, assigned |-> columns, creates |-> no, sets |-> none,
              late |-> no, touches |-> no, mails |-> no, unsent |-> no, flushed |-> no,
              revokes |-> {}, issues |-> {}]
    BY DEF Read
<1>3. /\ Read \in Txn /\ Read.loaded = columns /\ Read.assigned = columns
      /\ Read.sets = none /\ Read.mails = no /\ Read.flushed = no /\ Read.late = no
      /\ Read.revokes = {} /\ Read.issues = {}
  <2>. HIDE DEF no, none, columns
  <2>. QED
    BY <1>1, <1>2 DEF Txn
<1>. QED
    BY <1>1, <1>3

LEMMA InitIInv == Init => IInv
<1>. SUFFICES ASSUME Init PROVE IInv
    OBVIOUS
<1>1. account.password \in {"none", "own"} /\ account.must = FALSE
    BY DEF Init, Seeded
<1>2. TypeOK
  <2>1. account \in [password : Password, must : BOOLEAN, active : BOOLEAN]
    <3>. DEFINE password == IF kind = "superadmin" THEN "own" ELSE "none"
                no == FALSE
                active == kind = "superadmin"
    <3>1. password \in Password /\ no \in BOOLEAN /\ active \in BOOLEAN
        BY DEF Password
    <3>2. account = [password |-> password, must |-> no, active |-> active]
        BY DEF Init, Seeded
    <3>. HIDE DEF password, no, active
    <3>. QED
        BY <3>1, <3>2
  <2>2. token \in [Tokens -> Token] /\ hash \in [Tokens -> Tokens]
    BY DEF Init, Token
  <2>3. /\ txn \in [Requests -> Txn \union {NoTxn}] /\ told \in Told
        /\ kind \in Kind /\ tenant \in BOOLEAN /\ unsent \in BOOLEAN
        /\ crossed \in BOOLEAN /\ raced \in BOOLEAN
    BY DEF Init, Told
  <2>. QED
    BY <2>1, <2>2, <2>3 DEF TypeOK
<1>3. \A r \in Requests : TxnInv(r)
    BY DEF Init, TxnInv
<1>4. GivenMustChange /\ MailedOpens
    BY <1>1 DEF GivenMustChange, MailedOpens
<1>5. OneLive /\ told = "nowhere"
    BY DEF Init, OneLive
<1>. QED
    BY <1>2, <1>3, <1>4, <1>5 DEF IInv

\* A request that has only read disturbs nothing, if it is known what it will do.
LEMMA BeginStep ==
    ASSUME IInv, NEW r \in Requests, NEW t \in Txn, Begin(r, t), hash' \in [Tokens -> Tokens],
           FlagInv(t), MailInv(r, t), TokenInv(r, t),
           t.issues # {} => \A o \in Requests :
                                txn[o] # NoTxn /\ txn[o].issues # {} => txn[o].revokes # {}
    PROVE  IInv'
<1>1. TypeOK'
    BY DEF IInv, TypeOK, Begin
<1>2. txn'[r] = t /\ \A q \in Requests \ {r} : txn'[q] = txn[q]
    BY DEF IInv, TypeOK, Begin
<1>3. UNCHANGED <<kind, account, token, told, unsent, crossed, raced>>
    BY DEF Begin
<1>4. TxnInv(r)'
  <2>1. FlagInv(t)' /\ MailInv(r, t)'
    BY <1>3 DEF FlagInv, MailInv, Writes
  <2>2. FlagInv(txn[r])' /\ MailInv(r, txn[r])'
    BY <1>2, <2>1 DEF FlagInv, MailInv, Writes
  <2>3. TokenInv(r, txn[r])'
    BY <1>2, <1>3 DEF TokenInv
  <2>. QED
    BY <2>2, <2>3 DEF TxnInv
<1>5. ASSUME NEW q \in Requests \ {r}, txn[q] # NoTxn PROVE TxnInv(q)'
  <2>1. FlagInv(txn[q]) /\ MailInv(q, txn[q]) /\ TokenInv(q, txn[q])
    BY <1>5 DEF IInv, TxnInv
  <2>2. FlagInv(txn[q])' /\ MailInv(q, txn[q])'
    BY <1>2, <1>3, <2>1 DEF FlagInv, MailInv, Writes
  <2>3. TokenInv(q, txn[q])'
    BY <1>2, <1>3, <1>5, <2>1 DEF TokenInv
  <2>. QED
    BY <2>2, <2>3 DEF TxnInv
<1>6. ASSUME NEW q \in Requests \ {r}, txn[q] = NoTxn PROVE TxnInv(q)'
    BY <1>2, <1>6 DEF TxnInv
<1>7. GivenMustChange' /\ MailedOpens' /\ OneLive' /\ (kind' = "portal" => told' = "nowhere")
    BY <1>3 DEF IInv, GivenMustChange, MailedOpens, OneLive
<1>. QED
    BY <1>1, <1>4, <1>5, <1>6, <1>7 DEF IInv


\* The requests that leave the tokens alone: a new account, a password of the
\* user's own or one that is given, the activity of the account, a portal login.
LEMMA InsertStep ==
    ASSUME IInv, NEW r \in Requests, NEW password \in {"own", "given"}, NEW mails \in BOOLEAN,
           Insert(r, password, mails), mails => password = "given" /\ kind # "portal",
           password = "given" => mails \/ kind = "portal"
    PROVE  IInv'
<1>. DEFINE given == password = "given"
            yes == TRUE
            t == [Read EXCEPT !.assigned = [must |-> given, active |-> yes],
                              !.creates = yes, !.sets = password, !.mails = mails]
<1>1. TypeOK /\ Begin(r, t) /\ hash' = hash /\ hash \in [Tokens -> Tokens]
    BY DEF IInv, Insert, TypeOK
<1>2. given \in BOOLEAN /\ yes \in BOOLEAN /\ password \in Password
    BY DEF Password
<1>3. Read \in Txn /\ Read.flushed = FALSE /\ Read.loaded.must = account.must
      /\ Read.revokes = {} /\ Read.issues = {}
    BY <1>1, ReadType
<1>4. /\ t \in Txn /\ t.loaded = Read.loaded /\ t.assigned.must = given /\ t.sets = password
      /\ t.mails = mails /\ t.flushed = Read.flushed
      /\ t.revokes = Read.revokes /\ t.issues = Read.issues
  <2>. HIDE DEF given, yes
  <2>. QED
    BY <1>2, <1>3, ZenonT(60) DEF Txn, Columns
<1>. HIDE DEF t
<1>5. FlagInv(t)
    BY <1>3, <1>4 DEF FlagInv
<1>6. MailInv(r, t) /\ TokenInv(r, t)
    BY <1>3, <1>4 DEF MailInv, TokenInv
<1>. QED
    BY <1>1, <1>3, <1>4, <1>5, <1>6, BeginStep

LEMMA SetOwnStep ==
    ASSUME IInv, NEW r \in Requests, SetOwn(r)
    PROVE  IInv'
<1>. DEFINE no == FALSE
            own == "own"
            t == [Read EXCEPT !.assigned.must = no, !.sets = own]
<1>1. TypeOK /\ Begin(r, t) /\ hash' = hash /\ hash \in [Tokens -> Tokens]
    BY DEF IInv, SetOwn, TypeOK
<1>2. no \in BOOLEAN /\ own \in Password
    BY DEF Password
<1>3. Read \in Txn /\ Read.mails = FALSE /\ Read.loaded.must = account.must
      /\ Read.revokes = {} /\ Read.issues = {}
    BY <1>1, ReadType
<1>4. /\ t \in Txn /\ t.loaded = Read.loaded /\ t.assigned.must = no /\ t.sets = own
      /\ t.mails = Read.mails /\ t.revokes = Read.revokes /\ t.issues = Read.issues
  <2>. HIDE DEF no, own
  <2>. QED
    BY <1>2, <1>3 DEF Txn, Columns
<1>. HIDE DEF t
<1>5. FlagInv(t) /\ MailInv(r, t) /\ TokenInv(r, t)
    BY <1>3, <1>4 DEF FlagInv, MailInv, TokenInv
<1>. QED
    BY <1>1, <1>3, <1>4, <1>5, BeginStep

LEMMA SetGivenStep ==
    ASSUME IInv, NEW r \in Requests, NEW mails \in BOOLEAN, SetGiven(r, mails),
           mails <=> kind # "portal"
    PROVE  IInv'
<1>. DEFINE yes == TRUE
            given == "given"
            t == [Read EXCEPT !.assigned.must = yes, !.sets = given, !.mails = mails]
<1>1. TypeOK /\ Begin(r, t) /\ hash' = hash /\ hash \in [Tokens -> Tokens]
    BY DEF IInv, SetGiven, TypeOK
<1>2. yes \in BOOLEAN /\ given \in Password
    BY DEF Password
<1>3. Read \in Txn /\ Read.flushed = FALSE /\ Read.loaded.must = account.must
      /\ Read.revokes = {} /\ Read.issues = {}
    BY <1>1, ReadType
<1>4. /\ t \in Txn /\ t.loaded = Read.loaded /\ t.assigned.must = yes /\ t.sets = given
      /\ t.mails = mails /\ t.flushed = Read.flushed
      /\ t.revokes = Read.revokes /\ t.issues = Read.issues
  <2>. HIDE DEF yes, given
  <2>. QED
    BY <1>2, <1>3 DEF Txn, Columns
<1>. HIDE DEF t
<1>5. FlagInv(t) /\ MailInv(r, t) /\ TokenInv(r, t)
    BY <1>3, <1>4 DEF FlagInv, MailInv, TokenInv
<1>. QED
    BY <1>1, <1>3, <1>4, <1>5, BeginStep

LEMMA SetActiveStep ==
    ASSUME IInv, NEW r \in Requests, NEW active \in BOOLEAN, SetActive(r, active)
    PROVE  IInv'
<1>. DEFINE t == [Read EXCEPT !.assigned.active = active]
<1>1. TypeOK /\ Begin(r, t) /\ hash' = hash /\ hash \in [Tokens -> Tokens]
    BY DEF IInv, SetActive, TypeOK
<1>2. /\ Read \in Txn /\ Read.mails = FALSE /\ Read.loaded.must = account.must
      /\ Read.assigned.must = account.must /\ Read.sets = "none"
      /\ Read.revokes = {} /\ Read.issues = {}
    BY <1>1, ReadType
<1>3. /\ t \in Txn /\ t.loaded = Read.loaded /\ t.assigned.must = Read.assigned.must
      /\ t.sets = Read.sets /\ t.mails = Read.mails
      /\ t.revokes = Read.revokes /\ t.issues = Read.issues
    BY <1>2 DEF Txn, Columns
<1>. HIDE DEF t
<1>4. FlagInv(t) /\ MailInv(r, t) /\ TokenInv(r, t)
    BY <1>2, <1>3 DEF FlagInv, MailInv, TokenInv
<1>. QED
    BY <1>1, <1>2, <1>3, <1>4, BeginStep

LEMMA PortalLoginStep ==
    ASSUME IInv, NEW r \in Requests, PortalLogin(r)
    PROVE  IInv'
<1>. DEFINE yes == TRUE
            t == [Read EXCEPT !.touches = yes]
<1>1. TypeOK /\ Begin(r, t) /\ hash' = hash /\ hash \in [Tokens -> Tokens]
    BY DEF IInv, PortalLogin, TypeOK
<1>2. /\ Read \in Txn /\ Read.mails = FALSE /\ Read.loaded.must = account.must
      /\ Read.assigned.must = account.must /\ Read.sets = "none"
      /\ Read.revokes = {} /\ Read.issues = {} /\ yes \in BOOLEAN
    BY <1>1, ReadType
<1>3. /\ t \in Txn /\ t.loaded = Read.loaded /\ t.assigned = Read.assigned
      /\ t.sets = Read.sets /\ t.mails = Read.mails
      /\ t.revokes = Read.revokes /\ t.issues = Read.issues
  <2>. HIDE DEF yes
  <2>. QED
    BY <1>2 DEF Txn
<1>. HIDE DEF t
<1>4. FlagInv(t) /\ MailInv(r, t) /\ TokenInv(r, t)
    BY <1>2, <1>3 DEF FlagInv, MailInv, TokenInv
<1>. QED
    BY <1>1, <1>2, <1>3, <1>4, BeginStep

\* The requests of the sessions.
LEMMA SessionBegins ==
    ASSUME IInv, NEW r \in Requests, NEW revokes \in SUBSET Tokens, NEW issues \in SUBSET Tokens,
           SessionStep(r, revokes, issues), hash' \in [Tokens -> Tokens],
           \A x \in revokes : token[x] # "none",
           issues = {} \/ \E y \in Tokens : issues = {y},
           issues # {} /\ revokes = {} =>
              /\ \A x \in Tokens : token[x] = "none"
              /\ \A o \in Requests \ {r} : txn[o] # NoTxn => txn[o].issues = {},
           issues # {} => \A o \in Requests :
                              txn[o] # NoTxn /\ txn[o].issues # {} => txn[o].revokes # {}
    PROVE  IInv'
<1>. DEFINE yes == TRUE
            t == [Read EXCEPT !.flushed = yes, !.revokes = revokes, !.issues = issues]
<1>1. TypeOK /\ Begin(r, t)
    BY DEF IInv, SessionStep
<1>2. /\ Read \in Txn /\ Read.mails = FALSE /\ Read.loaded.must = account.must
      /\ Read.assigned.must = account.must /\ Read.sets = "none" /\ yes \in BOOLEAN
    BY <1>1, ReadType
<1>3. /\ t \in Txn /\ t.loaded = Read.loaded /\ t.assigned = Read.assigned
      /\ t.sets = Read.sets /\ t.mails = Read.mails
      /\ t.revokes = revokes /\ t.issues = issues
  <2>. HIDE DEF yes
  <2>. QED
    BY <1>2 DEF Txn
<1>. HIDE DEF t
<1>4. FlagInv(t) /\ MailInv(r, t) /\ TokenInv(r, t)
  <2>1. FlagInv(t) /\ MailInv(r, t)
    BY <1>2, <1>3 DEF FlagInv, MailInv
  <2>2. TokenInv(r, t)
    BY <1>3 DEF TokenInv
  <2>. QED
    BY <2>1, <2>2
<1>5. t.issues # {} => \A o \in Requests :
                            txn[o] # NoTxn /\ txn[o].issues # {} => txn[o].revokes # {}
    BY <1>3
<1>. QED
    BY <1>1, <1>3, <1>4, <1>5, BeginStep


LEMMA UnusedTokens ==
    ASSUME IInv
    PROVE  /\ Unused \subseteq Tokens
           /\ Unused # {} => Min(Unused) \in Tokens
           /\ Min(Tokens) \in Tokens
           /\ Unused = Tokens =>
                 /\ \A x \in Tokens : token[x] = "none"
                 /\ \A o \in Requests : txn[o] # NoTxn => txn[o].issues = {}
<1>1. Unused \subseteq Tokens
    BY DEF Unused
<1>2. Tokens \subseteq Int /\ IsFiniteSet(Tokens) /\ Tokens # {}
    BY TokensAssumption
<1>3. Min(Tokens) \in Tokens
    BY <1>2, MinIsSmallest
<1>4. ASSUME Unused # {} PROVE Min(Unused) \in Tokens
  <2>1. IsFiniteSet(Unused) /\ Unused \subseteq Int
    BY <1>1, <1>2, FS_Subset
  <2>2. Min(Unused) \in Unused
    BY <1>4, <2>1, MinIsSmallest
  <2>. QED
    BY <1>1, <2>2
<1>5. ASSUME Unused = Tokens
      PROVE  /\ \A x \in Tokens : token[x] = "none"
             /\ \A o \in Requests : txn[o] # NoTxn => txn[o].issues = {}
  <2>1. \A x \in Tokens : /\ token[x] = "none"
                          /\ x \notin UNION {txn[r].issues : r \in {y \in Requests :
                             txn[y] # NoTxn}}
    BY <1>5 DEF Unused
  <2>2. ASSUME NEW o \in Requests, txn[o] # NoTxn PROVE txn[o].issues = {}
    <3>1. txn[o].issues \subseteq Tokens
        BY <2>2, TxnRow DEF IInv, TypeOK
    <3>2. txn[o].issues \subseteq
             UNION {txn[r].issues : r \in {y \in Requests : txn[y] # NoTxn}}
        BY <2>2
    <3>. QED
        BY <2>1, <3>1, <3>2
  <2>. QED
    BY <2>1, <2>2
<1>. QED
    BY <1>1, <1>3, <1>4, <1>5

LEMMA NewHashType ==
    ASSUME IInv, NEW x \in Tokens, NEW same \in BOOLEAN, NewHash(x, same)
    PROVE  hash' \in [Tokens -> Tokens]
<1>. DEFINE made == Tokens \ Unused
<1>1. hash \in [Tokens -> Tokens]
    BY DEF IInv, TypeOK
<1>2. made # {} => Max(made) \in Tokens
  <2>. IsFiniteSet(Tokens) /\ Tokens \subseteq Int
    BY TokensAssumption
  <2>1. made \subseteq Tokens /\ made \subseteq Int /\ IsFiniteSet(made)
    BY FS_Subset
  <2>. HIDE DEF made
  <2>2. made # {} => Max(made) \in made
    BY <2>1, MaxIsLargest
  <2>. QED
    BY <2>1, <2>2
<1>3. hash' = [hash EXCEPT ![x] = IF same /\ made # {} THEN hash[Max(made)] ELSE x]
    BY DEF NewHash
<1>. HIDE DEF made
<1>. QED
    BY <1>1, <1>2, <1>3

LEMMA LoginStep ==
    ASSUME IInv, NEW r \in Requests, Login(r)
    PROVE  IInv'
<1>. DEFINE first == Min(Tokens)
<1>1. /\ Unused = Tokens /\ SessionStep(r, {}, {first}) /\ NewHash(first, FALSE)
    BY DEF Login
<1>2. /\ first \in Tokens
      /\ \A x \in Tokens : token[x] = "none"
      /\ \A o \in Requests : txn[o] # NoTxn => txn[o].issues = {}
    BY <1>1, UnusedTokens
<1>. HIDE DEF first
<1>3. hash' \in [Tokens -> Tokens]
    BY <1>1, <1>2, NewHashType
<1>. QED
    BY <1>1, <1>2, <1>3, SessionBegins

LEMMA RefreshStep ==
    ASSUME IInv, NEW r \in Requests, NEW x \in Tokens, NEW same \in BOOLEAN, Refresh(r, x, same)
    PROVE  IInv'
<1>. DEFINE new == Min(Unused)
<1>1. /\ Live(x) = {x} /\ SessionStep(r, {x}, {new}) /\ NewHash(new, same)
      /\ Unused # {}
    BY DEF Refresh
<1>2. new \in Tokens /\ token[x] = "live"
    BY <1>1, UnusedTokens DEF Live
<1>3. ASSUME NEW o \in Requests, txn[o] # NoTxn, txn[o].issues # {}
      PROVE  txn[o].revokes # {}
    BY <1>2, <1>3 DEF IInv, TxnInv, TokenInv
<1>. HIDE DEF new
<1>4. hash' \in [Tokens -> Tokens]
    BY <1>1, <1>2, NewHashType
<1>5. {x} \in SUBSET Tokens /\ {new} \in SUBSET Tokens /\ {x} # {}
    BY <1>2
<1>6. /\ \A y \in {x} : token[y] # "none"
      /\ {new} = {} \/ \E y \in Tokens : {new} = {y}
    BY <1>2
<1>. QED
    BY <1>1, <1>3, <1>4, <1>5, <1>6, SessionBegins

LEMMA LogoutStep ==
    ASSUME IInv, NEW r \in Requests, NEW x \in Tokens, Logout(r, x)
    PROVE  IInv'
<1>1. SessionStep(r, Live(x), {}) /\ hash' = hash
    BY DEF Logout
<1>2. Live(x) \in SUBSET Tokens /\ \A y \in Live(x) : token[y] # "none"
    BY DEF Live, SameHash
<1>3. hash' \in [Tokens -> Tokens]
    BY <1>1 DEF IInv, TypeOK
<1>. QED
    BY <1>1, <1>2, <1>3, SessionBegins

\* The endpoints that read and then write.
LEMMA WorkSteps ==
    ASSUME IInv, NEW r \in Requests,
           UserStep(r) \/ AuthStep(r) \/ PortalStep(r) \/ CreateTenantAdmin(r)
    PROVE  IInv'
<1>1. CASE UserStep(r)
    BY <1>1, InsertStep, SetGivenStep, SetActiveStep
       DEF UserStep, CreateUser, ResetUserPassword, UpdateUser, DeactivateUser, Exists
<1>2. CASE AuthStep(r)
    BY <1>2, InsertStep, SetOwnStep, LoginStep, LogoutStep, RefreshStep
       DEF AuthStep, RegisterAccount, ChangePassword
<1>3. CASE PortalStep(r)
    BY <1>3, InsertStep, SetOwnStep, SetGivenStep, SetActiveStep, PortalLoginStep
       DEF PortalStep, CreatePortalUser, PortalChangePassword, ResetPortalUserPassword,
           UpdatePortalUser, Exists
<1>4. CASE CreateTenantAdmin(r)
    BY <1>4, InsertStep DEF CreateTenantAdmin
<1>. QED
    BY <1>1, <1>2, <1>3, <1>4


\* Past the UPDATE a request is the only one that holds the row, hence the only
\* one that has mailed and not yet committed.
LEMMA FlushStep ==
    ASSUME IInv, NEW r \in Requests, NEW fails \in BOOLEAN, Flush(r, fails)
    PROVE  IInv'
<1>. DEFINE yes == TRUE
            t == txn[r]
            u == [t EXCEPT !.flushed = yes, !.unsent = fails]
<1>1. /\ t # NoTxn /\ \A other \in Requests : ~Holds(other)
      /\ txn' = [txn EXCEPT ![r] = u] /\ told' = IF t.mails /\ ~fails THEN r ELSE told
      /\ UNCHANGED <<kind, account, token, hash, tenant, unsent, crossed, raced>>
    BY DEF Flush
<1>2. t \in Txn /\ FlagInv(t) /\ MailInv(r, t) /\ TokenInv(r, t)
    BY <1>1 DEF IInv, TypeOK, TxnInv
<1>3. /\ u \in Txn /\ u.loaded = t.loaded /\ u.assigned = t.assigned /\ u.sets = t.sets
      /\ u.late = t.late /\ u.touches = t.touches /\ u.mails = t.mails
      /\ u.unsent = fails /\ u.revokes = t.revokes /\ u.issues = t.issues
  <2>1. yes \in BOOLEAN
    OBVIOUS
  <2>. HIDE DEF yes, t
  <2>. QED
    BY <1>2, <2>1 DEF Txn
<1>. HIDE DEF t, u
<1>4. txn'[r] = u /\ \A q \in Requests \ {r} : txn'[q] = txn[q]
    BY <1>1 DEF IInv, TypeOK
<1>5. t = txn[r]
    BY DEF t
<1>6. r # "nowhere" /\ r # "replaced"
    BY RequestsAssumption
<1>7. TypeOK'
  <2>1. txn' \in [Requests -> Txn \union {NoTxn}]
    BY <1>1, <1>3 DEF IInv, TypeOK
  <2>2. told' \in Told
    BY <1>1 DEF IInv, TypeOK, Told
  <2>. QED
    BY <1>1, <2>1, <2>2 DEF IInv, TypeOK
<1>8. TxnInv(r)'
  <2>1. FlagInv(txn[r])'
    BY <1>1, <1>2, <1>3, <1>4 DEF FlagInv, Writes
  <2>2. MailInv(r, txn[r])'
    BY <1>1, <1>2, <1>3, <1>4 DEF MailInv
  <2>3. TokenInv(r, txn[r])'
    BY <1>1, <1>2, <1>3, <1>4 DEF TokenInv
  <2>. QED
    BY <2>1, <2>2, <2>3 DEF TxnInv
<1>9. ASSUME NEW q \in Requests \ {r}, txn[q] # NoTxn PROVE TxnInv(q)'
  <2>1. FlagInv(txn[q]) /\ MailInv(q, txn[q]) /\ TokenInv(q, txn[q])
    BY <1>9 DEF IInv, TxnInv
  <2>2. FlagInv(txn[q])'
    BY <1>1, <1>4, <2>1 DEF FlagInv, Writes
  <2>3. ~(txn[q].mails /\ txn[q].flushed)
    BY <1>1, <1>9, <2>1 DEF MailInv, Holds, Writes
  <2>4. MailInv(q, txn[q])'
    BY <1>1, <1>4, <2>1, <2>3 DEF MailInv
  <2>5. TokenInv(q, txn[q])'
    BY <1>1, <1>3, <1>4, <1>5, <2>1 DEF TokenInv
  <2>. QED
    BY <2>2, <2>4, <2>5 DEF TxnInv
<1>10. ASSUME NEW q \in Requests \ {r}, txn[q] = NoTxn PROVE TxnInv(q)'
    BY <1>4, <1>10 DEF TxnInv
<1>11. GivenMustChange' /\ OneLive'
    BY <1>1 DEF IInv, GivenMustChange, OneLive
<1>12. MailedOpens' /\ (kind' = "portal" => told' = "nowhere")
    BY <1>1, <1>2, <1>6 DEF IInv, MailedOpens, MailInv
<1>. QED
    BY <1>7, <1>8, <1>9, <1>10, <1>11, <1>12 DEF IInv

\* The commit is where password, flag and tokens change; every other request that
\* has read another password and will write is late from now on.
LEMMA CommitStep ==
    ASSUME IInv, NEW r \in Requests, Commit(r)
    PROVE  IInv'
<1>. DEFINE t == txn[r]
            sets == t.sets # "none"
<1>1. /\ t # NoTxn /\ t.flushed
      /\ account' = [password |-> IF sets THEN t.sets ELSE account.password,
                     must |-> Flushed(t.loaded.must, t.assigned.must, account.must),
                     active |-> Flushed(t.loaded.active, t.assigned.active, account.active)]
      /\ UNCHANGED <<kind, hash, tenant>>
    BY DEF Commit
<1>2. /\ token' = [x \in Tokens |->
              IF x \in t.revokes THEN "revoked" ELSE IF x \in t.issues THEN "live" ELSE token[x]]
      /\ told' = IF ~sets THEN told
                 ELSE IF told = r THEN "stored"
                 ELSE IF told = "stored" THEN "replaced" ELSE told
      /\ unsent' = IF sets THEN t.unsent ELSE unsent
      /\ crossed' = (crossed \/ (sets /\ t.late))
      /\ raced' = (raced \/ \E x \in t.revokes : token[x] # "live")
    BY <1>1 DEF Commit
<1>3. txn' = [o \in Requests |->
          IF o = r THEN NoTxn
          ELSE IF txn[o] # NoTxn /\ sets THEN [txn[o] EXCEPT !.late = @ \/ Writes(txn[o])]
          ELSE txn[o]]
    BY <1>1 DEF Commit
<1>4. TypeOK /\ t \in Txn /\ FlagInv(t) /\ MailInv(r, t) /\ TokenInv(r, t)
    BY <1>1 DEF IInv, TypeOK, TxnInv
<1>5. /\ t.loaded.must \in BOOLEAN /\ t.assigned.must \in BOOLEAN /\ t.sets \in Password
      /\ t.loaded.active \in BOOLEAN /\ t.assigned.active \in BOOLEAN /\ t.late \in BOOLEAN
      /\ t.unsent \in BOOLEAN
      /\ t.revokes \subseteq Tokens /\ t.issues \subseteq Tokens
    BY <1>4, TxnRow
<1>. HIDE DEF t
<1>6. /\ account'.password = IF sets THEN t.sets ELSE account.password
      /\ account'.must = Flushed(t.loaded.must, t.assigned.must, account.must)
    BY <1>1
<1>7. ASSUME NEW q \in Requests \ {r}, txn[q] # NoTxn
      PROVE  /\ txn[q] \in Txn /\ txn'[q] \in Txn
             /\ txn'[q].loaded = txn[q].loaded /\ txn'[q].assigned = txn[q].assigned
             /\ txn'[q].sets = txn[q].sets /\ txn'[q].mails = txn[q].mails
             /\ txn'[q].flushed = txn[q].flushed /\ txn'[q].unsent = txn[q].unsent
             /\ txn'[q].touches = txn[q].touches
             /\ txn'[q].revokes = txn[q].revokes /\ txn'[q].issues = txn[q].issues
             /\ sets /\ Writes(txn[q]) => txn'[q].late
             /\ ~txn'[q].late => ~txn[q].late
  <2>. DEFINE late == txn[q].late \/ Writes(txn[q])
  <2>1. txn[q] \in Txn
    BY <1>4, <1>7 DEF TypeOK
  <2>2. late \in BOOLEAN /\ (Writes(txn[q]) => late) /\ (txn[q].late => late)
    OBVIOUS
  <2>3. txn'[q] = IF sets THEN [txn[q] EXCEPT !.late = late] ELSE txn[q]
    BY <1>3, <1>7
  <2>. HIDE DEF late, sets
  <2>. QED
    BY <2>1, <2>2, <2>3 DEF Txn
<1>8. /\ txn'[r] = NoTxn
      /\ \A q \in Requests \ {r} : txn[q] = NoTxn => txn'[q] = NoTxn
    BY <1>3
<1>9. TypeOK'
  <2>1. account' \in [password : Password, must : BOOLEAN, active : BOOLEAN]
    <3>1. /\ (IF sets THEN t.sets ELSE account.password) \in Password
          /\ Flushed(t.loaded.must, t.assigned.must, account.must) \in BOOLEAN
          /\ Flushed(t.loaded.active, t.assigned.active, account.active) \in BOOLEAN
        BY <1>4, <1>5, AccountRow DEF Flushed
    <3>. QED
        BY <1>1, <3>1
  <2>2. token' \in [Tokens -> Token]
    BY <1>2, <1>4 DEF TypeOK, Token
  <2>3. txn' \in [Requests -> Txn \union {NoTxn}]
    <3>1. \A q \in Requests : txn'[q] \in Txn \union {NoTxn}
        BY <1>7, <1>8
    <3>. QED
        BY <1>3, <3>1
  <2>4. told' \in Told
    BY <1>2, <1>4 DEF TypeOK, Told
  <2>5. unsent' \in BOOLEAN /\ crossed' \in BOOLEAN /\ raced' \in BOOLEAN
    BY <1>2, <1>4, <1>5 DEF TypeOK
  <2>. QED
    BY <1>1, <1>4, <2>1, <2>2, <2>3, <2>4, <2>5 DEF TypeOK
<1>10. ASSUME NEW q \in Requests \ {r}, txn[q] # NoTxn PROVE TxnInv(q)'
  <2>1. FlagInv(txn[q]) /\ MailInv(q, txn[q]) /\ TokenInv(q, txn[q])
    BY <1>10 DEF IInv, TxnInv
  <2>2. FlagInv(txn[q])'
    <3>1. Writes(txn'[q]) <=> Writes(txn[q])
        BY <1>7, <1>10 DEF Writes
    <3>2. ~sets => account'.must = account.must
        BY <1>4, <1>6 DEF FlagInv, Flushed
    <3>3. Writes(txn'[q]) /\ ~txn'[q].late => txn[q].loaded.must = account'.must
        BY <1>7, <1>10, <2>1, <3>1, <3>2 DEF FlagInv
    <3>4. Writes(txn[q])' <=> Writes(txn'[q])
        BY DEF Writes
    <3>. QED
        BY <1>7, <1>10, <2>1, <3>3, <3>4 DEF FlagInv
  <2>3. MailInv(q, txn[q])'
    <3>1. q # "stored" /\ q # r
        BY RequestsAssumption
    <3>2. told = q => told' = q
        BY <1>2, <3>1
    <3>. QED
        BY <1>1, <1>7, <1>10, <2>1, <3>2 DEF MailInv
  <2>4. TokenInv(q, txn[q])'
    <3>1. \A x \in Tokens : token[x] # "none" => token'[x] # "none"
        BY <1>2
    <3>2. txn[q].revokes \subseteq Tokens
        BY <1>7, <1>10, TxnRow
    <3>3. ASSUME txn[q].issues # {}, txn[q].revokes = {}
          PROVE  /\ \A x \in Tokens : token'[x] = "none"
                 /\ \A o \in Requests \ {q} : txn'[o] # NoTxn => txn'[o].issues = {}
      <4>1. /\ \A x \in Tokens : token[x] = "none"
            /\ \A o \in Requests \ {q} : txn[o] # NoTxn => txn[o].issues = {}
        BY <2>1, <3>3 DEF TokenInv
      <4>2. t.issues = {} /\ t.revokes = {}
        BY <1>1, <1>4, <1>5, <4>1 DEF TokenInv, t
      <4>3. \A o \in Requests \ {q} : txn'[o] # NoTxn => txn'[o].issues = {}
        BY <1>7, <1>8, <4>1
      <4>. QED
        BY <1>2, <4>1, <4>2, <4>3
    <3>. QED
        BY <1>7, <1>10, <2>1, <3>1, <3>2, <3>3 DEF TokenInv
  <2>. QED
    BY <2>2, <2>3, <2>4 DEF TxnInv
<1>11. ASSUME NEW q \in Requests, q = r \/ txn[q] = NoTxn PROVE TxnInv(q)'
    BY <1>8, <1>11 DEF TxnInv
<1>12. GivenMustChange'
  <2>1. CASE sets
    <3>1. ~crossed' => t.loaded.must = account.must
        BY <1>2, <1>4, <2>1 DEF FlagInv, Writes
    <3>2. ~crossed' => account'.must = t.assigned.must
        BY <1>6, <3>1 DEF Flushed
    <3>3. t.sets \in {"own", "given"} /\ account'.password = t.sets
        BY <1>5, <1>6, <2>1 DEF Password
    <3>4. t.assigned.must <=> t.sets = "given"
        BY <1>4, <3>3 DEF FlagInv
    <3>. QED
        BY <3>2, <3>3, <3>4 DEF GivenMustChange
  <2>2. CASE ~sets
    <3>1. account'.must = account.must /\ account'.password = account.password
        BY <1>4, <1>6, <2>2 DEF FlagInv, Flushed
    <3>. QED
        BY <1>2, <3>1 DEF IInv, GivenMustChange
  <2>. QED
    BY <2>1, <2>2
<1>13. kind' = "portal" => told' = "nowhere"
  <2>1. "nowhere" # r
    BY RequestsAssumption
  <2>. QED
    BY <1>1, <1>2, <2>1 DEF IInv
<1>14. MailedOpens'
  <2>1. CASE sets /\ t.sets = "given" /\ kind # "portal"
    <3>1. t.unsent \/ told = r
        BY <1>1, <1>4, <2>1 DEF MailInv
    <3>. QED
        BY <1>2, <2>1, <3>1 DEF MailedOpens
  <2>2. CASE sets /\ t.sets # "given"
    BY <1>6, <2>2 DEF MailedOpens
  <2>3. CASE ~sets
    BY <1>2, <1>6, <2>3 DEF IInv, MailedOpens
  <2>4. CASE kind = "portal"
    BY <1>1, <1>13, <2>4 DEF MailedOpens
  <2>. QED
    BY <2>1, <2>2, <2>3, <2>4
<1>15. OneLive'
  <2>1. SUFFICES ASSUME ~raced', NEW x \in Tokens, NEW y \in Tokens,
                        token'[x] = "live", token'[y] = "live"
                 PROVE  x = y
    BY DEF OneLive
  <2>2. /\ \A z \in t.revokes : token[z] = "live"
        /\ \A z, w \in Tokens : token[z] = "live" /\ token[w] = "live" => z = w
    BY <1>2, <2>1 DEF IInv, OneLive
  <2>3. \A z \in {x, y} : z \notin t.revokes /\ (z \in t.issues \/ token[z] = "live")
    BY <1>2, <2>1
  <2>4. CASE t.issues = {}
    BY <2>2, <2>3, <2>4
  <2>5. CASE t.issues # {} /\ t.revokes = {}
    <3>1. \A z \in Tokens : token[z] = "none"
        BY <1>4, <2>5 DEF TokenInv
    <3>2. PICK n \in Tokens : t.issues = {n}
        BY <1>4, <2>5 DEF TokenInv
    <3>. QED
        BY <2>3, <3>1, <3>2
  <2>6. CASE t.issues # {} /\ t.revokes # {}
    <3>1. PICK n \in Tokens : t.issues = {n}
        BY <1>4, <2>6 DEF TokenInv
    <3>2. PICK o \in t.revokes : o \in Tokens /\ token[o] = "live"
        BY <1>5, <2>2, <2>6
    <3>3. \A z \in {x, y} : z \in t.issues
        BY <2>2, <2>3, <3>2
    <3>. QED
        BY <3>1, <3>3
  <2>. QED
    BY <2>4, <2>5, <2>6
<1>. QED
    BY <1>9, <1>10, <1>11, <1>12, <1>13, <1>14, <1>15 DEF IInv


\* A rollback, the tenant's suspension, or nothing at all.
LEMMA RestStep ==
    ASSUME IInv, (\E r \in Requests : Rollback(r)) \/ TenantStep \/ UNCHANGED vars
    PROVE  IInv'
<1>1. UNCHANGED <<kind, account, token, unsent, crossed, raced>>
    BY DEF Rollback, TenantStep, Suspend, Activate, vars
<1>2. \/ \E r \in Requests :
            /\ txn' = [txn EXCEPT ![r] = NoTxn]
            /\ told' = IF told = r THEN "nowhere" ELSE told
      \/ txn' = txn /\ told' = told
    BY DEF Rollback, TenantStep, Suspend, Activate, vars
<1>3. /\ \A q \in Requests : txn'[q] = NoTxn \/ (txn'[q] = txn[q] /\ (told = q => told' = q))
      /\ told' \in {"nowhere", told}
      /\ txn' \in [Requests -> Txn \union {NoTxn}]
    BY <1>2 DEF IInv, TypeOK
<1>4. hash' \in [Tokens -> Tokens] /\ tenant' \in BOOLEAN
  <2>1. CASE \E r \in Requests : Rollback(r)
    BY <2>1 DEF IInv, TypeOK, Rollback
  <2>2. CASE TenantStep \/ UNCHANGED vars
    BY <2>2 DEF IInv, TypeOK, TenantStep, Suspend, Activate, vars
  <2>. QED
    BY <2>1, <2>2
<1>5. TypeOK'
    BY <1>1, <1>3, <1>4 DEF IInv, TypeOK, Told
<1>6. ASSUME NEW q \in Requests, txn'[q] # NoTxn PROVE TxnInv(q)'
  <2>1. /\ txn'[q] = txn[q] /\ (told = q => told' = q)
        /\ FlagInv(txn[q]) /\ MailInv(q, txn[q]) /\ TokenInv(q, txn[q])
    BY <1>3, <1>6 DEF IInv, TxnInv
  <2>2. FlagInv(txn[q])' /\ MailInv(q, txn[q])'
    BY <1>1, <2>1 DEF FlagInv, MailInv, Writes
  <2>3. TokenInv(q, txn[q])'
    BY <1>1, <1>3, <2>1 DEF TokenInv
  <2>. QED
    BY <2>2, <2>3 DEF TxnInv
<1>7. ASSUME NEW q \in Requests, txn'[q] = NoTxn PROVE TxnInv(q)'
    BY <1>7 DEF TxnInv
<1>8. GivenMustChange' /\ MailedOpens' /\ OneLive' /\ (kind' = "portal" => told' = "nowhere")
    BY <1>1, <1>3 DEF IInv, GivenMustChange, MailedOpens, OneLive
<1>. QED
    BY <1>5, <1>6, <1>7, <1>8 DEF IInv

LEMMA Inductive == Spec => []IInv
<1>1. IInv /\ [Next]_vars => IInv'
  <2>. SUFFICES ASSUME IInv, [Next]_vars PROVE IInv'
    OBVIOUS
  <2>1. \/ \E r \in Requests :
              UserStep(r) \/ AuthStep(r) \/ PortalStep(r) \/ CreateTenantAdmin(r)
        \/ \E r \in Requests, fails \in BOOLEAN : Flush(r, fails)
        \/ \E r \in Requests : Commit(r)
        \/ (\E r \in Requests : Rollback(r)) \/ TenantStep \/ UNCHANGED vars
    BY DEF Next
  <2>. QED
    BY <2>1, WorkSteps, FlushStep, CommitStep, RestStep, Zenon
<1>. QED
    BY <1>1, InitIInv, PTL DEF Spec

\* The rows, requests and history of an account have their types.
THEOREM TypeCorrect == Spec => []TypeOK
<1>1. IInv => TypeOK
    BY DEF IInv
<1>. QED
    BY <1>1, Inductive, PTL

\* However many requests overlap: until one sets a password having read another,
\* the flag tells whether the password was given (change_password,
\* reset_user_password).
THEOREM GivenPasswordMustChange == Spec => []GivenMustChange
<1>1. IInv => GivenMustChange
    BY DEF IInv
<1>. QED
    BY <1>1, Inductive, PTL

\* However many resets overlap, commit or fail: while the stored password is one
\* that was given and its mail did not fail, the last mail to arrive does not hold
\* a replaced one, since whoever mails holds the row (reset_user_password,
\* create_user).
THEOREM LastMailOpens == Spec => []MailedOpens
<1>1. IInv => MailedOpens
    BY DEF IInv
<1>. QED
    BY <1>1, Inductive, PTL

\* However often a token is renewed, and however many requests do so: until two
\* revoke the same one, at most one is live (refresh, logout).
THEOREM OneTokenLives == Spec => []OneLiveToken
<1>1. ASSUME IInv PROVE OneLiveToken
  <2>. DEFINE live == {x \in Tokens : token[x] = "live"}
  <2>1. CASE raced
    BY <2>1 DEF OneLiveToken
  <2>2. CASE live = {}
    <3>1. Cardinality(live) <= 1
        BY <2>2, FS_EmptySet
    <3>. QED
        BY <3>1 DEF OneLiveToken
  <2>3. CASE ~raced /\ live # {}
    <3>1. PICK x \in live : live = {x}
        BY <1>1, <2>3 DEF IInv, OneLive
    <3>2. Cardinality(live) <= 1
        BY <3>1, FS_Singleton
    <3>. QED
        BY <3>2 DEF OneLiveToken
  <2>. QED
    BY <2>1, <2>2, <2>3
<1>. QED
    BY <1>1, Inductive, PTL

(* Accounts, one request at a time.  The exceptions of its properties are   *)
(* overlaps of requests and nothing else.                                   *)
OneClient == \A q, r \in Requests : q = r

\* The password a request has read is still the one stored, and the tokens it
\* revokes can still be used.
UpToDate(t) == ~t.late /\ \A x \in t.revokes : token[x] = "live"

AloneInv ==
    /\ \A r \in Requests : txn[r] # NoTxn => UpToDate(txn[r])
    /\ ~crossed /\ ~raced

LEMMA AloneBegin ==
    ASSUME OneClient, IInv, AloneInv, NEW r \in Requests, NEW t, Begin(r, t), UpToDate(t)
    PROVE  AloneInv'
<1>1. txn'[r] = t /\ \A q \in Requests : q = r
    BY DEF Begin, OneClient, IInv, TypeOK
<1>2. token' = token /\ ~crossed' /\ ~raced'
    BY DEF Begin, AloneInv
<1>3. UpToDate(t)'
    BY <1>2 DEF UpToDate
<1>. QED
    BY <1>1, <1>2, <1>3 DEF AloneInv

\* A handler that revokes nothing.
LEMMA AloneRow ==
    ASSUME OneClient, IInv, AloneInv, NEW r \in Requests, NEW a, NEW c, NEW p, NEW m, NEW b,
           \/ Begin(r, [Read EXCEPT !.assigned = a, !.creates = c, !.sets = p, !.mails = m])
           \/ Begin(r, [Read EXCEPT !.assigned.must = b, !.sets = p])
           \/ Begin(r, [Read EXCEPT !.assigned.must = b, !.sets = p, !.mails = m])
           \/ Begin(r, [Read EXCEPT !.assigned.active = b])
           \/ Begin(r, [Read EXCEPT !.touches = b])
    PROVE  AloneInv'
<1>. DEFINE u == Read
<1>1. u \in Txn /\ ~u.late /\ u.revokes = {}
    BY ReadType DEF IInv
<1>2. PICK t : /\ Begin(r, t)
               /\ \/ t = [u EXCEPT !.assigned = a, !.creates = c, !.sets = p, !.mails = m]
                  \/ t = [u EXCEPT !.assigned.must = b, !.sets = p]
                  \/ t = [u EXCEPT !.assigned.must = b, !.sets = p, !.mails = m]
                  \/ t = [u EXCEPT !.assigned.active = b]
                  \/ t = [u EXCEPT !.touches = b]
    OBVIOUS
<1>. HIDE DEF u
<1>3. t.late = u.late /\ t.revokes = u.revokes
    BY <1>1, <1>2 DEF Txn
<1>4. UpToDate(t)
    BY <1>1, <1>3 DEF UpToDate
<1>. QED
    BY <1>2, <1>4, AloneBegin

LEMMA AloneSession ==
    ASSUME OneClient, IInv, AloneInv, NEW r \in Requests, NEW revokes, NEW issues,
           SessionStep(r, revokes, issues), \A x \in revokes : token[x] = "live"
    PROVE  AloneInv'
<1>. DEFINE u == Read
            yes == TRUE
            t == [u EXCEPT !.flushed = yes, !.revokes = revokes, !.issues = issues]
<1>1. u \in Txn /\ ~u.late
    BY ReadType DEF IInv
<1>2. Begin(r, t)
    BY DEF SessionStep
<1>. HIDE DEF u, yes
<1>3. t.late = u.late /\ t.revokes = revokes
    BY <1>1 DEF Txn
<1>. HIDE DEF t
<1>4. UpToDate(t)
    BY <1>1, <1>3 DEF UpToDate
<1>. QED
    BY <1>2, <1>4, AloneBegin

LEMMA AloneWork ==
    ASSUME OneClient, IInv, AloneInv, NEW r \in Requests,
           UserStep(r) \/ AuthStep(r) \/ PortalStep(r) \/ CreateTenantAdmin(r)
    PROVE  AloneInv'
<1>1. ASSUME NEW p, NEW m, Insert(r, p, m) PROVE AloneInv'
    BY <1>1, AloneRow DEF Insert
<1>2. ASSUME SetOwn(r) PROVE AloneInv'
    BY <1>2, AloneRow DEF SetOwn
<1>3. ASSUME NEW m, SetGiven(r, m) PROVE AloneInv'
    BY <1>3, AloneRow DEF SetGiven
<1>4. ASSUME NEW b, SetActive(r, b) PROVE AloneInv'
    BY <1>4, AloneRow DEF SetActive
<1>5. ASSUME PortalLogin(r) PROVE AloneInv'
    BY <1>5, AloneRow DEF PortalLogin
<1>6. ASSUME Login(r) PROVE AloneInv'
    BY <1>6, AloneSession DEF Login
<1>7. ASSUME NEW x \in Tokens, NEW same \in BOOLEAN, Refresh(r, x, same) PROVE AloneInv'
  <2>1. \A y \in {x} : token[y] = "live"
    BY <1>7 DEF Refresh, Live
  <2>. QED
    BY <1>7, <2>1, AloneSession DEF Refresh
<1>8. ASSUME NEW x \in Tokens, Logout(r, x) PROVE AloneInv'
  <2>1. \A y \in Live(x) : token[y] = "live"
    BY DEF Live
  <2>. QED
    BY <1>8, <2>1, AloneSession DEF Logout
<1>9. CASE UserStep(r)
    BY <1>1, <1>3, <1>4, <1>9 DEF UserStep, CreateUser, ResetUserPassword, UpdateUser,
       DeactivateUser
<1>10. CASE AuthStep(r)
    BY <1>1, <1>2, <1>6, <1>7, <1>8, <1>10 DEF AuthStep, RegisterAccount, ChangePassword
<1>11. CASE PortalStep(r)
    BY <1>1, <1>2, <1>3, <1>4, <1>5, <1>11
       DEF PortalStep, CreatePortalUser, PortalChangePassword, ResetPortalUserPassword,
           UpdatePortalUser
<1>12. CASE CreateTenantAdmin(r)
    BY <1>1, <1>12 DEF CreateTenantAdmin
<1>. QED
    BY <1>9, <1>10, <1>11, <1>12

LEMMA AloneStep ==
    ASSUME OneClient, IInv, AloneInv, [Next]_vars
    PROVE  AloneInv'
<1>1. ASSUME NEW r \in Requests, NEW fails \in BOOLEAN, Flush(r, fails) PROVE AloneInv'
  <2>1. PICK t : t = txn[r]
    OBVIOUS
  <2>2. t \in Txn /\ ~t.late /\ \A x \in t.revokes : token[x] = "live"
    BY <1>1, <2>1 DEF Flush, AloneInv, UpToDate, IInv, TypeOK
  <2>. DEFINE yes == TRUE
              s == [t EXCEPT !.flushed = yes, !.unsent = fails]
  <2>3. txn' = [txn EXCEPT ![r] = s]
    BY <1>1, <2>1 DEF Flush
  <2>. HIDE DEF yes
  <2>4. s.late = t.late /\ s.revokes = t.revokes
    BY <2>2 DEF Txn
  <2>. HIDE DEF s
  <2>5. \A q \in Requests : txn'[q] = s
    BY <2>3 DEF OneClient, IInv, TypeOK
  <2>6. token' = token /\ ~crossed' /\ ~raced'
    BY <1>1 DEF Flush, AloneInv
  <2>. QED
    BY <2>2, <2>4, <2>5, <2>6 DEF AloneInv, UpToDate
<1>2. ASSUME NEW r \in Requests, Commit(r) PROVE AloneInv'
  <2>1. txn[r] # NoTxn /\ UpToDate(txn[r]) /\ ~crossed /\ ~raced
    BY <1>2 DEF Commit, AloneInv
  <2>2. \A q \in Requests : txn'[q] = NoTxn
    BY <1>2 DEF Commit, OneClient
  <2>3. ~crossed'
    BY <1>2, <2>1 DEF Commit, UpToDate
  <2>4. ~raced'
    BY <1>2, <2>1 DEF Commit, UpToDate
  <2>. QED
    BY <2>2, <2>3, <2>4 DEF AloneInv
<1>3. ASSUME NEW r \in Requests, Rollback(r) PROVE AloneInv'
  <2>1. \A q \in Requests : txn'[q] = NoTxn
    BY <1>3 DEF Rollback, OneClient, IInv, TypeOK
  <2>. QED
    BY <1>3, <2>1 DEF Rollback, AloneInv
<1>4. CASE TenantStep \/ UNCHANGED vars
  <2>1. UNCHANGED <<token, txn, crossed, raced>>
    BY <1>4 DEF TenantStep, Suspend, Activate, vars
  <2>. QED
    BY <2>1 DEF AloneInv, UpToDate
<1>. QED
    BY <1>1, <1>2, <1>3, <1>4, AloneWork DEF Next

\* For a client that sends one request at a time the flag tells whether the
\* password was given, and one token at most is live, without exception.
THEOREM AloneSessionsHold ==
    ASSUME OneClient
    PROVE  Spec => [](/\ account.must <=> account.password = "given"
                      /\ \A x, y \in Tokens : token[x] = "live" /\ token[y] = "live" => x = y)
<1>1. Init => AloneInv
    BY DEF Init, AloneInv
<1>2. IInv /\ AloneInv /\ [Next]_vars => AloneInv'
    BY AloneStep
<1>3. IInv /\ AloneInv =>
         /\ account.must <=> account.password = "given"
         /\ \A x, y \in Tokens : token[x] = "live" /\ token[y] = "live" => x = y
    BY DEF IInv, AloneInv, GivenMustChange, OneLive
<1>. QED
    BY <1>1, <1>2, <1>3, Inductive, PTL DEF Spec

-----------------------------------------------------------------------------
(* Documents. *)

CONSTANTS Approvers, MaxRevision, Patches, NoOne

VARIABLES doc, approval, reviewed, patched

Doc == INSTANCE Documents

DocAssumptions == Doc!NoOneAssumption /\ Doc!PatchesAssumption

\* What a request in flight is about to write: any status a PATCH may set, ...
DocPatches(t) == t.patch /\ t.approver = NoOne

\* a draft submitted, a new revision or the mark of a deleted document, ...
DocChanges(t) ==
    /\ t.approver = NoOne
    /\ \/ /\ t.loaded.status = "draft"
          /\ t.assigned = [t.loaded EXCEPT !.status = "under_review"]
       \/ t.assigned = [t.loaded EXCEPT !.revision = @ + 1, !.status = "draft"]
       \/ t.assigned = [t.loaded EXCEPT !.deleted = TRUE]

\* or the outcome of the approvals with the one that is given, as long as none
\* has changed since they were read.
DocDecides(t) ==
    /\ t.approver \in Approvers /\ t.decision \in Doc!Decision
    /\ t.fresh =>
          t.assigned = [t.loaded EXCEPT !.status =
              Doc!Outcome(t.loaded.status, [approval EXCEPT ![t.approver] = t.decision])]

DocTxnInv(r) ==
    txn[r] # NoTxn => DocPatches(txn[r]) \/ DocChanges(txn[r]) \/ DocDecides(txn[r])

\* No approval is for a revision that is still to come: this is what makes a new
\* revision unapproved, although add_revision keeps the approvals.
DocRevisions == Doc!Reviewed => \A a \in Approvers : reviewed[a] <= doc.revision

DocInv ==
    /\ Doc!TypeOK
    /\ \A r \in Requests : DocTxnInv(r)
    /\ DocRevisions
    /\ Doc!RejectionHolds
    /\ Doc!ConsentCounts

LEMMA DocRow ==
    ASSUME Doc!TypeOK
    PROVE  /\ doc \in Doc!Document /\ doc.revision \in Nat /\ doc.status \in Doc!Status
           /\ Doc!NoApproval \notin Doc!Decision
BY DEF Doc!TypeOK, Doc!Document, Doc!NoApproval, Doc!Decision

LEMMA DocInit == DocAssumptions /\ Doc!Init => DocInv
<1>. SUFFICES ASSUME Doc!Init PROVE DocInv
    OBVIOUS
<1>1. Doc!TypeOK
  <2>1. doc \in Doc!Document
    BY DEF Doc!Init, Doc!Document, Doc!Status
  <2>2. /\ approval \in [Approvers -> Doc!Decision \union {Doc!NoApproval}]
        /\ reviewed \in [Approvers -> Nat] /\ txn \in [Requests -> Doc!Txn \union {NoTxn}]
    BY DEF Doc!Init
  <2>. QED
    BY <2>1, <2>2 DEF Doc!Init, Doc!TypeOK
<1>2. \A r \in Requests : DocTxnInv(r)
    BY DEF Doc!Init, DocTxnInv
<1>3. DocRevisions
    BY DEF Doc!Init, DocRevisions
<1>4. Doc!RejectionHolds
    BY DEF Doc!Init, Doc!RejectionHolds
<1>5. Doc!ConsentCounts
    BY DEF Doc!Init, Doc!ConsentCounts, Doc!Rows
<1>. QED
    BY <1>1, <1>2, <1>3, <1>4, <1>5 DEF DocInv

\* A request that has only read disturbs nothing, if it is known what it will
\* write.
LEMMA DocWork ==
    ASSUME DocInv, NEW r \in Requests, NEW t \in Doc!Txn,
           txn' = [txn EXCEPT ![r] = t], UNCHANGED <<doc, approval, reviewed, patched, crossed>>,
           DocPatches(t) \/ DocChanges(t) \/ DocDecides(t)
    PROVE  DocInv'
<1>1. Doc!TypeOK'
    BY DEF DocInv, Doc!TypeOK
<1>2. txn'[r] = t /\ \A q \in Requests \ {r} : txn'[q] = txn[q]
    BY DEF DocInv, Doc!TypeOK
<1>3. DocTxnInv(r)'
    BY <1>2 DEF DocTxnInv, DocPatches, DocChanges, DocDecides
<1>4. ASSUME NEW q \in Requests \ {r} PROVE DocTxnInv(q)'
  <2>1. txn'[q] = txn[q] /\ approval' = approval
    BY <1>2
  <2>2. DocTxnInv(q)
    BY DEF DocInv
  <2>. QED
    BY <2>1, <2>2 DEF DocTxnInv, DocPatches, DocChanges, DocDecides
<1>5. DocRevisions' /\ Doc!RejectionHolds' /\ Doc!ConsentCounts'
    BY DEF DocInv, DocRevisions, Doc!RejectionHolds, Doc!ConsentCounts, Doc!Reviewed, Doc!Rows
<1>. QED
    BY <1>1, <1>3, <1>4, <1>5 DEF DocInv

LEMMA DocTxnType ==
    ASSUME Doc!TypeOK, NEW row \in Doc!Document, NEW a \in Approvers \union {NoOne},
           NEW decision \in Doc!Decision \union {Doc!NoApproval}, NEW patch \in BOOLEAN
    PROVE  LET t == [loaded |-> doc, assigned |-> row, approver |-> a, decision |-> decision,
                     fresh |-> TRUE, patch |-> patch]
           IN  /\ t \in Doc!Txn /\ t.loaded = doc /\ t.assigned = row
               /\ t.approver = a /\ t.decision = decision /\ t.patch = patch
<1>. DEFINE yes == TRUE
<1>1. yes \in BOOLEAN
    OBVIOUS
<1>. HIDE DEF yes
<1>2. [loaded |-> doc, assigned |-> row, approver |-> a, decision |-> decision,
       fresh |-> yes, patch |-> patch] \in Doc!Txn
    BY <1>1, DocRow DEF Doc!Txn
<1>. QED
    BY <1>2 DEF yes

\* update_document, submit_for_review, add_revision and delete_document.
LEMMA DocChangeSteps ==
    ASSUME DocInv, DocAssumptions, NEW r \in Requests,
           \/ \E s \in Patches : Doc!UpdateDocument(r, s)
           \/ Doc!SubmitForReview(r) \/ Doc!AddRevision(r) \/ Doc!DeleteDocument(r)
    PROVE  DocInv'
<1>1. Doc!TypeOK /\ doc \in Doc!Document /\ doc.revision \in Nat
    BY DocRow DEF DocInv
<1>. DEFINE t(row, patch) ==
                [loaded |-> doc, assigned |-> row, approver |-> NoOne,
                 decision |-> Doc!NoApproval, fresh |-> TRUE, patch |-> patch]
<1>2. ASSUME NEW s \in Patches, Doc!UpdateDocument(r, s)
      PROVE  DocInv'
  <2>. DEFINE row == [doc EXCEPT !.status = s]
  <2>1. row \in Doc!Document
    BY <1>1 DEF DocAssumptions, Doc!PatchesAssumption, Doc!Document
  <2>2. t(row, TRUE) \in Doc!Txn /\ DocPatches(t(row, TRUE))
    BY <1>1, <2>1, DocTxnType DEF DocPatches
  <2>3. txn' = [txn EXCEPT ![r] = t(row, TRUE)]
          /\ UNCHANGED <<doc, approval, reviewed, patched, crossed>>
    BY <1>2 DEF Doc!UpdateDocument, Doc!Work
  <2>. HIDE DEF t, row
  <2>. QED
    BY <2>2, <2>3, DocWork
<1>3. CASE Doc!SubmitForReview(r)
  <2>. DEFINE row == [doc EXCEPT !.status = "under_review"]
  <2>1. row \in Doc!Document /\ doc.status = "draft"
    BY <1>1, <1>3 DEF Doc!Document, Doc!Status, Doc!SubmitForReview
  <2>2. t(row, FALSE) \in Doc!Txn
    BY <1>1, <2>1, DocTxnType
  <2>3. DocChanges(t(row, FALSE))
    BY <2>1 DEF DocChanges
  <2>4. txn' = [txn EXCEPT ![r] = t(row, FALSE)]
          /\ UNCHANGED <<doc, approval, reviewed, patched, crossed>>
    BY <1>3 DEF Doc!SubmitForReview, Doc!Change, Doc!Work
  <2>. HIDE DEF t, row
  <2>. QED
    BY <2>2, <2>3, <2>4, DocWork
<1>4. CASE Doc!AddRevision(r)
  <2>. DEFINE row == [doc EXCEPT !.revision = @ + 1, !.status = "draft"]
  <2>1. row \in Doc!Document
    <3>1. doc.revision + 1 \in Nat
        BY <1>1
    <3>. QED
        BY <1>1, <3>1 DEF Doc!Document, Doc!Status
  <2>2. t(row, FALSE) \in Doc!Txn
    BY <1>1, <2>1, DocTxnType
  <2>3. DocChanges(t(row, FALSE))
    BY DEF DocChanges
  <2>4. txn' = [txn EXCEPT ![r] = t(row, FALSE)]
          /\ UNCHANGED <<doc, approval, reviewed, patched, crossed>>
    BY <1>4 DEF Doc!AddRevision, Doc!Change, Doc!Work
  <2>. HIDE DEF t, row
  <2>. QED
    BY <2>2, <2>3, <2>4, DocWork
<1>5. CASE Doc!DeleteDocument(r)
  <2>. DEFINE row == [doc EXCEPT !.deleted = TRUE]
  <2>1. row \in Doc!Document
    BY <1>1 DEF Doc!Document
  <2>2. t(row, FALSE) \in Doc!Txn
    BY <1>1, <2>1, DocTxnType
  <2>3. DocChanges(t(row, FALSE))
    BY DEF DocChanges
  <2>4. txn' = [txn EXCEPT ![r] = t(row, FALSE)]
          /\ UNCHANGED <<doc, approval, reviewed, patched, crossed>>
    BY <1>5 DEF Doc!DeleteDocument, Doc!Change, Doc!Work
  <2>. HIDE DEF t, row
  <2>. QED
    BY <2>2, <2>3, <2>4, DocWork
<1>. QED
    BY <1>2, <1>3, <1>4, <1>5

LEMMA DocActionStep ==
    ASSUME DocInv, NEW r \in Requests, NEW a \in Approvers, NEW decision \in Doc!Decision,
           Doc!ActionApproval(r, a, decision)
    PROVE  DocInv'
<1>1. Doc!TypeOK /\ doc \in Doc!Document
    BY DocRow DEF DocInv
<1>. DEFINE status == Doc!Outcome(doc.status, [approval EXCEPT ![a] = decision])
            row == [doc EXCEPT !.status = status]
            t == [loaded |-> doc, assigned |-> row, approver |-> a, decision |-> decision,
                  fresh |-> TRUE, patch |-> FALSE]
<1>2. status \in Doc!Status
  <2>1. doc.status \in Doc!Status
    BY <1>1, DocRow
  <2>. QED
    BY <2>1 DEF Doc!Outcome, Doc!Status
<1>3. row \in Doc!Document
  <2>. HIDE DEF status
  <2>. QED
    BY <1>1, <1>2 DEF Doc!Document
<1>4. t \in Doc!Txn
  <2>. HIDE DEF row
  <2>. QED
    BY <1>1, <1>3, DocTxnType
<1>5. DocDecides(t)
    BY DEF DocDecides
<1>6. txn' = [txn EXCEPT ![r] = t] /\ UNCHANGED <<doc, approval, reviewed, patched, crossed>>
    BY DEF Doc!ActionApproval, Doc!Work
<1>. HIDE DEF t
<1>. QED
    BY <1>4, <1>5, <1>6, DocWork

\* A new approver waits, and outdates what others have read.
LEMMA DocAddApproverStep ==
    ASSUME DocInv, NEW a \in Approvers, Doc!AddApprover(a)
    PROVE  DocInv'
<1>1. /\ approval' = [approval EXCEPT ![a] = "pending"] /\ approval[a] = Doc!NoApproval
      /\ txn' = [r \in Requests |-> Doc!Outdated(txn[r])]
      /\ UNCHANGED <<doc, reviewed, patched, crossed>>
    BY DEF Doc!AddApprover
<1>2. approval \in [Approvers -> Doc!Decision \union {Doc!NoApproval}] /\ Doc!TypeOK
    BY DEF DocInv, Doc!TypeOK
<1>3. \A q \in Requests :
         \/ txn'[q] = NoTxn
         \/ txn[q] # NoTxn /\ txn[q] \in Doc!Txn /\ txn'[q] = [txn[q] EXCEPT !.fresh = FALSE]
    BY <1>1, <1>2 DEF Doc!Outdated, Doc!TypeOK
<1>4. Doc!TypeOK'
  <2>1. \A q \in Requests : txn'[q] \in Doc!Txn \union {NoTxn}
    BY <1>3, ZenonT(60) DEF Doc!Txn
  <2>2. txn' \in [Requests -> Doc!Txn \union {NoTxn}]
    BY <1>1, <2>1
  <2>3. approval' \in [Approvers -> Doc!Decision \union {Doc!NoApproval}]
    BY <1>1, <1>2 DEF Doc!Decision
  <2>. QED
    BY <1>1, <1>2, <2>2, <2>3 DEF Doc!TypeOK
<1>5. ASSUME NEW q \in Requests PROVE DocTxnInv(q)'
  <2>1. CASE txn'[q] = NoTxn
    BY <2>1 DEF DocTxnInv
  <2>2. CASE txn[q] # NoTxn /\ txn[q] \in Doc!Txn /\ txn'[q] = [txn[q] EXCEPT !.fresh = FALSE]
    <3>1. /\ txn'[q].approver = txn[q].approver /\ txn'[q].decision = txn[q].decision
          /\ txn'[q].loaded = txn[q].loaded /\ txn'[q].assigned = txn[q].assigned
          /\ txn'[q].patch = txn[q].patch /\ ~txn'[q].fresh
        BY <2>2 DEF Doc!Txn
    <3>2. DocPatches(txn[q]) \/ DocChanges(txn[q]) \/ DocDecides(txn[q])
        BY <2>2 DEF DocInv, DocTxnInv
    <3>. QED
        BY <3>1, <3>2 DEF DocTxnInv, DocPatches, DocChanges, DocDecides
  <2>. QED
    BY <1>3, <2>1, <2>2
<1>6. DocRevisions'
    BY <1>1 DEF DocInv, DocRevisions, Doc!Reviewed
<1>7. Doc!RejectionHolds'
    BY <1>1, <1>2 DEF DocInv, Doc!RejectionHolds, Doc!Reviewed
<1>8. Doc!ConsentCounts'
  <2>1. approval'[a] = "pending" /\ a \in Doc!Rows(approval')
    BY <1>1, <1>2 DEF Doc!Rows, Doc!NoApproval
  <2>. QED
    BY <2>1 DEF Doc!ConsentCounts
<1>. QED
    BY <1>4, <1>5, <1>6, <1>7, <1>8 DEF DocInv


\* What a commit writes, when it crosses nothing, is what the request assigned.
LEMMA DocFlush ==
    ASSUME Doc!TypeOK, NEW t \in Doc!Txn
    PROVE  /\ Doc!Flush(t, doc) \in Doc!Document
           /\ doc = t.loaded => Doc!Flush(t, doc) = t.assigned
<1>1. doc \in Doc!Document /\ t.loaded \in Doc!Document /\ t.assigned \in Doc!Document
    BY DEF Doc!TypeOK, Doc!Txn
<1>2. \A l, a, c : Doc!Flushed(l, a, c) \in {a, c} /\ (l = c => Doc!Flushed(l, a, c) = a)
    BY DEF Doc!Flushed
<1>3. Doc!Flush(t, doc) \in Doc!Document
    BY <1>1, <1>2 DEF Doc!Flush, Doc!Document
<1>4. ASSUME doc = t.loaded PROVE Doc!Flush(t, doc) = t.assigned
  <2>1. /\ Doc!Flush(t, doc).status = t.assigned.status
        /\ Doc!Flush(t, doc).revision = t.assigned.revision
        /\ Doc!Flush(t, doc).deleted = t.assigned.deleted
    BY <1>2, <1>4 DEF Doc!Flush
  <2>. QED
    BY <1>1, <1>3, <2>1 DEF Doc!Document
<1>. QED
    BY <1>3, <1>4

\* The commit is where approvals and document meet: what else is in flight has
\* read them as they are, or is outdated.
LEMMA DocCommitStep ==
    ASSUME DocInv, DocAssumptions, NEW r \in Requests, Doc!Commit(r)
    PROVE  DocInv'
<1>. DEFINE t == txn[r]
<1>1. /\ t # NoTxn /\ doc' = Doc!Flush(t, doc)
      /\ \A q \in Requests :
            txn'[q] = IF q = r THEN NoTxn
                      ELSE IF approval' = approval THEN txn[q] ELSE Doc!Outdated(txn[q])
      /\ txn' \in [Requests -> {txn'[q] : q \in Requests}]
      /\ crossed' = (crossed \/ doc # t.loaded \/ (t.approver # NoOne /\ ~t.fresh))
      /\ patched' = (patched \/ t.patch)
    BY DEF Doc!Commit
<1>2. IF t.approver = NoOne
      THEN approval' = approval /\ reviewed' = reviewed
      ELSE /\ approval' = [approval EXCEPT ![t.approver] = t.decision]
           /\ reviewed' = [reviewed EXCEPT ![t.approver] = t.loaded.revision]
    BY DEF Doc!Commit
<1>3. t \in Doc!Txn /\ Doc!TypeOK
    BY <1>1 DEF DocInv, Doc!TypeOK
<1>4. /\ approval \in [Approvers -> Doc!Decision \union {Doc!NoApproval}]
      /\ reviewed \in [Approvers -> Nat] /\ doc \in Doc!Document
      /\ patched \in BOOLEAN /\ crossed \in BOOLEAN
    BY <1>3 DEF Doc!TypeOK
<1>5. DocPatches(t) \/ DocChanges(t) \/ DocDecides(t)
    BY <1>1 DEF DocInv, DocTxnInv
<1>6. t.loaded.revision \in Nat /\ t.patch \in BOOLEAN /\ t.fresh \in BOOLEAN
    BY <1>3 DEF Doc!Txn, Doc!Document
<1>7. \A q \in Requests :
         \/ txn'[q] = NoTxn
         \/ txn[q] # NoTxn /\ txn[q] \in Doc!Txn /\ approval' = approval /\ txn'[q] = txn[q]
         \/ txn[q] # NoTxn /\ txn[q] \in Doc!Txn /\ txn'[q] = [txn[q] EXCEPT !.fresh = FALSE]
    BY <1>1, <1>3 DEF Doc!Outdated, Doc!TypeOK
<1>8. NoOne \notin Approvers
    BY DEF DocAssumptions, Doc!NoOneAssumption
<1>9. t.approver # NoOne => t.approver \in Approvers /\ t.decision \in Doc!Decision
    BY <1>5 DEF DocPatches, DocChanges, DocDecides
<1>. HIDE DEF t
<1>10. Doc!TypeOK'
  <2>1. \A q \in Requests : txn'[q] \in Doc!Txn \union {NoTxn}
    BY <1>7 DEF Doc!Txn
  <2>2. txn' \in [Requests -> Doc!Txn \union {NoTxn}]
    BY <1>1, <2>1
  <2>3. approval' \in [Approvers -> Doc!Decision \union {Doc!NoApproval}]
    BY <1>2, <1>4, <1>9
  <2>4. reviewed' \in [Approvers -> Nat]
    BY <1>2, <1>4, <1>6
  <2>5. doc' \in Doc!Document
    BY <1>1, <1>3, DocFlush
  <2>6. patched' \in BOOLEAN /\ crossed' \in BOOLEAN
    BY <1>1, <1>4, <1>6
  <2>. QED
    BY <2>2, <2>3, <2>4, <2>5, <2>6 DEF Doc!TypeOK
<1>11. ASSUME NEW q \in Requests PROVE DocTxnInv(q)'
  <2>1. CASE txn'[q] = NoTxn
    BY <2>1 DEF DocTxnInv
  <2>2. CASE txn[q] # NoTxn /\ approval' = approval /\ txn'[q] = txn[q]
    BY <2>2 DEF DocInv, DocTxnInv, DocPatches, DocChanges, DocDecides
  <2>3. CASE txn[q] # NoTxn /\ txn[q] \in Doc!Txn /\ txn'[q] = [txn[q] EXCEPT !.fresh = FALSE]
    <3>1. /\ txn'[q].approver = txn[q].approver /\ txn'[q].decision = txn[q].decision
          /\ txn'[q].loaded = txn[q].loaded /\ txn'[q].assigned = txn[q].assigned
          /\ txn'[q].patch = txn[q].patch /\ ~txn'[q].fresh
        BY <2>3 DEF Doc!Txn
    <3>2. DocPatches(txn[q]) \/ DocChanges(txn[q]) \/ DocDecides(txn[q])
        BY <2>3 DEF DocInv, DocTxnInv
    <3>. QED
        BY <3>1, <3>2 DEF DocTxnInv, DocPatches, DocChanges, DocDecides
  <2>. QED
    BY <1>7, <2>1, <2>2, <2>3
<1>12. ASSUME Doc!Reviewed'
       PROVE  /\ Doc!Reviewed /\ doc' = t.assigned /\ doc = t.loaded /\ ~t.patch
              /\ t.approver = NoOne \/ t.fresh
    BY <1>1, <1>3, <1>12, DocFlush DEF Doc!Reviewed
<1>13. ASSUME Doc!Reviewed'
       PROVE  /\ \A a \in Approvers : reviewed'[a] <= doc'.revision
              /\ (\E a \in Approvers : approval'[a] = "rejected") => doc'.status # "approved"
              /\ (/\ \A a \in Doc!Rows(approval') : approval'[a] = "approved"
                  /\ \E a \in Doc!Rows(approval') : reviewed'[a] = doc'.revision)
                 => doc'.status = "approved"
  <2>1. /\ \A a \in Approvers : reviewed[a] \in Nat /\ reviewed[a] <= doc.revision
        /\ doc.revision \in Nat
    BY <1>4, <1>12, <1>13 DEF DocInv, DocRevisions, Doc!Document
  <2>2. (\E a \in Approvers : approval[a] = "rejected") => doc.status # "approved"
    BY <1>12, <1>13 DEF DocInv, Doc!RejectionHolds
  <2>3. /\ \A a \in Doc!Rows(approval) : approval[a] = "approved"
        /\ \E a \in Doc!Rows(approval) : reviewed[a] = doc.revision
        => doc.status = "approved"
    BY <1>12, <1>13 DEF DocInv, Doc!ConsentCounts
  <2>4. CASE DocChanges(t)
    <3>1. approval' = approval /\ reviewed' = reviewed
        BY <1>2, <2>4 DEF DocChanges
    <3>2. \/ /\ doc.status = "draft" /\ doc'.status = "under_review"
             /\ doc'.revision = doc.revision
          \/ doc'.revision = doc.revision + 1 /\ doc'.status = "draft"
          \/ doc'.revision = doc.revision /\ doc'.status = doc.status
        BY <1>4, <1>12, <1>13, <2>4 DEF DocChanges, Doc!Document
    <3>3. \A a \in Approvers : reviewed[a] <= doc'.revision
        BY <2>1, <3>2
    <3>4. Doc!Rows(approval) \subseteq Approvers
        BY DEF Doc!Rows
    <3>5. (/\ \A a \in Doc!Rows(approval) : approval[a] = "approved"
           /\ \E a \in Doc!Rows(approval) : reviewed[a] = doc'.revision)
          => doc'.status = "approved"
        BY <2>1, <2>3, <3>2, <3>4
    <3>. QED
        BY <2>2, <3>1, <3>2, <3>3, <3>5
  <2>5. CASE DocDecides(t)
    <3>1. /\ t.approver \in Approvers /\ t.approver # NoOne /\ t.decision \in Doc!Decision
          /\ t.fresh
        BY <1>8, <1>12, <1>13, <2>5 DEF DocDecides
    <3>2. approval' = [approval EXCEPT ![t.approver] = t.decision]
        BY <1>2, <3>1
    <3>3. doc' = [doc EXCEPT !.status = Doc!Outcome(doc.status, approval')]
        BY <1>12, <1>13, <2>5, <3>1, <3>2 DEF DocDecides
    <3>4. doc'.revision = doc.revision /\ doc'.status = Doc!Outcome(doc.status, approval')
        BY <1>4, <3>3 DEF Doc!Document
    <3>5. reviewed' = [reviewed EXCEPT ![t.approver] = doc.revision]
        BY <1>2, <1>12, <1>13, <3>1
    <3>6. \A a \in Approvers : reviewed'[a] <= doc.revision
        BY <1>4, <2>1, <3>1, <3>5
    <3>7. (\E a \in Approvers : approval'[a] = "rejected") => doc'.status = "rejected"
        BY <3>4 DEF Doc!Outcome, Doc!Rows, Doc!NoApproval
    <3>8. (\A a \in Doc!Rows(approval') : approval'[a] = "approved") => doc'.status = "approved"
        BY <3>4 DEF Doc!Outcome
    <3>. QED
        BY <3>4, <3>6, <3>7, <3>8
  <2>. QED
    BY <1>5, <1>12, <1>13, <2>4, <2>5 DEF DocPatches
<1>14. DocRevisions' /\ Doc!RejectionHolds' /\ Doc!ConsentCounts'
  <2>1. DocRevisions'
    BY <1>13 DEF DocRevisions
  <2>2. Doc!RejectionHolds'
    BY <1>13 DEF Doc!RejectionHolds
  <2>3. Doc!ConsentCounts'
    BY <1>13 DEF Doc!ConsentCounts
  <2>. QED
    BY <2>1, <2>2, <2>3
<1>. QED
    BY <1>10, <1>11, <1>14 DEF DocInv

LEMMA DocRestStep ==
    ASSUME DocInv, \/ \E r \in Requests : Doc!Rollback(r)
                   \/ UNCHANGED Doc!vars
    PROVE  DocInv'
<1>1. /\ UNCHANGED <<doc, approval, reviewed, patched, crossed>>
      /\ \/ \E r \in Requests : txn' = [txn EXCEPT ![r] = NoTxn]
         \/ txn' = txn
    BY DEF Doc!Rollback, Doc!vars
<1>2. txn' \in [Requests -> Doc!Txn \union {NoTxn}]
    BY <1>1 DEF DocInv, Doc!TypeOK
<1>3. \A q \in Requests : txn'[q] \in {NoTxn, txn[q]}
    BY <1>1 DEF DocInv, Doc!TypeOK
<1>4. Doc!TypeOK'
    BY <1>1, <1>2 DEF DocInv, Doc!TypeOK
<1>5. ASSUME NEW q \in Requests PROVE DocTxnInv(q)'
    BY <1>1, <1>3 DEF DocInv, DocTxnInv, DocPatches, DocChanges, DocDecides
<1>6. DocRevisions' /\ Doc!RejectionHolds' /\ Doc!ConsentCounts'
    BY <1>1 DEF DocInv, DocRevisions, Doc!RejectionHolds, Doc!ConsentCounts, Doc!Reviewed, Doc!Rows
<1>. QED
    BY <1>4, <1>5, <1>6 DEF DocInv

LEMMA DocInductive == DocAssumptions => (Doc!Spec => []DocInv)
<1>. SUFFICES ASSUME DocAssumptions PROVE Doc!Spec => []DocInv
    OBVIOUS
<1>1. Doc!Init => DocInv
    BY DocInit
<1>2. DocInv /\ [Doc!Next]_Doc!vars => DocInv'
  <2>. SUFFICES ASSUME DocInv, [Doc!Next]_Doc!vars PROVE DocInv'
    OBVIOUS
  <2>1. \/ \E a \in Approvers : Doc!AddApprover(a)
        \/ \E r \in Requests :
              \/ \E s \in Patches : Doc!UpdateDocument(r, s)
              \/ Doc!SubmitForReview(r) \/ Doc!AddRevision(r) \/ Doc!DeleteDocument(r)
        \/ \E r \in Requests, a \in Approvers, d \in Doc!Decision : Doc!ActionApproval(r, a, d)
        \/ \E r \in Requests : Doc!Commit(r)
        \/ \/ \E r \in Requests : Doc!Rollback(r)
           \/ UNCHANGED Doc!vars
    BY DEF Doc!Next
  <2>. QED
    BY <2>1, DocAddApproverStep, DocChangeSteps, DocActionStep, DocCommitStep, DocRestStep, Zenon
<1>. QED
    BY <1>1, <1>2, PTL DEF Doc!Spec

\* The state of a document, its approvals and its requests have their types.
THEOREM DocTypeCorrect == DocAssumptions => (Doc!Spec => []Doc!TypeOK)
<1>1. DocInv => Doc!TypeOK
    BY DEF DocInv
<1>. QED
    BY <1>1, DocInductive, PTL

\* However many approvers, revisions and requests there are: as long as reviews
\* decide, a document that somebody has rejected is not approved
\* (action_approval, add_revision, add_approver).
THEOREM RejectedIsNotApproved == DocAssumptions => (Doc!Spec => []Doc!RejectionHolds)
<1>1. DocInv => Doc!RejectionHolds
    BY DEF DocInv
<1>. QED
    BY <1>1, DocInductive, PTL

\* And when all have approved, one of them the present revision, it is approved:
\* nobody waits for a decision that has been made (action_approval).
THEOREM ConsentApproves == DocAssumptions => (Doc!Spec => []Doc!ConsentCounts)
<1>1. DocInv => Doc!ConsentCounts
    BY DEF DocInv
<1>. QED
    BY <1>1, DocInductive, PTL

(* Documents, one request at a time, add_approver among them.               *)
NobodyInFlight == \A r \in Requests : txn[r] = NoTxn

\* What the request in flight has read is still so.
DocAloneInv ==
    /\ \A r \in Requests : txn[r] # NoTxn => txn[r].loaded = doc /\ txn[r].fresh
    /\ ~crossed

LEMMA DocAloneStep ==
    ASSUME OneClient, DocInv, DocAloneInv, [Doc!Next]_Doc!vars,
           [(\E a \in Approvers : Doc!AddApprover(a)) => NobodyInFlight]_Doc!vars
    PROVE  DocAloneInv'
<1>1. ASSUME NEW r \in Requests, NEW row, NEW a, NEW decision, NEW patch,
             Doc!Work(r, row, a, decision, patch)
      PROVE  DocAloneInv'
  <2>1. \A q \in Requests : txn'[q].loaded = doc /\ txn'[q].fresh
    BY <1>1 DEF Doc!Work, OneClient, DocInv, Doc!TypeOK
  <2>. QED
    BY <1>1, <2>1 DEF Doc!Work, DocAloneInv
<1>2. ASSUME NEW r \in Requests, Doc!Commit(r) PROVE DocAloneInv'
  <2>1. txn[r].loaded = doc /\ txn[r].fresh
    BY <1>2 DEF Doc!Commit, DocAloneInv
  <2>2. \A q \in Requests : txn'[q] = NoTxn
    BY <1>2 DEF Doc!Commit, OneClient
  <2>3. ~crossed'
    BY <1>2, <2>1 DEF Doc!Commit, DocAloneInv
  <2>. QED
    BY <2>2, <2>3 DEF DocAloneInv
<1>3. ASSUME NEW r \in Requests, Doc!Rollback(r) PROVE DocAloneInv'
  <2>1. \A q \in Requests : txn'[q] # NoTxn => txn'[q] = txn[q]
    BY <1>3 DEF Doc!Rollback, DocInv, Doc!TypeOK
  <2>. QED
    BY <1>3, <2>1 DEF Doc!Rollback, DocAloneInv
<1>4. ASSUME NEW a \in Approvers, Doc!AddApprover(a) PROVE DocAloneInv'
  <2>1. approval' # approval
    BY <1>4 DEF Doc!AddApprover, DocInv, Doc!TypeOK, Doc!NoApproval
  <2>2. NobodyInFlight
    BY <1>4, <2>1 DEF Doc!vars
  <2>3. \A q \in Requests : txn'[q] = NoTxn
    BY <1>4, <2>2 DEF Doc!AddApprover, Doc!Outdated, NobodyInFlight
  <2>. QED
    BY <1>4, <2>3 DEF Doc!AddApprover, DocAloneInv
<1>5. CASE UNCHANGED Doc!vars
    BY <1>5 DEF Doc!vars, DocAloneInv
<1>6. ASSUME NEW r \in Requests,
             \/ \E x \in Patches : Doc!UpdateDocument(r, x)
             \/ Doc!SubmitForReview(r) \/ Doc!AddRevision(r) \/ Doc!DeleteDocument(r)
             \/ \E a \in Approvers, d \in Doc!Decision : Doc!ActionApproval(r, a, d)
      PROVE  DocAloneInv'
    BY <1>1, <1>6 DEF Doc!UpdateDocument, Doc!SubmitForReview, Doc!AddRevision,
       Doc!DeleteDocument, Doc!Change, Doc!ActionApproval
<1>. QED
    BY <1>2, <1>3, <1>4, <1>5, <1>6 DEF Doc!Next

\* With one request at a time, add_approver among them, reviews decide until a
\* PATCH sets the status: a rejected document is not approved, and one that all
\* have approved, somebody its present revision, is.
THEOREM DocAloneReviewsDecide ==
    ASSUME OneClient, DocAssumptions
    PROVE  Doc!Spec /\ [][(\E a \in Approvers : Doc!AddApprover(a)) => NobodyInFlight]_Doc!vars =>
              [](~patched =>
                    /\ (\E a \in Approvers : approval[a] = "rejected") => doc.status # "approved"
                    /\ /\ Doc!Rows(approval) # {}
                       /\ \A a \in Doc!Rows(approval) : approval[a] = "approved"
                       /\ \E a \in Doc!Rows(approval) : reviewed[a] = doc.revision
                       => doc.status = "approved")
<1>1. Doc!Init => DocAloneInv
    BY DEF Doc!Init, DocAloneInv
<1>2. DocInv /\ DocAloneInv /\ [Doc!Next]_Doc!vars
        /\ [(\E a \in Approvers : Doc!AddApprover(a)) => NobodyInFlight]_Doc!vars => DocAloneInv'
    BY DocAloneStep
<1>3. DocInv /\ DocAloneInv =>
         (~patched =>
            /\ (\E a \in Approvers : approval[a] = "rejected") => doc.status # "approved"
            /\ /\ Doc!Rows(approval) # {}
               /\ \A a \in Doc!Rows(approval) : approval[a] = "approved"
               /\ \E a \in Doc!Rows(approval) : reviewed[a] = doc.revision
               => doc.status = "approved")
    BY DEF DocInv, DocAloneInv, Doc!RejectionHolds, Doc!ConsentCounts, Doc!Reviewed
<1>4. Doc!Spec => []DocInv
    BY DocInductive
<1>. QED
    BY <1>1, <1>2, <1>3, <1>4, PTL DEF Doc!Spec

-----------------------------------------------------------------------------
(* Compliance. *)

CONSTANTS LastDay, Window, NoDoc, NoDate, Kept

VARIABLES today, checked, how, mailed, overlapped

Cmp == INSTANCE Compliance

CmpAssumptions == Cmp!DaysAssumption /\ Cmp!KeptAssumption /\ Cmp!NoneAssumption

\* A status that does not look better than the date on the present day.
CmpTells(status, expiry) ==
    /\ Cmp!Before(expiry, today) => status = "expired"
    /\ Cmp!Within(expiry, Window) => status # "active"

\* What a request in flight was made of, and what it knows as long as nobody has
\* changed the status or the date since: that the status it will leave behind
\* tells the date, if it was worked out today, and is no better than the one
\* there is, if it was given none.
CmpStatusInv(t) ==
    /\ t.day # NoDate => t.day <= today
    /\ t.day = NoDate => t.status = Kept /\ t.expiry = Kept
    /\ t.day = today /\ "status" \notin t.stale =>
          CmpTells(Cmp!Merged(t).status, Cmp!Merged(t).expiry)
    /\ doc # NoDoc /\ t.status # Kept /\ ~t.names /\ "status" \notin t.stale =>
          Cmp!Standing(t.status) >= Cmp!Standing(doc.status)

\* Only who reminds sets the date of the last reminder; it has found, and as far
\* as it knows it still holds, that there was none today.
CmpReminderInv(t) ==
    /\ t.reminded # Kept => t.reminds /\ t.reminded <= today
    /\ t.reminds => doc # NoDoc
    /\ t.reminds /\ "reminded" \notin t.stale => doc.reminded # today

\* The document is created by a request that is alone.
CmpCreateInv(r) ==
    doc = NoDoc =>
        /\ txn[r].status # Kept /\ txn[r].expiry # Kept /\ ~txn[r].deletes
        /\ \A other \in Requests \ {r} : txn[other] = NoTxn

CmpTxnInv(r) ==
    txn[r] # NoTxn =>
        CmpStatusInv(txn[r]) /\ CmpReminderInv(txn[r]) /\ CmpCreateInv(r)

\* A reminder of today is on record: with the request that has sent it, or in
\* the row.
CmpOnRecord ==
    \/ \E r \in Requests : Cmp!Reminded(r) /\ txn[r].reminded = today
    \/ doc # NoDoc /\ doc.reminded = today

CmpInv ==
    /\ Cmp!TypeOK
    /\ \A r \in Requests : CmpTxnInv(r)
    /\ doc # NoDoc /\ doc.reminded # NoDate => doc.reminded <= today
    /\ Cmp!StatusTellsDate
    /\ mailed # 0 /\ ~overlapped => CmpOnRecord
    /\ Cmp!OneReminderADay




LEMMA CmpDays ==
    ASSUME Cmp!TypeOK, CmpAssumptions
    PROVE  /\ LastDay \in Nat /\ Window \in Nat /\ today \in Nat /\ today \in Cmp!Day
                /\ Cmp!Day \subseteq Nat
           /\ \A day \in Cmp!Day : day # NoDate /\ day # Kept
           /\ Kept \notin Cmp!Date /\ Kept \notin Cmp!Status
BY DEF Cmp!TypeOK, CmpAssumptions, Cmp!DaysAssumption, Cmp!KeptAssumption, Cmp!Day, Cmp!Date

LEMMA CmpTxnRow ==
    ASSUME NEW t \in Cmp!Txn
    PROVE  /\ t.status \in Cmp!Status \union {Kept} /\ t.expiry \in Cmp!Date \union {Kept}
           /\ t.reminded \in Cmp!Day \union {Kept} /\ t.deletes \in BOOLEAN /\ t.day \in Cmp!Date
           /\ t.names \in BOOLEAN /\ t.reminds \in BOOLEAN
           /\ t.stale \subseteq {"status", "reminded"}
BY DEF Cmp!Txn

LEMMA CmpDocRow ==
    ASSUME Cmp!TypeOK, doc # NoDoc
    PROVE  /\ doc \in Cmp!Row /\ doc.status \in Cmp!Status /\ doc.expiry \in Cmp!Date
           /\ doc.reminded \in Cmp!Date /\ doc.deleted \in BOOLEAN
BY DEF Cmp!TypeOK, Cmp!Row

LEMMA CmpStanding ==
    ASSUME NEW s \in Cmp!Status
    PROVE  /\ Cmp!Standing(s) \in 0..3
           /\ s = "active" => Cmp!Standing(s) = 0
           /\ s = "expiring_soon" => Cmp!Standing(s) = 1
           /\ s = "expired" => Cmp!Standing(s) = 3
BY DEF Cmp!Standing, Cmp!Status

\* A status that was worked out tells the date, and is no better than before.
LEMMA CmpWorkedOut ==
    ASSUME Cmp!TypeOK, CmpAssumptions, NEW s \in Cmp!Status, NEW expiry \in Cmp!Date
    PROVE  /\ Cmp!UpdateExpiryStatus(s, expiry) \in Cmp!Status
           /\ CmpTells(Cmp!UpdateExpiryStatus(s, expiry), expiry)
           /\ Cmp!Standing(Cmp!UpdateExpiryStatus(s, expiry)) >= Cmp!Standing(s)
<1>. DEFINE u == Cmp!UpdateExpiryStatus(s, expiry)
<1>1. \/ u = "expired" /\ Cmp!Before(expiry, today)
      \/ u = "expiring_soon" /\ ~Cmp!Before(expiry, today) /\ s \notin {"expired", "revoked"}
      \/ u = s /\ ~Cmp!Before(expiry, today) /\ (s \in {"expired", "revoked"}
           \/ ~Cmp!Within(expiry, Window))
    BY DEF Cmp!UpdateExpiryStatus
<1>2. u \in Cmp!Status
    BY <1>1 DEF Cmp!Status
<1>3. CmpTells(u, expiry)
    BY <1>1 DEF CmpTells
<1>4. Cmp!Standing(u) >= Cmp!Standing(s)
  <2>1. Cmp!Standing(s) \in 0..3 /\ (s \notin {"expired", "revoked"} => Cmp!Standing(s) <= 1)
    BY CmpStanding DEF Cmp!Status
  <2>2. /\ u = "expired" => Cmp!Standing(u) = 3
        /\ u = "expiring_soon" => Cmp!Standing(u) = 1
    BY <1>2, CmpStanding
  <2>. QED
    BY <1>1, <2>1, <2>2
<1>. QED
    BY <1>2, <1>3, <1>4

\* The row a request leaves behind.
LEMMA CmpMerged ==
    ASSUME Cmp!TypeOK, CmpAssumptions, NEW t \in Cmp!Txn,
           doc = NoDoc => t.status # Kept /\ t.expiry # Kept
    PROVE  /\ Cmp!Merged(t) \in Cmp!Row
           /\ Cmp!Merged(t).status = IF t.status = Kept THEN doc.status ELSE t.status
           /\ Cmp!Merged(t).expiry = IF t.expiry = Kept THEN doc.expiry ELSE t.expiry
           /\ t.reminded # Kept => Cmp!Merged(t).reminded = t.reminded
           /\ t.reminded = Kept =>
                 Cmp!Merged(t).reminded = IF doc = NoDoc THEN NoDate ELSE doc.reminded
           /\ doc # NoDoc => (Cmp!Merged(t).deleted <=> doc.deleted \/ t.deletes)
<1>. DEFINE no == FALSE
            now == IF doc = NoDoc
                   THEN [status |-> t.status, expiry |-> t.expiry, reminded |-> NoDate,
                         deleted |-> no]
                   ELSE doc
            m == [status |-> IF t.status = Kept THEN now.status ELSE t.status,
                  expiry |-> IF t.expiry = Kept THEN now.expiry ELSE t.expiry,
                  reminded |-> IF t.reminded = Kept THEN now.reminded ELSE t.reminded,
                  deleted |-> now.deleted \/ t.deletes]
<1>1. Cmp!Merged(t) = m
    BY DEF Cmp!Merged
<1>2. /\ t.status \in Cmp!Status \union {Kept} /\ t.expiry \in Cmp!Date \union {Kept}
      /\ t.reminded \in Cmp!Day \union {Kept} /\ t.deletes \in BOOLEAN /\ no \in BOOLEAN
    BY CmpTxnRow
<1>3. CASE doc = NoDoc
  <2>. HIDE DEF no
  <2>1. now = [status |-> t.status, expiry |-> t.expiry, reminded |-> NoDate, deleted |-> no]
    BY <1>3
  <2>. HIDE DEF now
  <2>2. /\ now.status = t.status /\ now.expiry = t.expiry /\ now.reminded = NoDate
        /\ now.deleted = no
    BY <2>1
  <2>3. (now.deleted \/ t.deletes) \in BOOLEAN /\ NoDate \in Cmp!Date
    BY DEF Cmp!Date
  <2>4. t.reminded # Kept => t.reminded \in Cmp!Date
    BY <1>2 DEF Cmp!Date
  <2>5. m \in Cmp!Row
    BY <1>2, <1>3, <2>2, <2>3, <2>4 DEF Cmp!Row
  <2>. QED
    BY <1>1, <1>3, <2>2, <2>5
<1>4. CASE doc # NoDoc
  <2>1. now = doc
    BY <1>4
  <2>. HIDE DEF now
  <2>2. /\ doc.status \in Cmp!Status /\ doc.expiry \in Cmp!Date /\ doc.reminded \in Cmp!Date
        /\ doc.deleted \in BOOLEAN
    BY <1>4, CmpDocRow
  <2>3. t.reminded # Kept => t.reminded \in Cmp!Date
    BY <1>2 DEF Cmp!Date
  <2>4. m \in Cmp!Row
    BY <1>2, <2>1, <2>2, <2>3 DEF Cmp!Row
  <2>5. /\ m.status = IF t.status = Kept THEN doc.status ELSE t.status
        /\ m.expiry = IF t.expiry = Kept THEN doc.expiry ELSE t.expiry
        /\ m.reminded = IF t.reminded = Kept THEN doc.reminded ELSE t.reminded
    BY <2>1
  <2>6. m.deleted <=> doc.deleted \/ t.deletes
    BY <2>1
  <2>. HIDE DEF m
  <2>. QED
    BY <1>1, <1>4, <2>4, <2>5, <2>6
<1>. QED
    BY <1>3, <1>4

LEMMA CmpInit == CmpAssumptions /\ Cmp!Init => CmpInv
<1>. SUFFICES ASSUME CmpAssumptions, Cmp!Init PROVE CmpInv
    OBVIOUS
<1>1. Cmp!TypeOK
  <2>1. today \in Cmp!Day
    BY DEF Cmp!Init, CmpAssumptions, Cmp!DaysAssumption, Cmp!Day
  <2>2. txn \in [Requests -> Cmp!Txn \union {NoTxn}]
    BY DEF Cmp!Init
  <2>3. doc \in Cmp!Row \union {NoDoc} /\ how \in {"plain", "named", "crossed"}
    BY Zenon DEF Cmp!Init
  <2>4. checked \in BOOLEAN /\ overlapped \in BOOLEAN
    BY Zenon DEF Cmp!Init
  <2>5. mailed \in 0..2
    BY DEF Cmp!Init
  <2>. QED
    BY <2>1, <2>2, <2>3, <2>4, <2>5 DEF Cmp!TypeOK
<1>2. \A r \in Requests : CmpTxnInv(r)
    BY DEF Cmp!Init, CmpTxnInv
<1>3. Cmp!StatusTellsDate /\ Cmp!OneReminderADay
    BY DEF Cmp!Init, Cmp!StatusTellsDate, Cmp!OneReminderADay
<1>. QED
    BY <1>1, <1>2, <1>3 DEF Cmp!Init, CmpInv


\* A request that has only read disturbs nothing, if it is known what it will
\* leave behind, and if it found the document or is the only one.
LEMMA CmpBegin ==
    ASSUME CmpInv, NEW r \in Requests, NEW t \in Cmp!Txn, Cmp!Begin(r, t),
           CmpStatusInv(t), CmpReminderInv(t),
           doc = NoDoc =>
              /\ t.status # Kept /\ t.expiry # Kept /\ ~t.deletes
              /\ \A other \in Requests : txn[other] = NoTxn
    PROVE  CmpInv'
<1>1. /\ txn[r] = NoTxn /\ txn' = [txn EXCEPT ![r] = t]
      /\ UNCHANGED <<today, doc, checked, how, mailed, overlapped>>
    BY DEF Cmp!Begin
<1>2. txn'[r] = t /\ \A q \in Requests \ {r} : txn'[q] = txn[q]
    BY <1>1 DEF CmpInv, Cmp!TypeOK
<1>3. Cmp!TypeOK'
    BY <1>1 DEF CmpInv, Cmp!TypeOK
<1>4. CmpTxnInv(r)'
  <2>1. CmpStatusInv(txn[r])'
    BY <1>1, <1>2 DEF CmpStatusInv, CmpTells, Cmp!Before, Cmp!Within, Cmp!Merged
  <2>2. CmpReminderInv(txn[r])'
    BY <1>1, <1>2 DEF CmpReminderInv
  <2>3. CmpCreateInv(r)'
    BY <1>1, <1>2 DEF CmpCreateInv
  <2>. QED
    BY <2>1, <2>2, <2>3 DEF CmpTxnInv
<1>5. ASSUME NEW q \in Requests \ {r}, txn[q] # NoTxn PROVE CmpTxnInv(q)'
  <2>1. CmpStatusInv(txn[q]) /\ CmpReminderInv(txn[q])
    BY <1>5 DEF CmpInv, CmpTxnInv
  <2>2. CmpStatusInv(txn[q])'
    BY <1>1, <1>2, <2>1 DEF CmpStatusInv, CmpTells, Cmp!Before, Cmp!Within, Cmp!Merged
  <2>3. CmpReminderInv(txn[q])'
    BY <1>1, <1>2, <2>1 DEF CmpReminderInv
  <2>4. CmpCreateInv(q)'
    BY <1>1, <1>5 DEF CmpCreateInv
  <2>. QED
    BY <2>2, <2>3, <2>4 DEF CmpTxnInv
<1>6. ASSUME NEW q \in Requests \ {r}, txn[q] = NoTxn PROVE CmpTxnInv(q)'
    BY <1>2, <1>6 DEF CmpTxnInv
<1>7. Cmp!StatusTellsDate' /\ Cmp!OneReminderADay'
    BY <1>1 DEF CmpInv, Cmp!StatusTellsDate, Cmp!OneReminderADay, Cmp!Found, Cmp!Before, Cmp!Within
<1>8. CmpOnRecord => CmpOnRecord'
  <2>1. \A q \in Requests : Cmp!Reminded(q) => q # r /\ txn'[q] = txn[q]
    BY <1>1, <1>2 DEF Cmp!Reminded, Cmp!InFlight
  <2>. QED
    BY <1>1, <2>1 DEF CmpOnRecord, Cmp!Reminded, Cmp!InFlight
<1>. QED
    BY <1>1, <1>3, <1>4, <1>5, <1>6, <1>7, <1>8 DEF CmpInv

LEMMA CmpPlain ==
    ASSUME Cmp!TypeOK, CmpAssumptions
    PROVE  /\ Cmp!Plain \in Cmp!Txn /\ Cmp!Plain.status = Kept /\ Cmp!Plain.expiry = Kept
           /\ Cmp!Plain.reminded = Kept /\ Cmp!Plain.deletes = FALSE /\ Cmp!Plain.day = NoDate
           /\ Cmp!Plain.names = FALSE /\ Cmp!Plain.reminds = FALSE /\ Cmp!Plain.stale = {}
<1>. DEFINE no == FALSE
<1>1. no \in BOOLEAN /\ NoDate \in Cmp!Date
    BY DEF Cmp!Date
<1>2. Cmp!Plain = [status |-> Kept, expiry |-> Kept, reminded |-> Kept, deletes |-> no,
               day |-> NoDate, names |-> no, reminds |-> no, stale |-> {}]
    BY DEF Cmp!Plain
<1>3. /\ Cmp!Plain \in Cmp!Txn /\ Cmp!Plain.status = Kept /\ Cmp!Plain.expiry = Kept
      /\ Cmp!Plain.reminded = Kept /\ Cmp!Plain.deletes = no /\ Cmp!Plain.day = NoDate
      /\ Cmp!Plain.names = no /\ Cmp!Plain.reminds = no /\ Cmp!Plain.stale = {}
  <2>. HIDE DEF no
  <2>. QED
    BY <1>1, <1>2 DEF Cmp!Txn
<1>. QED
    BY <1>3

LEMMA CmpCreateStep ==
    ASSUME CmpInv, CmpAssumptions, NEW r \in Requests, NEW expiry \in Cmp!Date, Cmp!CreateDoc(r,
           expiry)
    PROVE  CmpInv'
<1>. DEFINE active == "active"
            s == Cmp!UpdateExpiryStatus(active, expiry)
            t == [Cmp!Plain EXCEPT !.status = s, !.expiry = expiry, !.day = today]
<1>1. /\ doc = NoDoc /\ (\A other \in Requests : txn[other] = NoTxn) /\ Cmp!Begin(r, t)
    BY DEF Cmp!CreateDoc
<1>2. Cmp!TypeOK /\ today \in Cmp!Date /\ today # NoDate /\ expiry # Kept /\ today \in Nat
    BY CmpDays DEF CmpInv, Cmp!Date
<1>3. s \in Cmp!Status /\ s # Kept /\ CmpTells(s, expiry)
  <2>1. active \in Cmp!Status
    BY DEF Cmp!Status
  <2>. HIDE DEF active
  <2>. QED
    BY <1>2, <2>1, CmpWorkedOut, CmpDays
<1>. HIDE DEF s
<1>4. /\ t \in Cmp!Txn /\ t.status = s /\ t.expiry = expiry /\ t.day = today
      /\ t.reminds = Cmp!Plain.reminds /\ t.reminded = Cmp!Plain.reminded
           /\ t.deletes = Cmp!Plain.deletes
    BY <1>2, <1>3, CmpPlain DEF Cmp!Txn
<1>. HIDE DEF t
<1>5. Cmp!Merged(t).status = s /\ Cmp!Merged(t).expiry = expiry
    BY <1>2, <1>3, <1>4, CmpMerged
<1>6. CmpStatusInv(t)
    BY <1>1, <1>2, <1>3, <1>4, <1>5 DEF CmpStatusInv
<1>7. CmpReminderInv(t)
    BY <1>2, <1>4, CmpPlain DEF CmpReminderInv
<1>8. t.status # Kept /\ t.expiry # Kept /\ ~t.deletes
    BY <1>2, <1>3, <1>4, CmpPlain
<1>. QED
    BY <1>1, <1>4, <1>6, <1>7, <1>8, CmpBegin

\* update_doc, and with what the document has refresh_expiry_statuses.
LEMMA CmpWorkOut ==
    ASSUME CmpInv, CmpAssumptions, NEW r \in Requests, Cmp!Found,
           NEW status \in Cmp!Status, NEW expiry \in Cmp!Date, NEW t \in Cmp!Txn, Cmp!Begin(r, t),
           t.status = Cmp!Changed(doc.status, Cmp!UpdateExpiryStatus(status, expiry)),
           t.expiry = Cmp!Changed(doc.expiry, expiry), t.day = today,
           status # doc.status => t.names,
           t.reminds = Cmp!Plain.reminds, t.reminded = Cmp!Plain.reminded
    PROVE  CmpInv'
<1>. DEFINE s == Cmp!UpdateExpiryStatus(status, expiry)
<1>1. Cmp!TypeOK /\ doc # NoDoc /\ today # NoDate /\ today \in Nat
    BY CmpDays DEF CmpInv, Cmp!Found
<1>2. doc.status \in Cmp!Status /\ doc.expiry \in Cmp!Date /\ s \in Cmp!Status
    BY <1>1, CmpDocRow, CmpWorkedOut
<1>3. CmpTells(s, expiry) /\ Cmp!Standing(s) >= Cmp!Standing(status)
    BY <1>1, CmpWorkedOut
<1>4. s # Kept /\ expiry # Kept
    BY <1>1, <1>2, CmpDays
<1>5. Cmp!Merged(t).status = s /\ Cmp!Merged(t).expiry = expiry
  <2>1. /\ Cmp!Merged(t).status = IF t.status = Kept THEN doc.status ELSE t.status
        /\ Cmp!Merged(t).expiry = IF t.expiry = Kept THEN doc.expiry ELSE t.expiry
    BY <1>1, CmpMerged
  <2>2. /\ t.status = IF doc.status = s THEN Kept ELSE s
        /\ t.expiry = IF doc.expiry = expiry THEN Kept ELSE expiry
    BY DEF Cmp!Changed
  <2>. HIDE DEF s
  <2>. QED
    BY <1>4, <2>1, <2>2
<1>6. t.status \in {Kept, s}
    BY DEF Cmp!Changed
<1>. HIDE DEF s
<1>7. CmpStatusInv(t)
    BY <1>1, <1>3, <1>5, <1>6 DEF CmpStatusInv
<1>8. CmpReminderInv(t)
    BY <1>1, CmpPlain DEF CmpReminderInv
<1>. QED
    BY <1>1, <1>7, <1>8, CmpBegin

LEMMA CmpUpdateStep ==
    ASSUME CmpInv, CmpAssumptions, NEW r \in Requests,
           NEW status \in Cmp!Status, NEW expiry \in Cmp!Date, Cmp!UpdateDoc(r, status, expiry)
    PROVE  CmpInv'
<1>. DEFINE s == Cmp!Changed(doc.status, Cmp!UpdateExpiryStatus(status, expiry))
            e == Cmp!Changed(doc.expiry, expiry)
            n == status # doc.status
            t == [Cmp!Plain EXCEPT !.status = s, !.expiry = e, !.day = today, !.names = n]
<1>1. Cmp!Found /\ Cmp!Begin(r, t) /\ Cmp!TypeOK
    BY DEF Cmp!UpdateDoc, CmpInv
<1>2. s \in Cmp!Status \union {Kept} /\ e \in Cmp!Date \union {Kept} /\ n \in BOOLEAN
        /\ today \in Cmp!Date
    BY <1>1, CmpWorkedOut, CmpDays DEF Cmp!Changed, Cmp!Date
<1>3. Cmp!Plain \in Cmp!Txn
    BY <1>1, CmpPlain
<1>4. /\ t \in Cmp!Txn /\ t.status = s /\ t.expiry = e /\ t.day = today /\ t.names = n
      /\ t.reminds = Cmp!Plain.reminds /\ t.reminded = Cmp!Plain.reminded
  <2>. HIDE DEF s, e, n
  <2>. QED
    BY <1>2, <1>3 DEF Cmp!Txn
<1>. HIDE DEF t
<1>. QED
    BY <1>1, <1>4, CmpWorkOut

LEMMA CmpRefreshStep ==
    ASSUME CmpInv, CmpAssumptions, NEW r \in Requests, Cmp!RefreshExpiryStatuses(r)
    PROVE  CmpInv'
<1>. DEFINE s == Cmp!Changed(doc.status, Cmp!UpdateExpiryStatus(doc.status, doc.expiry))
            t == [Cmp!Plain EXCEPT !.status = s, !.day = today]
<1>1. Cmp!Found /\ Cmp!Begin(r, t) /\ Cmp!TypeOK
    BY DEF Cmp!RefreshExpiryStatuses, CmpInv
<1>2. doc.status \in Cmp!Status /\ doc.expiry \in Cmp!Date /\ today \in Cmp!Date
    BY <1>1, CmpDocRow, CmpDays DEF Cmp!Found, Cmp!Date
<1>3. s \in Cmp!Status \union {Kept}
    BY <1>1, <1>2, CmpWorkedOut DEF Cmp!Changed
<1>4. Cmp!Plain \in Cmp!Txn /\ Cmp!Plain.expiry = Kept
    BY <1>1, CmpPlain
<1>5. /\ t \in Cmp!Txn /\ t.status = s /\ t.expiry = Cmp!Plain.expiry /\ t.day = today
      /\ t.reminds = Cmp!Plain.reminds /\ t.reminded = Cmp!Plain.reminded
  <2>. HIDE DEF s
  <2>. QED
    BY <1>2, <1>3, <1>4 DEF Cmp!Txn
<1>6. t.expiry = Cmp!Changed(doc.expiry, doc.expiry)
    BY <1>4, <1>5 DEF Cmp!Changed
<1>. HIDE DEF t
<1>. QED
    BY <1>1, <1>2, <1>5, <1>6, CmpWorkOut

\* Neither status nor date: delete_doc, verify_doc, notify_expiring_docs.
LEMMA CmpOtherSteps ==
    ASSUME CmpInv, CmpAssumptions, NEW r \in Requests,
           \/ Cmp!DeleteDoc(r) \/ Cmp!VerifyDoc(r)
           \/ \E days \in {Window, LastDay} : Cmp!NotifyExpiringDocs(r, days)
    PROVE  CmpInv'
<1>. DEFINE yes == TRUE
            deletion == [Cmp!Plain EXCEPT !.deletes = yes]
            reminder == [Cmp!Plain EXCEPT !.reminds = yes]
<1>1. Cmp!TypeOK /\ Cmp!Plain \in Cmp!Txn /\ yes \in BOOLEAN /\ today # NoDate
    BY CmpPlain, CmpDays DEF CmpInv
<1>2. ASSUME NEW t \in Cmp!Txn, Cmp!Found, Cmp!Begin(r, t), t.status = Kept, t.expiry = Kept,
             t.day = NoDate, t.reminded = Kept, t.reminds => doc.reminded # today
      PROVE  CmpInv'
  <2>1. CmpStatusInv(t) /\ CmpReminderInv(t)
    BY <1>1, <1>2 DEF CmpStatusInv, CmpReminderInv, Cmp!Found
  <2>2. doc # NoDoc
    BY <1>2 DEF Cmp!Found
  <2>. QED
    BY <1>2, <2>1, <2>2, CmpBegin
<1>3. CASE Cmp!DeleteDoc(r)
  <2>1. /\ deletion \in Cmp!Txn /\ deletion.status = Cmp!Plain.status
             /\ deletion.expiry = Cmp!Plain.expiry
        /\ deletion.day = Cmp!Plain.day /\ deletion.reminded = Cmp!Plain.reminded
        /\ deletion.reminds = Cmp!Plain.reminds
    <3>. HIDE DEF yes
    <3>. QED
        BY <1>1 DEF Cmp!Txn
  <2>2. Cmp!Found /\ Cmp!Begin(r, deletion)
    BY <1>3 DEF Cmp!DeleteDoc
  <2>. HIDE DEF deletion
  <2>. QED
    BY <1>1, <1>2, <2>1, <2>2, CmpPlain
<1>4. CASE Cmp!VerifyDoc(r)
    BY <1>1, <1>2, <1>4, CmpPlain DEF Cmp!VerifyDoc
<1>5. CASE \E days \in {Window, LastDay} : Cmp!NotifyExpiringDocs(r, days)
  <2>1. /\ reminder \in Cmp!Txn /\ reminder.status = Cmp!Plain.status
             /\ reminder.expiry = Cmp!Plain.expiry
        /\ reminder.day = Cmp!Plain.day /\ reminder.reminded = Cmp!Plain.reminded
    <3>. HIDE DEF yes
    <3>. QED
        BY <1>1 DEF Cmp!Txn
  <2>2. Cmp!Found /\ Cmp!Begin(r, reminder) /\ doc.reminded # today
    BY <1>5 DEF Cmp!NotifyExpiringDocs
  <2>. HIDE DEF reminder
  <2>. QED
    BY <1>1, <1>2, <2>1, <2>2, CmpPlain
<1>. QED
    BY <1>3, <1>4, <1>5


\* The mail is the first of the day, or it crosses another one.
LEMMA CmpRemindStep ==
    ASSUME CmpInv, CmpAssumptions, NEW r \in Requests, NEW sent \in BOOLEAN, Cmp!Remind(r, sent)
    PROVE  CmpInv'
<1>. DEFINE t == txn[r]
            u == [t EXCEPT !.reminded = today]
<1>1. /\ t # NoTxn /\ t.reminds /\ t.reminded = Kept
      /\ txn' = [txn EXCEPT ![r] = u]
      /\ mailed' = IF sent /\ mailed < 2 THEN mailed + 1 ELSE mailed
      /\ overlapped' = \/ overlapped
                       \/ "reminded" \in t.stale
                       \/ \E other \in Requests : Cmp!Reminded(other)
      /\ UNCHANGED <<today, doc, checked, how>>
    BY DEF Cmp!Remind, Cmp!InFlight, Cmp!Reminded
<1>2. /\ Cmp!TypeOK /\ t \in Cmp!Txn /\ today \in Cmp!Day /\ today \in Nat /\ today # Kept
      /\ mailed \in 0..2 /\ overlapped \in BOOLEAN
    BY <1>1, CmpDays DEF CmpInv, Cmp!TypeOK
<1>3. CmpStatusInv(t) /\ CmpReminderInv(t) /\ CmpCreateInv(r)
    BY <1>1 DEF CmpInv, CmpTxnInv
<1>4. /\ u \in Cmp!Txn /\ u.status = t.status /\ u.expiry = t.expiry /\ u.reminded = today
      /\ u.deletes = t.deletes /\ u.day = t.day /\ u.names = t.names
      /\ u.reminds = t.reminds /\ u.stale = t.stale
  <2>. HIDE DEF t
  <2>. QED
    BY <1>2 DEF Cmp!Txn
<1>5. u # NoTxn
    BY <1>4 DEF CmpAssumptions, Cmp!NoneAssumption
<1>. HIDE DEF t, u
<1>6. txn'[r] = u /\ \A q \in Requests \ {r} : txn'[q] = txn[q]
    BY <1>1 DEF CmpInv, Cmp!TypeOK
<1>7. Cmp!TypeOK'
    BY <1>1, <1>2, <1>4 DEF Cmp!TypeOK
<1>8. doc # NoDoc
    BY <1>1, <1>3 DEF CmpReminderInv
<1>9. CmpTxnInv(r)'
  <2>1. Cmp!Merged(u).status = Cmp!Merged(t).status /\ Cmp!Merged(u).expiry = Cmp!Merged(t).expiry
    BY <1>2, <1>4, <1>8, CmpMerged
  <2>2. CmpStatusInv(u)
    BY <1>3, <1>4, <2>1 DEF CmpStatusInv
  <2>3. CmpStatusInv(txn[r])'
    BY <1>1, <1>6, <2>2 DEF CmpStatusInv, CmpTells, Cmp!Before, Cmp!Within, Cmp!Merged
  <2>4. CmpReminderInv(txn[r])'
    <3>1. u.reminds /\ u.reminded <= today /\ ("reminded" \notin u.stale => doc.reminded # today)
        BY <1>1, <1>2, <1>3, <1>4 DEF CmpReminderInv
    <3>. QED
        BY <1>1, <1>6, <1>8, <3>1 DEF CmpReminderInv
  <2>5. CmpCreateInv(r)'
    BY <1>1, <1>8 DEF CmpCreateInv
  <2>. QED
    BY <2>3, <2>4, <2>5 DEF CmpTxnInv
<1>10. ASSUME NEW q \in Requests \ {r}, txn[q] # NoTxn PROVE CmpTxnInv(q)'
  <2>1. CmpStatusInv(txn[q]) /\ CmpReminderInv(txn[q])
    BY <1>10 DEF CmpInv, CmpTxnInv
  <2>2. CmpStatusInv(txn[q])'
    BY <1>1, <1>6, <2>1 DEF CmpStatusInv, CmpTells, Cmp!Before, Cmp!Within, Cmp!Merged
  <2>3. CmpReminderInv(txn[q])'
    BY <1>1, <1>6, <2>1 DEF CmpReminderInv
  <2>4. CmpCreateInv(q)'
    BY <1>1, <1>8 DEF CmpCreateInv
  <2>. QED
    BY <2>2, <2>3, <2>4 DEF CmpTxnInv
<1>11. ASSUME NEW q \in Requests \ {r}, txn[q] = NoTxn PROVE CmpTxnInv(q)'
    BY <1>6, <1>11 DEF CmpTxnInv
<1>12. Cmp!StatusTellsDate'
    BY <1>1 DEF CmpInv, Cmp!StatusTellsDate, Cmp!Found, Cmp!Before, Cmp!Within
<1>13. CmpOnRecord'
    BY <1>1, <1>2, <1>4, <1>5, <1>6 DEF CmpOnRecord, Cmp!Reminded, Cmp!InFlight
<1>14. Cmp!OneReminderADay'
  <2>1. ASSUME ~overlapped' PROVE mailed = 0
    <3>1. ~overlapped /\ "reminded" \notin t.stale /\ \A q \in Requests : ~Cmp!Reminded(q)
        BY <1>1, <2>1
    <3>2. doc.reminded # today
        BY <1>1, <1>3, <3>1 DEF CmpReminderInv
    <3>3. ~CmpOnRecord
        BY <3>1, <3>2 DEF CmpOnRecord
    <3>. QED
        BY <3>1, <3>3 DEF CmpInv
  <2>. QED
    BY <1>1, <2>1 DEF Cmp!OneReminderADay
<1>15. doc' # NoDoc /\ doc'.reminded # NoDate => doc'.reminded <= today'
    BY <1>1 DEF CmpInv
<1>. QED
    BY <1>7, <1>9, <1>10, <1>11, <1>12, <1>13, <1>14, <1>15 DEF CmpInv

\* A commit makes stale what the other requests know of the columns it writes.
LEMMA CmpCommitStep ==
    ASSUME CmpInv, CmpAssumptions, NEW r \in Requests, Cmp!Commit(r)
    PROVE  CmpInv'
<1>. DEFINE t == txn[r]
            crosses == "status" \in t.stale
<1>1. /\ t # NoTxn /\ doc' = Cmp!Merged(t)
      /\ checked' = IF t.day = NoDate THEN checked ELSE t.day = today /\ ~crosses
      /\ how' = IF crosses THEN "crossed" ELSE IF t.names THEN "named" ELSE "plain"
      /\ overlapped' = (overlapped \/ (Cmp!Reminded(r) /\ "reminded" \in t.stale))
      /\ UNCHANGED <<today, mailed>>
    BY DEF Cmp!Commit, Cmp!InFlight
<1>2. txn' = [other \in Requests |->
          IF other = r \/ txn[other] = NoTxn THEN NoTxn
          ELSE [txn[other] EXCEPT !.stale = @ \union Cmp!Outdated(t)]]
    BY DEF Cmp!Commit, Cmp!InFlight
<1>3. Cmp!TypeOK /\ t \in Cmp!Txn /\ CmpStatusInv(t) /\ CmpReminderInv(t) /\ CmpCreateInv(r)
    BY <1>1 DEF CmpInv, Cmp!TypeOK, CmpTxnInv
<1>4. Cmp!Reminded(r) <=> t.reminded # Kept
    BY <1>1 DEF Cmp!Reminded, Cmp!InFlight
<1>5. today \in Nat /\ today # NoDate /\ today # Kept
    BY <1>3, CmpDays
<1>. HIDE DEF t
<1>6. doc = NoDoc => t.status # Kept /\ t.expiry # Kept /\ ~t.reminds
    BY <1>3 DEF CmpCreateInv, CmpReminderInv, t
<1>7. /\ doc' \in Cmp!Row /\ doc' # NoDoc
      /\ doc'.status = IF t.status = Kept THEN doc.status ELSE t.status
      /\ doc'.expiry = IF t.expiry = Kept THEN doc.expiry ELSE t.expiry
      /\ t.reminded # Kept => doc'.reminded = t.reminded
      /\ t.reminded = Kept => doc'.reminded = IF doc = NoDoc THEN NoDate ELSE doc.reminded
      /\ doc # NoDoc => (doc'.deleted <=> doc.deleted \/ t.deletes)
    BY <1>1, <1>3, <1>6, CmpMerged DEF CmpAssumptions, Cmp!NoneAssumption
<1>8. Cmp!Outdated(t) \subseteq {"status", "reminded"}
      /\ ("status" \in Cmp!Outdated(t) <=> t.status # Kept \/ t.expiry # Kept)
      /\ ("reminded" \in Cmp!Outdated(t) <=> t.reminded # Kept)
    BY DEF Cmp!Outdated
<1>9. ASSUME NEW q \in Requests \ {r}, txn[q] # NoTxn
      PROVE  /\ txn[q] \in Cmp!Txn /\ txn'[q] \in Cmp!Txn /\ doc # NoDoc
             /\ txn'[q].status = txn[q].status /\ txn'[q].expiry = txn[q].expiry
             /\ txn'[q].reminded = txn[q].reminded /\ txn'[q].deletes = txn[q].deletes
             /\ txn'[q].day = txn[q].day /\ txn'[q].names = txn[q].names
             /\ txn'[q].reminds = txn[q].reminds
             /\ txn'[q].stale = txn[q].stale \union Cmp!Outdated(t)
  <2>1. txn[q] \in Cmp!Txn
    BY <1>3, <1>9 DEF Cmp!TypeOK
  <2>2. txn'[q] = [txn[q] EXCEPT !.stale = txn[q].stale \union Cmp!Outdated(t)]
    BY <1>2, <1>9
  <2>3. txn[q].stale \union Cmp!Outdated(t) \in SUBSET {"status", "reminded"}
    BY <1>8, <2>1, CmpTxnRow
  <2>4. doc # NoDoc
    BY <1>3, <1>9 DEF CmpCreateInv
  <2>. QED
    BY <2>1, <2>2, <2>3, <2>4 DEF Cmp!Txn
<1>10. txn'[r] = NoTxn /\ \A q \in Requests \ {r} : txn[q] = NoTxn => txn'[q] = NoTxn
    BY <1>2
<1>11. Cmp!TypeOK'
  <2>1. \A q \in Requests : txn'[q] \in Cmp!Txn \union {NoTxn}
    BY <1>9, <1>10
  <2>2. txn' \in [Requests -> Cmp!Txn \union {NoTxn}]
    BY <1>2, <2>1
  <2>3. how' \in {"plain", "named", "crossed"} /\ checked' \in BOOLEAN /\ overlapped' \in BOOLEAN
    BY <1>1, <1>3 DEF Cmp!TypeOK
  <2>. QED
    BY <1>1, <1>3, <1>7, <2>2, <2>3 DEF Cmp!TypeOK
<1>12. ASSUME NEW q \in Requests \ {r}, txn[q] # NoTxn PROVE CmpTxnInv(q)'
  <2>1. CmpStatusInv(txn[q]) /\ CmpReminderInv(txn[q])
    BY <1>12 DEF CmpInv, CmpTxnInv
  <2>2. CmpStatusInv(txn[q])'
    <3>1. ASSUME "status" \notin txn'[q].stale
          PROVE  /\ "status" \notin txn[q].stale
                 /\ doc'.status = doc.status /\ doc'.expiry = doc.expiry
        BY <1>7, <1>8, <1>9, <1>12, <3>1
    <3>2. /\ Cmp!Merged(txn[q])'.status = IF txn[q].status = Kept THEN doc'.status
             ELSE txn[q].status
          /\ Cmp!Merged(txn[q])'.expiry = IF txn[q].expiry = Kept THEN doc'.expiry
             ELSE txn[q].expiry
        BY <1>7, <1>9, <1>12 DEF Cmp!Merged
    <3>3. /\ Cmp!Merged(txn[q]).status = IF txn[q].status = Kept THEN doc.status ELSE txn[q].status
          /\ Cmp!Merged(txn[q]).expiry = IF txn[q].expiry = Kept THEN doc.expiry ELSE txn[q].expiry
        BY <1>3, <1>9, <1>12, CmpMerged
    <3>. QED
        BY <1>1, <1>9, <1>12, <2>1, <3>1, <3>2, <3>3 DEF CmpStatusInv, CmpTells, Cmp!Before,
           Cmp!Within
  <2>3. CmpReminderInv(txn[q])'
    <3>1. ASSUME "reminded" \notin txn'[q].stale
          PROVE  "reminded" \notin txn[q].stale /\ doc'.reminded = doc.reminded
        BY <1>7, <1>8, <1>9, <1>12, <3>1
    <3>. QED
        BY <1>1, <1>7, <1>9, <1>12, <2>1, <3>1 DEF CmpReminderInv
  <2>4. CmpCreateInv(q)'
    BY <1>7 DEF CmpCreateInv
  <2>. QED
    BY <2>2, <2>3, <2>4 DEF CmpTxnInv
<1>13. ASSUME NEW q \in Requests, q = r \/ txn[q] = NoTxn PROVE CmpTxnInv(q)'
    BY <1>10, <1>13 DEF CmpTxnInv
<1>14. doc' # NoDoc /\ doc'.reminded # NoDate => doc'.reminded <= today'
    BY <1>1, <1>3, <1>7 DEF CmpInv, CmpReminderInv
<1>15. Cmp!StatusTellsDate'
  <2>1. SUFFICES ASSUME Cmp!Found', checked' PROVE CmpTells(doc'.status, doc'.expiry)
    BY <1>1 DEF Cmp!StatusTellsDate, CmpTells, Cmp!Before, Cmp!Within
  <2>2. CASE t.day = NoDate
    <3>1. t.status = Kept /\ t.expiry = Kept /\ checked /\ doc # NoDoc
        BY <1>1, <1>3, <1>6, <2>1, <2>2 DEF CmpStatusInv
    <3>2. Cmp!Found
        BY <1>7, <2>1, <3>1 DEF Cmp!Found
    <3>. QED
        BY <1>7, <3>1, <3>2 DEF CmpInv, Cmp!StatusTellsDate, CmpTells
  <2>3. CASE t.day # NoDate
    BY <1>1, <1>3, <2>1, <2>3 DEF CmpStatusInv
  <2>. QED
    BY <2>2, <2>3
<1>16. Cmp!OneReminderADay'
    BY <1>1 DEF CmpInv, Cmp!OneReminderADay
<1>17. ASSUME mailed' # 0, ~overlapped' PROVE CmpOnRecord'
  <2>1. CmpOnRecord /\ (t.reminded # Kept => "reminded" \notin t.stale)
    BY <1>1, <1>4, <1>17 DEF CmpInv
  <2>2. CASE t.reminded = today
    BY <1>1, <1>5, <1>7, <2>2 DEF CmpOnRecord
  <2>3. CASE t.reminded # today /\ \E q \in Requests : Cmp!Reminded(q) /\ txn[q].reminded = today
    <3>1. PICK q \in Requests \ {r} : Cmp!Reminded(q) /\ txn[q].reminded = today
        BY <2>3 DEF t
    <3>2. txn[q] # NoTxn /\ txn'[q] # NoTxn /\ txn'[q].reminded = today
        BY <1>9, <3>1 DEF Cmp!Reminded, Cmp!InFlight, CmpAssumptions, Cmp!NoneAssumption
    <3>3. Cmp!Reminded(q)'
        BY <1>5, <3>2 DEF Cmp!Reminded, Cmp!InFlight
    <3>. QED
        BY <1>1, <3>2, <3>3 DEF CmpOnRecord
  <2>4. CASE doc # NoDoc /\ doc.reminded = today
    <3>1. t.reminded = Kept
        BY <1>3, <2>1, <2>4 DEF CmpReminderInv
    <3>. QED
        BY <1>1, <1>7, <2>4, <3>1 DEF CmpOnRecord
  <2>. QED
    BY <2>1, <2>2, <2>3, <2>4 DEF CmpOnRecord
<1>. QED
    BY <1>11, <1>12, <1>13, <1>14, <1>15, <1>16, <1>17 DEF CmpInv


LEMMA CmpRollbackStep ==
    ASSUME CmpInv, NEW r \in Requests, Cmp!Rollback(r)
    PROVE  CmpInv'
<1>1. /\ txn' = [txn EXCEPT ![r] = NoTxn]
      /\ overlapped' = (overlapped \/ Cmp!Reminded(r))
      /\ UNCHANGED <<today, doc, checked, how, mailed>>
    BY DEF Cmp!Rollback
<1>2. txn'[r] = NoTxn /\ \A q \in Requests \ {r} : txn'[q] = txn[q]
    BY <1>1 DEF CmpInv, Cmp!TypeOK
<1>3. Cmp!TypeOK'
  <2>1. overlapped' \in BOOLEAN
    BY <1>1 DEF CmpInv, Cmp!TypeOK
  <2>2. txn' \in [Requests -> Cmp!Txn \union {NoTxn}]
    BY <1>1 DEF CmpInv, Cmp!TypeOK
  <2>. QED
    BY <1>1, <2>1, <2>2 DEF CmpInv, Cmp!TypeOK
<1>4. ASSUME NEW q \in Requests, txn'[q] # NoTxn PROVE CmpTxnInv(q)'
  <2>1. txn'[q] = txn[q] /\ CmpStatusInv(txn[q]) /\ CmpReminderInv(txn[q]) /\ CmpCreateInv(q)
    BY <1>2, <1>4 DEF CmpInv, CmpTxnInv
  <2>2. CmpStatusInv(txn[q])'
    BY <1>1, <2>1 DEF CmpStatusInv, CmpTells, Cmp!Before, Cmp!Within, Cmp!Merged
  <2>3. CmpReminderInv(txn[q])'
    BY <1>1, <2>1 DEF CmpReminderInv
  <2>4. CmpCreateInv(q)'
    BY <1>1, <1>2, <2>1 DEF CmpCreateInv
  <2>. QED
    BY <2>2, <2>3, <2>4 DEF CmpTxnInv
<1>5. ASSUME NEW q \in Requests, txn'[q] = NoTxn PROVE CmpTxnInv(q)'
    BY <1>5 DEF CmpTxnInv
<1>6. Cmp!StatusTellsDate' /\ Cmp!OneReminderADay'
    BY <1>1 DEF CmpInv, Cmp!StatusTellsDate, Cmp!OneReminderADay, Cmp!Found, Cmp!Before, Cmp!Within
<1>7. ~overlapped' /\ CmpOnRecord => CmpOnRecord'
  <2>1. ASSUME ~overlapped', NEW q \in Requests, Cmp!Reminded(q)
        PROVE  Cmp!Reminded(q)' /\ txn'[q] = txn[q]
    BY <1>1, <1>2, <2>1 DEF Cmp!Reminded, Cmp!InFlight
  <2>. QED
    BY <1>1, <2>1 DEF CmpOnRecord
<1>. QED
    BY <1>1, <1>3, <1>4, <1>5, <1>6, <1>7 DEF CmpInv

\* Midnight makes old what was worked out, and a new reminder due.
LEMMA CmpMidnightStep ==
    ASSUME CmpInv, CmpAssumptions, Cmp!DayPasses
    PROVE  CmpInv'
<1>1. /\ today < LastDay /\ today' = today + 1 /\ checked' = FALSE /\ mailed' = 0
      /\ overlapped' = FALSE /\ UNCHANGED <<doc, txn, how>>
    BY DEF Cmp!DayPasses
<1>2. Cmp!TypeOK /\ today \in Nat /\ LastDay \in Nat /\ NoDate \notin Nat /\ Kept \notin Nat
    BY CmpDays DEF CmpInv, CmpAssumptions, Cmp!DaysAssumption
<1>3. Cmp!TypeOK'
  <2>1. today' \in Cmp!Day
    BY <1>1, <1>2 DEF Cmp!Day
  <2>2. checked' \in BOOLEAN /\ overlapped' \in BOOLEAN
    BY <1>1, Zenon
  <2>3. mailed' \in 0..2
    BY <1>1
  <2>. QED
    BY <1>1, <1>2, <2>1, <2>2, <2>3 DEF Cmp!TypeOK
<1>4. doc # NoDoc => doc.reminded # today' /\ (doc.reminded # NoDate => doc.reminded <= today')
  <2>1. doc # NoDoc => doc.reminded = NoDate \/ doc.reminded \in Nat
    BY <1>2, CmpDocRow, CmpDays DEF Cmp!Date
  <2>. QED
    BY <1>1, <1>2, <2>1 DEF CmpInv
<1>5. ASSUME NEW q \in Requests, txn[q] # NoTxn PROVE CmpTxnInv(q)'
  <2>1. /\ CmpStatusInv(txn[q]) /\ CmpReminderInv(txn[q]) /\ CmpCreateInv(q)
        /\ txn[q] \in Cmp!Txn
    BY <1>2, <1>5 DEF CmpInv, CmpTxnInv, Cmp!TypeOK
  <2>2. /\ txn[q].day = NoDate \/ txn[q].day \in Nat
        /\ txn[q].reminded = Kept \/ txn[q].reminded \in Nat
    BY <1>2, <2>1, CmpTxnRow, CmpDays DEF Cmp!Date
  <2>3. txn[q].day # today' /\ (txn[q].day # NoDate => txn[q].day <= today')
    BY <1>1, <1>2, <2>1, <2>2 DEF CmpStatusInv
  <2>4. CmpStatusInv(txn[q])'
    BY <1>1, <2>1, <2>3 DEF CmpStatusInv
  <2>5. CmpReminderInv(txn[q])'
    BY <1>1, <1>2, <1>4, <2>1, <2>2 DEF CmpReminderInv
  <2>6. CmpCreateInv(q)'
    BY <1>1, <2>1 DEF CmpCreateInv
  <2>. QED
    BY <2>4, <2>5, <2>6 DEF CmpTxnInv
<1>6. ASSUME NEW q \in Requests, txn[q] = NoTxn PROVE CmpTxnInv(q)'
    BY <1>1, <1>6 DEF CmpTxnInv
<1>7. Cmp!StatusTellsDate' /\ Cmp!OneReminderADay'
    BY <1>1 DEF Cmp!StatusTellsDate, Cmp!OneReminderADay
<1>. QED
    BY <1>1, <1>3, <1>4, <1>5, <1>6, <1>7 DEF CmpInv

LEMMA CmpStutter ==
    ASSUME CmpInv, UNCHANGED Cmp!vars
    PROVE  CmpInv'
<1>. USE DEF Cmp!vars
<1>1. Cmp!TypeOK'
    BY DEF CmpInv, Cmp!TypeOK
<1>2. ASSUME NEW q \in Requests PROVE CmpTxnInv(q)'
    BY DEF CmpInv, CmpTxnInv, CmpStatusInv, CmpReminderInv, CmpCreateInv, CmpTells, Cmp!Before,
           Cmp!Within, Cmp!Merged
<1>3. Cmp!StatusTellsDate' /\ Cmp!OneReminderADay'
    BY DEF CmpInv, Cmp!StatusTellsDate, Cmp!OneReminderADay, Cmp!Found, Cmp!Before, Cmp!Within
<1>4. CmpOnRecord => CmpOnRecord'
    BY DEF CmpOnRecord, Cmp!Reminded, Cmp!InFlight
<1>. QED
    BY <1>1, <1>2, <1>3, <1>4 DEF CmpInv

LEMMA CmpInductive == CmpAssumptions => (Cmp!Spec => []CmpInv)
<1>. SUFFICES ASSUME CmpAssumptions PROVE Cmp!Spec => []CmpInv
    OBVIOUS
<1>1. Cmp!Init => CmpInv
    BY CmpInit
<1>2. CmpInv /\ [Cmp!Next]_Cmp!vars => CmpInv'
  <2>. SUFFICES ASSUME CmpInv, [Cmp!Next]_Cmp!vars PROVE CmpInv'
    OBVIOUS
  <2>1. \/ \E r \in Requests, expiry \in Cmp!Date : Cmp!CreateDoc(r, expiry)
        \/ \E r \in Requests, status \in Cmp!Status, expiry \in Cmp!Date : Cmp!UpdateDoc(r,
           status, expiry)
        \/ \E r \in Requests : Cmp!RefreshExpiryStatuses(r)
        \/ \E r \in Requests :
              \/ Cmp!DeleteDoc(r) \/ Cmp!VerifyDoc(r)
              \/ \E days \in {Window, LastDay} : Cmp!NotifyExpiringDocs(r, days)
        \/ \E r \in Requests, sent \in BOOLEAN : Cmp!Remind(r, sent)
        \/ \E r \in Requests : Cmp!Commit(r)
        \/ \E r \in Requests : Cmp!Rollback(r)
        \/ Cmp!DayPasses
        \/ UNCHANGED Cmp!vars
    BY DEF Cmp!Next
  <2>. QED
    BY <2>1, CmpCreateStep, CmpUpdateStep, CmpRefreshStep, CmpOtherSteps, CmpRemindStep,
       CmpCommitStep, CmpRollbackStep, CmpMidnightStep, CmpStutter, Zenon
<1>. QED
    BY <1>1, <1>2, PTL DEF Cmp!Spec

\* A document and its requests have their types.
THEOREM CmpTypeCorrect == CmpAssumptions => (Cmp!Spec => []Cmp!TypeOK)
<1>1. CmpInv => Cmp!TypeOK
    BY DEF CmpInv
<1>. QED
    BY <1>1, CmpInductive, PTL

\* However edits, checks and midnights interleave: on the day the status was
\* worked out it does not look better than the date (update_doc,
\* refresh_expiry_statuses).
THEOREM CmpStatusTellsDate == CmpAssumptions => (Cmp!Spec => []Cmp!StatusTellsDate)
<1>1. CmpInv => Cmp!StatusTellsDate
    BY DEF CmpInv
<1>. QED
    BY <1>1, CmpInductive, PTL

\* However many requests remind, and whenever: one reminder goes out a day, until
\* two overlap or one fails after it has mailed (notify_expiring_docs).
THEOREM CmpOneReminderADay == CmpAssumptions => (Cmp!Spec => []Cmp!OneReminderADay)
<1>1. CmpInv => Cmp!OneReminderADay
    BY DEF CmpInv
<1>. QED
    BY <1>1, CmpInductive, PTL

\* No step makes a document better by itself: only the commit of a request that
\* names a status, or has read the document before another one changed it, lifts
\* a revocation or an expiry (_update_expiry_status).
THEOREM CmpNoBetterByItself == CmpAssumptions => (Cmp!Spec => Cmp!NoBetterByItself)
<1>. SUFFICES ASSUME CmpAssumptions PROVE Cmp!Spec => Cmp!NoBetterByItself
    OBVIOUS
<1>. DEFINE Better == doc # NoDoc =>
                          \/ Cmp!Standing(doc'.status) >= Cmp!Standing(doc.status)
                          \/ how' # "plain"
<1>1. ASSUME CmpInv, [Cmp!Next]_Cmp!vars PROVE [Better]_Cmp!vars
  <2>1. SUFFICES ASSUME doc # NoDoc PROVE Better
    OBVIOUS
  <2>2. CASE doc' = doc
    <3>1. Cmp!Standing(doc.status) \in 0..3
        BY <1>1, <2>1, CmpDocRow, CmpStanding DEF CmpInv
    <3>2. Cmp!Standing(doc'.status) = Cmp!Standing(doc.status)
        BY <2>2
    <3>. QED
        BY <3>1, <3>2
  <2>3. CASE \E r \in Requests : Cmp!Commit(r)
    <3>1. PICK r \in Requests : Cmp!Commit(r)
        BY <2>3
    <3>. DEFINE t == txn[r]
    <3>2. /\ t # NoTxn /\ doc' = Cmp!Merged(t)
          /\ how' = IF "status" \in t.stale THEN "crossed"
                    ELSE IF t.names THEN "named" ELSE "plain"
        BY <3>1 DEF Cmp!Commit, Cmp!InFlight
    <3>3. Cmp!TypeOK /\ t \in Cmp!Txn /\ CmpStatusInv(t)
        BY <1>1, <3>2 DEF CmpInv, Cmp!TypeOK, CmpTxnInv
    <3>. HIDE DEF t
    <3>4. doc'.status = IF t.status = Kept THEN doc.status ELSE t.status
        BY <2>1, <3>2, <3>3, CmpMerged
    <3>5. Cmp!Standing(doc.status) \in 0..3
        BY <2>1, <3>3, CmpDocRow, CmpStanding
    <3>6. CASE t.status = Kept
      <4>1. Cmp!Standing(doc'.status) = Cmp!Standing(doc.status)
        BY <3>4, <3>6
      <4>. QED
        BY <3>5, <4>1
    <3>7. CASE t.status # Kept
        BY <2>1, <3>2, <3>3, <3>4, <3>7 DEF CmpStatusInv
    <3>. QED
        BY <3>6, <3>7
  <2>4. (\E r \in Requests : Cmp!Commit(r)) \/ doc' = doc
    BY <1>1 DEF Cmp!Next, Cmp!vars, Cmp!CreateDoc, Cmp!UpdateDoc, Cmp!DeleteDoc, Cmp!VerifyDoc,
                Cmp!RefreshExpiryStatuses,
                Cmp!NotifyExpiringDocs, Cmp!Begin, Cmp!Remind, Cmp!Rollback, Cmp!DayPasses
  <2>. QED
    BY <2>2, <2>3, <2>4
<1>2. Cmp!Spec => [][Better]_Cmp!vars
    BY <1>1, CmpInductive, PTL DEF Cmp!Spec
<1>. QED
    BY <1>2 DEF Cmp!NoBetterByItself

(* Compliance, one request at a time, and no mail by one that fails behind it.  *)
CmpAloneInv ==
    /\ \A r \in Requests : txn[r] # NoTxn => txn[r].stale = {}
    /\ ~overlapped
    /\ how # "crossed"

CmpNoMailLost == \A r \in Requests : Cmp!Rollback(r) => ~Cmp!Reminded(r)

LEMMA CmpAloneBegin ==
    ASSUME OneClient, CmpInv, CmpAloneInv, NEW r \in Requests, NEW t, Cmp!Begin(r, t), t.stale = {}
    PROVE  CmpAloneInv'
<1>1. \A q \in Requests : txn'[q].stale = {}
    BY DEF Cmp!Begin, OneClient, CmpInv, Cmp!TypeOK
<1>. QED
    BY <1>1 DEF Cmp!Begin, CmpAloneInv

LEMMA CmpAloneWork ==
    ASSUME OneClient, CmpInv, CmpAloneInv, NEW r \in Requests,
           \/ \E expiry \in Cmp!Date :
                 \/ Cmp!CreateDoc(r, expiry)
                 \/ \E status \in Cmp!Status : Cmp!UpdateDoc(r, status, expiry)
           \/ Cmp!DeleteDoc(r) \/ Cmp!VerifyDoc(r)
           \/ Cmp!RefreshExpiryStatuses(r)
           \/ \E days \in {Window, LastDay} : Cmp!NotifyExpiringDocs(r, days)
    PROVE  CmpAloneInv'
<1>1. ASSUME NEW expiry \in Cmp!Date, Cmp!CreateDoc(r, expiry) PROVE CmpAloneInv'
    BY <1>1, CmpAloneBegin DEF Cmp!CreateDoc, Cmp!Plain
<1>2. ASSUME NEW expiry \in Cmp!Date, NEW status \in Cmp!Status, Cmp!UpdateDoc(r, status, expiry)
      PROVE  CmpAloneInv'
    BY <1>2, CmpAloneBegin DEF Cmp!UpdateDoc, Cmp!Plain
<1>3. ASSUME Cmp!DeleteDoc(r) \/ Cmp!VerifyDoc(r) PROVE CmpAloneInv'
    BY <1>3, CmpAloneBegin DEF Cmp!DeleteDoc, Cmp!VerifyDoc, Cmp!Plain
<1>4. ASSUME Cmp!RefreshExpiryStatuses(r) PROVE CmpAloneInv'
    BY <1>4, CmpAloneBegin DEF Cmp!RefreshExpiryStatuses, Cmp!Plain
<1>5. ASSUME NEW days, Cmp!NotifyExpiringDocs(r, days) PROVE CmpAloneInv'
    BY <1>5, CmpAloneBegin DEF Cmp!NotifyExpiringDocs, Cmp!Plain
<1>. QED
    BY <1>1, <1>2, <1>3, <1>4, <1>5

LEMMA CmpAloneStep ==
    ASSUME OneClient, CmpInv, CmpAloneInv, [Cmp!Next]_Cmp!vars, [CmpNoMailLost]_Cmp!vars
    PROVE  CmpAloneInv'
<1>1. ASSUME NEW r \in Requests, NEW sent \in BOOLEAN, Cmp!Remind(r, sent)
      PROVE  CmpAloneInv'
  <2>1. ~overlapped'
    <3>1. txn[r].stale = {} /\ \A q \in Requests : ~Cmp!Reminded(q)
        BY <1>1 DEF Cmp!Remind, Cmp!InFlight, CmpAloneInv, OneClient
    <3>. QED
        BY <1>1, <3>1 DEF Cmp!Remind, CmpAloneInv
  <2>2. txn[r] \in Cmp!Txn /\ txn[r] # NoTxn
    BY <1>1 DEF Cmp!Remind, Cmp!InFlight, CmpInv, Cmp!TypeOK
  <2>3. txn'[r].stale = txn[r].stale
    BY <1>1, <2>2 DEF Cmp!Remind, CmpInv, Cmp!TypeOK, Cmp!Txn
  <2>. QED
    BY <1>1, <2>1, <2>2, <2>3 DEF Cmp!Remind, CmpAloneInv, OneClient
<1>2. ASSUME NEW r \in Requests, Cmp!Commit(r) PROVE CmpAloneInv'
  <2>1. txn[r].stale = {}
    BY <1>2 DEF Cmp!Commit, Cmp!InFlight, CmpAloneInv
  <2>2. \A q \in Requests : txn'[q] = NoTxn
    BY <1>2 DEF Cmp!Commit, OneClient
  <2>3. ~overlapped' /\ how' # "crossed"
    BY <1>2, <2>1 DEF Cmp!Commit, CmpAloneInv
  <2>. QED
    BY <2>2, <2>3 DEF CmpAloneInv
<1>3. ASSUME NEW r \in Requests, Cmp!Rollback(r) PROVE CmpAloneInv'
  <2>1. txn' # txn
    BY <1>3 DEF Cmp!Rollback, Cmp!InFlight, CmpInv, Cmp!TypeOK
  <2>2. ~Cmp!Reminded(r)
    BY <1>3, <2>1 DEF Cmp!vars, CmpNoMailLost
  <2>3. \A q \in Requests : txn'[q] = NoTxn
    BY <1>3 DEF Cmp!Rollback, OneClient, CmpInv, Cmp!TypeOK
  <2>. QED
    BY <1>3, <2>2, <2>3 DEF Cmp!Rollback, CmpAloneInv
<1>4. CASE Cmp!DayPasses
    BY <1>4 DEF Cmp!DayPasses, CmpAloneInv
<1>5. CASE UNCHANGED Cmp!vars
    BY <1>5 DEF Cmp!vars, CmpAloneInv
<1>. QED
    BY <1>1, <1>2, <1>3, <1>4, <1>5, CmpAloneWork DEF Cmp!Next

\* With one request at a time, midnight before, within or after it, one reminder
\* goes out a day, unless a request fails that has mailed already, and nothing but
\* naming another status makes a document better.
THEOREM CmpAloneReminders ==
    ASSUME OneClient, CmpAssumptions
    PROVE  Cmp!Spec /\ [][CmpNoMailLost]_Cmp!vars =>
              /\ [](mailed <= 1)
              /\ [][doc # NoDoc =>
                       \/ Cmp!Standing(doc'.status) >= Cmp!Standing(doc.status)
                       \/ how' = "named"]_Cmp!vars
<1>. DEFINE Better ==
              doc # NoDoc =>
                 \/ Cmp!Standing(doc'.status) >= Cmp!Standing(doc.status)
                 \/ how' # "plain"
            Named ==
              doc # NoDoc =>
                 \/ Cmp!Standing(doc'.status) >= Cmp!Standing(doc.status)
                 \/ how' = "named"
<1>1. Cmp!Init => CmpAloneInv
    BY DEF Cmp!Init, CmpAloneInv
<1>2. CmpInv /\ CmpAloneInv /\ [Cmp!Next]_Cmp!vars /\ [CmpNoMailLost]_Cmp!vars => CmpAloneInv'
    BY CmpAloneStep
<1>3. CmpInv /\ CmpAloneInv => mailed <= 1
    BY DEF CmpInv, CmpAloneInv, Cmp!OneReminderADay
<1>4. CmpInv' /\ CmpAloneInv' /\ [Better]_Cmp!vars => [Named]_Cmp!vars
    BY DEF CmpInv, CmpAloneInv, Cmp!TypeOK
<1>5. Cmp!Spec => []CmpInv
    BY CmpInductive
<1>6. Cmp!Spec => [][Better]_Cmp!vars
    BY CmpNoBetterByItself DEF Cmp!NoBetterByItself
<1>. HIDE DEF Better, Named
<1>7. Cmp!Spec /\ [][CmpNoMailLost]_Cmp!vars => []CmpAloneInv
    BY <1>1, <1>2, <1>5, PTL DEF Cmp!Spec
<1>8. Cmp!Spec /\ [][CmpNoMailLost]_Cmp!vars => [](mailed <= 1)
    BY <1>3, <1>5, <1>7, PTL
<1>9. Cmp!Spec /\ [][CmpNoMailLost]_Cmp!vars => [][Named]_Cmp!vars
    BY <1>4, <1>5, <1>6, <1>7, PTL
<1>. QED
    BY <1>8, <1>9 DEF Named

-----------------------------------------------------------------------------
(* Registers. *)

CONSTANTS RegRows

VARIABLES register, row

Reg == INSTANCE Registers WITH Rows <- RegRows

(* What a request in flight, with transaction t, is about to do to its row *)
(* in register reg, where rows are stored: add it having found none        *)
(* (assignments are not looked up); or leave it, remove a device, delete a *)
(* project or a site; or write a member, whose row is there for good.      *)
RegTxnInv(t, reg, rows) ==
    \/ t.from = "none" /\ t.to = "live" /\ (t.seen = {} \/ reg = "assignment")
    \/ t.from # "none" /\ t.to = t.from
    \/ t.from # "none" /\ t.to = "none" /\ reg = "device"
    \/ t.from # "none" /\ t.to = "deleted" /\ reg \in {"project", "site"}
    \/ /\ t.from # "none" /\ t.to \in {"live", "inactive"}
       /\ reg = "member" /\ rows[t.target] \in {"live", "inactive"}

\* Only members are made inactive; a unique key has at most one row of any
\* status, another key at most one that a lookup finds unless a race added one.
RegRowInv ==
    /\ register # "member" => \A x \in RegRows : row[x] # "inactive"
    /\ register \in Reg!Unique =>
          \A x, y \in RegRows : row[x] # "none" /\ row[y] # "none" => x = y
    /\ ~raced /\ register \notin Reg!Unique \union {"assignment"} =>
          \A x, y \in Reg!Listed : x = y

\* What Begin, Commit and Rollback keep: a commit is sound because of what is
\* known of the transaction it carries out.
RegInv ==
    /\ Reg!TypeOK
    /\ \A r \in Requests : txn[r] # NoTxn => RegTxnInv(txn[r], register, row)
    /\ RegRowInv

-----------------------------------------------------------------------------

LEMMA RegInitial == Reg!Init => RegInv
<1> SUFFICES ASSUME Reg!Init
             PROVE  RegInv
  OBVIOUS
<1>1. Reg!TypeOK
  BY DEF Reg!Init, Reg!TypeOK, Reg!Row
<1>2. \A x \in RegRows : row[x] = "none"
  BY DEF Reg!Init
<1>3. Reg!Listed = {}
  BY <1>2 DEF Reg!Listed, Reg!Rowed
<1> QED BY <1>1, <1>2, <1>3 DEF Reg!Init, RegInv, RegRowInv

\* A request that has only read disturbs nothing that is stored.
LEMMA RegBegin ==
    ASSUME RegInv, NEW r \in Requests, NEW x \in RegRows, NEW to \in Reg!Row, Reg!Begin(r, x, to),
           RegTxnInv([target |-> x, from |-> row[x], to |-> to, seen |-> Reg!Listed], register, row)
    PROVE  RegInv'
<1> DEFINE t == [target |-> x, from |-> row[x], to |-> to, seen |-> Reg!Listed]
<1>1. /\ txn' = [txn EXCEPT ![r] = t]
      /\ register' = register /\ row' = row /\ raced' = raced
  BY DEF Reg!Begin
<1>2. /\ row \in [RegRows -> Reg!Row]
      /\ txn \in [Requests -> Reg!Txn \union {NoTxn}]
  BY DEF RegInv, Reg!TypeOK
<1>3. t \in Reg!Txn
  BY <1>2 DEF Reg!Txn, Reg!Listed, Reg!Rowed
<1>4. Reg!TypeOK'
  BY <1>1, <1>2, <1>3 DEF RegInv, Reg!TypeOK
<1>5. RegRowInv'
  BY <1>1 DEF RegInv, RegRowInv, Reg!Listed, Reg!Rowed
<1>6. ASSUME NEW q \in Requests, txn'[q] # NoTxn
      PROVE  RegTxnInv(txn'[q], register', row')
  <2> HIDE DEF t
  <2>1. CASE q = r
    <3>1. txn'[q] = t
      BY <1>1, <1>2, <2>1
    <3>2. RegTxnInv(t, register, row)
      BY DEF t
    <3> QED BY <1>1, <3>1, <3>2 DEF RegTxnInv
  <2>2. CASE q # r
    <3>1. txn'[q] = txn[q]
      BY <1>1, <1>2, <2>2
    <3>2. RegTxnInv(txn[q], register, row)
      BY <1>6, <3>1 DEF RegInv
    <3> QED BY <1>1, <3>1, <3>2 DEF RegTxnInv
  <2> QED BY <2>1, <2>2
<1> QED BY <1>4, <1>5, <1>6 DEF RegInv

\* The handlers that look first, and the one that does not.
LEMMA RegInsertOnce ==
    ASSUME RegInv, NEW r \in Requests, NEW x \in RegRows, Reg!InsertOnce(r, x)
    PROVE  RegInv'
<1>1. Reg!Begin(r, x, "live") /\ row[x] = "none" /\ Reg!Listed = {}
  BY DEF Reg!InsertOnce, Reg!Insert
<1>2. RegTxnInv([target |-> x, from |-> row[x], to |-> "live", seen |-> Reg!Listed], register, row)
  BY <1>1 DEF RegTxnInv
<1> QED BY <1>1, <1>2, RegBegin DEF Reg!Row

LEMMA RegAssign ==
    ASSUME RegInv, NEW r \in Requests, NEW x \in RegRows, Reg!AssignBoqItems(r, x)
    PROVE  RegInv'
<1>1. Reg!Begin(r, x, "live") /\ row[x] = "none" /\ register = "assignment"
  BY DEF Reg!AssignBoqItems, Reg!Insert
<1>2. RegTxnInv([target |-> x, from |-> row[x], to |-> "live", seen |-> Reg!Listed], register, row)
  BY <1>1 DEF RegTxnInv
<1> QED BY <1>1, <1>2, RegBegin DEF Reg!Row

\* An update in place of an insert, of a device or of permissions.
LEMMA RegRepeat ==
    ASSUME RegInv, NEW r \in Requests, NEW x \in RegRows,
           Reg!Listed = {x}, register # "member", Reg!Begin(r, x, "live")
    PROVE  RegInv'
<1>1. row[x] = "live"
  BY DEF RegInv, RegRowInv, Reg!Listed, Reg!Rowed
<1>2. RegTxnInv([target |-> x, from |-> row[x], to |-> "live", seen |-> Reg!Listed], register, row)
  BY <1>1 DEF RegTxnInv
<1> QED BY <1>2, RegBegin DEF Reg!Row

LEMMA RegRemove ==
    ASSUME RegInv, NEW r \in Requests, NEW x \in RegRows,
           \/ Reg!DeleteProject(r, x) \/ Reg!DeleteSite(r, x) \/ Reg!UnregisterDevice(r, x)
    PROVE  RegInv'
<1>1. PICK to \in Reg!Row :
         /\ Reg!Begin(r, x, to) /\ row[x] = "live"
         /\ \/ to = "none" /\ register = "device"
            \/ to = "deleted" /\ register \in {"project", "site"}
  BY DEF Reg!DeleteProject, Reg!DeleteSite, Reg!UnregisterDevice, Reg!Row
<1>2. RegTxnInv([target |-> x, from |-> row[x], to |-> to, seen |-> Reg!Listed], register, row)
  BY <1>1 DEF RegTxnInv
<1> QED BY <1>1, <1>2, RegBegin

LEMMA RegMember ==
    ASSUME RegInv, NEW r \in Requests, NEW x \in RegRows,
           Reg!AddMember(r, x) \/ Reg!RemoveMember(r, x)
    PROVE  RegInv'
<1>1. CASE Reg!InsertOnce(r, x)
  BY <1>1, RegInsertOnce
<1>2. CASE ~Reg!InsertOnce(r, x)
  <2>1. PICK to \in {"live", "inactive"} :
           /\ Reg!Begin(r, x, to) /\ row[x] \in {"live", "inactive"}
           /\ register = "member"
    BY <1>2 DEF Reg!AddMember, Reg!RemoveMember, Reg!Listed, Reg!Rowed
  <2>2. RegTxnInv([target |-> x, from |-> row[x], to |-> to, seen |-> Reg!Listed], register, row)
    BY <2>1 DEF RegTxnInv
  <2> QED BY <2>1, <2>2, RegBegin DEF Reg!Row
<1> QED BY <1>1, <1>2

-----------------------------------------------------------------------------

\* A commit keeps the company of a row: what it adds was looked for, by the
\* index or, without a race, by the request; what else it writes was there.
LEMMA RegCommit ==
    ASSUME RegInv, NEW r \in Requests, Reg!Commit(r)
    PROVE  RegInv'
<1> DEFINE t == txn[r]
           x == t.target
           new == Reg!Flushed(t.from, t.to, row[x])
<1>1. /\ t # NoTxn /\ Reg!Admits(t)
      /\ row' = [row EXCEPT ![x] = new]
      /\ txn' = [txn EXCEPT ![r] = NoTxn]
      /\ raced' = (raced \/ (t.from = "none" /\ Reg!Listed # t.seen))
      /\ register' = register
  BY DEF Reg!Commit
<1>2. /\ row \in [RegRows -> Reg!Row] /\ register \in Reg!Register /\ raced \in BOOLEAN
      /\ txn \in [Requests -> Reg!Txn \union {NoTxn}]
      /\ RegRowInv
  BY DEF RegInv, Reg!TypeOK
<1>3. t \in Reg!Txn /\ x \in RegRows /\ t.from \in Reg!Row /\ t.to \in Reg!Row
  BY <1>1, <1>2 DEF Reg!Txn
<1>4. RegTxnInv(t, register, row)
  BY <1>1 DEF RegInv
<1>5. new \in Reg!Row
  BY <1>2, <1>3 DEF Reg!Flushed
<1>6. /\ row'[x] = new
      /\ \A y \in RegRows \ {x} : row'[y] = row[y]
  BY <1>1, <1>2, <1>3
<1> HIDE DEF t, x, new
<1>7. \/ t.from = "none" /\ new = "live" /\ (t.seen = {} \/ register = "assignment")
      \/ t.from # "none" /\ new = row[x]
      \/ t.from # "none" /\ new = "none" /\ register = "device"
      \/ t.from # "none" /\ new = "deleted" /\ register \in {"project", "site"}
      \/ /\ t.from # "none" /\ new \in {"live", "inactive"}
         /\ register = "member" /\ row[x] \in {"live", "inactive"}
  BY <1>4 DEF RegTxnInv, Reg!Flushed, new, x
<1>8. Reg!TypeOK'
  BY <1>1, <1>2, <1>5 DEF Reg!TypeOK
<1>9. ASSUME NEW q \in Requests, txn'[q] # NoTxn
      PROVE  RegTxnInv(txn'[q], register', row')
  <2>1. q # r /\ txn'[q] = txn[q]
    BY <1>1, <1>2, <1>9
  <2>2. RegTxnInv(txn[q], register, row) /\ txn[q] \in Reg!Txn
    BY <1>2, <1>9, <2>1 DEF RegInv
  <2>3. txn[q].target \in RegRows
    BY <2>2 DEF Reg!Txn
  <2>4. register = "member" /\ row[txn[q].target] \in {"live", "inactive"}
           => row'[txn[q].target] \in {"live", "inactive"}
    BY <1>6, <1>7, <2>3
  <2> QED BY <1>1, <2>1, <2>2, <2>4 DEF RegTxnInv
<1>10. RegRowInv'
  <2>1. register' # "member" => \A y \in RegRows : row'[y] # "inactive"
    BY <1>1, <1>2, <1>3, <1>6, <1>7 DEF RegRowInv, x
  <2>2. ASSUME register' \in Reg!Unique, NEW y \in RegRows, NEW z \in RegRows,
               row'[y] # "none", row'[z] # "none"
        PROVE  y = z
    <3>1. register \in Reg!Unique
      BY <1>1, <2>2
    <3>2. CASE t.from = "none"
      <4>1. \A u \in RegRows : row[u] = "none"
        BY <1>1, <3>1, <3>2 DEF Reg!Admits, Reg!Rowed
      <4> QED BY <1>6, <2>2, <4>1
    <3>3. CASE t.from # "none"
      <4>1. new = "none" \/ new = row[x]
        BY <1>7, <3>1, <3>3 DEF Reg!Unique
      <4>2. row[y] # "none" /\ row[z] # "none"
        BY <1>6, <2>2, <4>1
      <4> QED BY <1>2, <3>1, <4>2 DEF RegRowInv
    <3> QED BY <3>2, <3>3
  <2>3. ASSUME ~raced', register' \notin Reg!Unique \union {"assignment"},
               NEW y \in Reg!Listed', NEW z \in Reg!Listed'
        PROVE  y = z
    <3>1. ~raced /\ register \notin Reg!Unique \union {"assignment"}
      BY <1>1, <2>3
    <3>2. /\ y \in RegRows /\ row'[y] \in {"live", "inactive"}
          /\ z \in RegRows /\ row'[z] \in {"live", "inactive"}
      BY <2>3 DEF Reg!Listed, Reg!Rowed
    <3>3. CASE t.from = "none"
      <4>1. Reg!Listed = {}
        BY <1>1, <1>7, <2>3, <3>1, <3>3
      <4>2. \A u \in RegRows : row[u] \notin {"live", "inactive"}
        BY <4>1 DEF Reg!Listed, Reg!Rowed
      <4> QED BY <1>6, <3>2, <4>2
    <3>4. CASE t.from # "none"
      <4>1. new \in {"live", "inactive"} => row[x] \in {"live", "inactive"}
        BY <1>7, <3>4
      <4>2. row[y] \in {"live", "inactive"} /\ row[z] \in {"live", "inactive"}
        BY <1>6, <3>2, <4>1
      <4> QED BY <1>2, <3>1, <3>2, <4>2 DEF RegRowInv, Reg!Listed, Reg!Rowed
    <3> QED BY <3>3, <3>4
  <2> QED BY <2>1, <2>2, <2>3 DEF RegRowInv
<1> QED BY <1>8, <1>9, <1>10 DEF RegInv

LEMMA RegRollback ==
    ASSUME RegInv, NEW r \in Requests, Reg!Rollback(r)
    PROVE  RegInv'
<1>1. /\ txn' = [txn EXCEPT ![r] = NoTxn]
      /\ register' = register /\ row' = row /\ raced' = raced
  BY DEF Reg!Rollback
<1>2. txn \in [Requests -> Reg!Txn \union {NoTxn}]
  BY DEF RegInv, Reg!TypeOK
<1>3. Reg!TypeOK'
  BY <1>1, <1>2 DEF RegInv, Reg!TypeOK
<1>4. RegRowInv'
  BY <1>1 DEF RegInv, RegRowInv, Reg!Listed, Reg!Rowed
<1>5. \A q \in Requests : txn'[q] # NoTxn => RegTxnInv(txn'[q], register', row')
  BY <1>1, <1>2 DEF RegInv, RegTxnInv
<1> QED BY <1>3, <1>4, <1>5 DEF RegInv

LEMMA RegStutter == RegInv /\ UNCHANGED Reg!vars => RegInv'
BY DEF Reg!vars, RegInv, Reg!TypeOK, RegTxnInv, RegRowInv, Reg!Listed, Reg!Rowed

LEMMA RegStep == RegInv /\ [Reg!Next]_Reg!vars => RegInv'
<1> SUFFICES ASSUME RegInv, [Reg!Next]_Reg!vars
             PROVE  RegInv'
  OBVIOUS
<1>1. CASE UNCHANGED Reg!vars
  BY <1>1, RegStutter
<1>2. CASE \E r \in Requests : Reg!Commit(r) \/ Reg!Rollback(r)
  BY <1>2, RegCommit, RegRollback
<1>3. ASSUME NEW r \in Requests, NEW x \in RegRows,
             \/ Reg!CreateProject(r, x) \/ Reg!DeleteProject(r, x)
             \/ Reg!CreateSite(r, x) \/ Reg!DeleteSite(r, x)
             \/ Reg!AddMember(r, x) \/ Reg!RemoveMember(r, x)
             \/ Reg!CreateDpr(r, x) \/ Reg!CreatePunchItem(r, x) \/ Reg!AssignBoqItems(r, x)
             \/ Reg!CreateVendor(r, x) \/ Reg!CreateWarehouse(r, x) \/ Reg!CreateCostCode(r, x)
             \/ Reg!UpdatePermissions(r, x)
             \/ Reg!RegisterAccount(r, x) \/ Reg!CreateUser(r, x) \/ Reg!CreateTenantAdmin(r, x)
             \/ Reg!CreateTenant(r, x) \/ Reg!CreatePortalUser(r, x)
             \/ Reg!RegisterDevice(r, x) \/ Reg!UnregisterDevice(r, x)
      PROVE  RegInv'
  <2>1. CASE Reg!InsertOnce(r, x)
    BY <2>1, RegInsertOnce
  <2>2. CASE Reg!AssignBoqItems(r, x)
    BY <2>2, RegAssign
  <2>3. CASE Reg!DeleteProject(r, x) \/ Reg!DeleteSite(r, x) \/ Reg!UnregisterDevice(r, x)
    BY <2>3, RegRemove
  <2>4. CASE Reg!AddMember(r, x) \/ Reg!RemoveMember(r, x)
    BY <2>4, RegMember
  <2>5. CASE /\ ~Reg!InsertOnce(r, x)
             /\ Reg!RegisterDevice(r, x) \/ Reg!UpdatePermissions(r, x)
    <3>1. Reg!Listed = {x} /\ register # "member" /\ Reg!Begin(r, x, "live")
      BY <2>5 DEF Reg!RegisterDevice, Reg!UpdatePermissions
    <3> QED BY <3>1, RegRepeat
  <2> QED BY <1>3, <2>1, <2>2, <2>3, <2>4, <2>5
          DEF Reg!CreateProject, Reg!CreateSite, Reg!CreateDpr, Reg!CreatePunchItem,
              Reg!CreateVendor,
              Reg!CreateWarehouse, Reg!CreateCostCode, Reg!RegisterAccount, Reg!CreateUser,
              Reg!CreateTenantAdmin, Reg!CreateTenant, Reg!CreatePortalUser
<1> QED BY <1>1, <1>2, <1>3 DEF Reg!Next

LEMMA RegInductive == Reg!Spec => []RegInv
BY RegInitial, RegStep, PTL DEF Reg!Spec

-----------------------------------------------------------------------------

\* Every reachable row, request in flight and history variable has its type.
THEOREM RegTypeCorrect == Reg!Spec => []Reg!TypeOK
<1>1. RegInv => Reg!TypeOK
  BY DEF RegInv
<1> QED BY RegInductive, <1>1, PTL

LEMMA RegCardinality ==
    ASSUME NEW S
    PROVE  Reg!Cardinality(S) = Cardinality(S)
BY DEF Reg!Cardinality, Cardinality

\* A key has one row, however many requests overlap, wherever there is a unique
\* index; elsewhere, unless a row was added behind the back of a request.
THEOREM RegOneRow == Reg!Spec => []Reg!OneRowPerKey
<1>1. RegInv => Reg!OneRowPerKey
  <2> SUFFICES ASSUME RegInv, register # "assignment", ~raced \/ register \in Reg!Unique
               PROVE  Reg!Cardinality(Reg!Listed) <= 1
    BY DEF Reg!OneRowPerKey
  <2>. SUFFICES Cardinality(Reg!Listed) <= 1
    BY RegCardinality
  <2>1. \A x, y \in Reg!Listed : x = y
    BY DEF RegInv, RegRowInv, Reg!Listed, Reg!Rowed
  <2>2. CASE Reg!Listed = {}
    BY <2>2, FS_EmptySet
  <2>3. CASE Reg!Listed # {}
    <3>1. PICK x : Reg!Listed = {x}
      BY <2>1, <2>3
    <3> QED BY <3>1, FS_Singleton
  <2> QED BY <2>2, <2>3
<1> QED BY RegInductive, <1>1, PTL

-----------------------------------------------------------------------------
(* Registers, one request at a time: what a request has looked up is still  *)
(* what is listed.                                                          *)
RegAloneInv ==
    /\ \A r \in Requests : txn[r] # NoTxn => txn[r].seen = Reg!Listed
    /\ ~raced

LEMMA RegAloneStep ==
    ASSUME OneClient, RegInv, RegAloneInv, [Reg!Next]_Reg!vars
    PROVE  RegAloneInv'
<1>1. ASSUME NEW r \in Requests, NEW x, NEW to, Reg!Begin(r, x, to)
      PROVE  RegAloneInv'
  <2> DEFINE t == [target |-> x, from |-> row[x], to |-> to, seen |-> Reg!Listed]
  <2>1. t.seen = Reg!Listed
    OBVIOUS
  <2>2. txn' = [txn EXCEPT ![r] = t] /\ row' = row /\ raced' = raced
    BY <1>1 DEF Reg!Begin
  <2> HIDE DEF t
  <2>3. \A q \in Requests : txn'[q] = t
    BY <2>2 DEF OneClient, RegInv, Reg!TypeOK
  <2>4. Reg!Listed' = Reg!Listed
    BY <2>2 DEF Reg!Listed, Reg!Rowed
  <2> QED BY <2>1, <2>2, <2>3, <2>4 DEF RegAloneInv
<1>2. ASSUME NEW r \in Requests, Reg!Commit(r)
      PROVE  RegAloneInv'
  <2>1. txn[r].seen = Reg!Listed /\ ~raced
    BY <1>2 DEF Reg!Commit, RegAloneInv
  <2>2. \A q \in Requests : txn'[q] = NoTxn
    BY <1>2 DEF Reg!Commit, OneClient, RegInv, Reg!TypeOK
  <2> QED BY <1>2, <2>1, <2>2 DEF Reg!Commit, RegAloneInv
<1>3. ASSUME NEW r \in Requests, Reg!Rollback(r)
      PROVE  RegAloneInv'
  <2>1. \A q \in Requests : txn'[q] = NoTxn
    BY <1>3 DEF Reg!Rollback, OneClient, RegInv, Reg!TypeOK
  <2> QED BY <1>3, <2>1 DEF Reg!Rollback, RegAloneInv
<1>4. CASE UNCHANGED Reg!vars
  <2>1. Reg!Listed' = Reg!Listed
    BY <1>4 DEF Reg!vars, Reg!Listed, Reg!Rowed
  <2> QED BY <1>4, <2>1 DEF Reg!vars, RegAloneInv
<1>5. ASSUME NEW r \in Requests, NEW x \in RegRows,
             \/ Reg!CreateProject(r, x) \/ Reg!DeleteProject(r, x)
             \/ Reg!CreateSite(r, x) \/ Reg!DeleteSite(r, x)
             \/ Reg!AddMember(r, x) \/ Reg!RemoveMember(r, x)
             \/ Reg!CreateDpr(r, x) \/ Reg!CreatePunchItem(r, x) \/ Reg!AssignBoqItems(r, x)
             \/ Reg!CreateVendor(r, x) \/ Reg!CreateWarehouse(r, x) \/ Reg!CreateCostCode(r, x)
             \/ Reg!UpdatePermissions(r, x)
             \/ Reg!RegisterAccount(r, x) \/ Reg!CreateUser(r, x) \/ Reg!CreateTenantAdmin(r, x)
             \/ Reg!CreateTenant(r, x) \/ Reg!CreatePortalUser(r, x)
             \/ Reg!RegisterDevice(r, x) \/ Reg!UnregisterDevice(r, x)
      PROVE  RegAloneInv'
  <2>1. \E to : Reg!Begin(r, x, to)
    BY <1>5, Zenon
       DEF Reg!CreateProject, Reg!DeleteProject, Reg!CreateSite, Reg!DeleteSite, Reg!AddMember,
           Reg!RemoveMember,
           Reg!CreateDpr, Reg!CreatePunchItem, Reg!AssignBoqItems, Reg!CreateVendor,
              Reg!CreateWarehouse,
           Reg!CreateCostCode, Reg!UpdatePermissions, Reg!RegisterAccount, Reg!CreateUser,
           Reg!CreateTenantAdmin, Reg!CreateTenant, Reg!CreatePortalUser, Reg!RegisterDevice,
           Reg!UnregisterDevice, Reg!InsertOnce, Reg!Insert
  <2> QED BY <1>1, <2>1
<1> QED BY <1>2, <1>3, <1>4, <1>5 DEF Reg!Next

\* For a client that sends one request at a time a key has one row in every
\* register but that of assignments, with a unique index or without.
THEOREM RegAloneOneRow ==
    ASSUME OneClient
    PROVE  Reg!Spec => [](register # "assignment" => \A x, y \in Reg!Listed : x = y)
<1>1. Reg!Init => RegAloneInv
  BY DEF Reg!Init, RegAloneInv
<1>2. RegInv /\ RegAloneInv /\ [Reg!Next]_Reg!vars => RegAloneInv'
  BY RegAloneStep
<1>3. RegInv /\ RegAloneInv => (register # "assignment" => \A x, y \in Reg!Listed : x = y)
  <2>1. SUFFICES ASSUME RegInv, RegAloneInv, register # "assignment",
                        NEW x \in Reg!Listed, NEW y \in Reg!Listed
                 PROVE  x = y
    OBVIOUS
  <2> QED BY <2>1 DEF RegInv, RegRowInv, RegAloneInv, Reg!Listed, Reg!Rowed
<1> QED BY <1>1, <1>2, <1>3, RegInductive, PTL DEF Reg!Spec

-----------------------------------------------------------------------------
(* Workflows. *)

CONSTANTS Beside

Wfl == INSTANCE Workflows

\* What a request on the project is about to do: a step of the life cycle, with
\* the dates that go with it, if the row has not got them; or no step, and then
\* the project is deleted only if it was not active.
WflProjectInv(t) ==
    /\ t.to = t.from \/ t.to \in Wfl!Allowed(t.from)
    /\ t.to # t.from =>
          /\ "deleted" \notin t.marks
          /\ t.to \in {"active", "completed"} => "started" \in t.marks \union row["project"].marks
          /\ t.to = "completed" => "ended" \in t.marks \union row["project"].marks
    /\ "deleted" \in t.marks => t.from # "active"

\* What a request on the item knows of the marks it adds and of the status it has
\* read: documents and subcontractors alone are deleted, and nothing but a PATCH
\* of an inspection leaves a status that is settled.
WflMarksInv(t) ==
    /\ "deleted" \in t.marks => kind \in {"approval", "subcontractor"}
    /\ kind \in {"approval", "subcontractor"} => t.marks \subseteq {"deleted"}
    /\ kind = "report" => t.marks \subseteq {"edited"}
    /\ kind = "inspection" => t.marks \subseteq {"dated"}
    /\ /\ kind \in {"ncr", "punch_item", "inspection"}
       /\ t.to \in {"closed", "completed", "passed", "failed"} /\ t.to # t.from
       => "dated" \in t.marks \union row["item"].marks \/ t.patches

WflStatusInv(t) ==
    /\ kind \in Wfl!Signed \union Wfl!Elsewhere =>
          t.from \in {"none", "draft", "submitted"} /\ t.to # t.from
    /\ kind = "rfq" => t.from \in {"none", "draft"} /\ t.to # t.from
    /\ kind = "report" => t.from \in {"none", "draft"}
    /\ kind = "inspection" /\ t.from \in {"passed", "failed"} =>
          t.patches \/ (t.to = t.from /\ (t.marks = {} \/ patched))

WflTxnInv(r) ==
    txn[r] # NoTxn =>
        IF txn[r].target = "project" THEN WflProjectInv(txn[r])
        ELSE WflMarksInv(txn[r]) /\ WflStatusInv(txn[r])

\* An active project is not deleted, unless requests crossed, nor any item but a
\* document or a subcontractor.
WflDeletedInv ==
    /\ row["project"].status = "active" /\ "project" \notin crossed =>
          "deleted" \notin row["project"].marks
    /\ "deleted" \in row["item"].marks => kind \in {"approval", "subcontractor"}

WflInv ==
    /\ Wfl!TypeOK
    /\ \A r \in Requests : WflTxnInv(r)
    /\ WflDeletedInv
    /\ Wfl!DatesTellStatus

LEMMA WflRow ==
    ASSUME Wfl!TypeOK, NEW x \in {"project", "item"}
    PROVE  row[x].status \in Wfl!Status /\ row[x].marks \in SUBSET Wfl!Mark
BY DEF Wfl!TypeOK, Wfl!Row

LEMMA WflTxnRow ==
    ASSUME Wfl!TypeOK, NEW r \in Requests, txn[r] # NoTxn
    PROVE  /\ txn[r].target \in {"project", "item"} /\ txn[r].from \in Wfl!Status
           /\ txn[r].to \in Wfl!Status /\ txn[r].marks \in SUBSET Wfl!Mark
                /\ txn[r].patches \in BOOLEAN
BY DEF Wfl!TypeOK, Wfl!Txn

LEMMA WflInitial ==
    ASSUME Wfl!Init
    PROVE  WflInv
<1>. DEFINE none == {}
            start(x) == IF x = "item" THEN "none" ELSE "draft"
            no == FALSE
<1>1. row = [x \in {"project", "item"} |-> [status |-> start(x), marks |-> none]]
    BY DEF Wfl!Init
<1>2. start("item") = "none" /\ start("project") = "draft" /\ none \in SUBSET Wfl!Mark
      /\ none = {} /\ \A x : start(x) \in Wfl!Status
    BY DEF Wfl!Status
<1>. HIDE DEF start, none
<1>3. row \in [{"project", "item"} -> Wfl!Row]
    BY <1>1, <1>2 DEF Wfl!Row
<1>4. patched = no /\ no \in BOOLEAN
    BY DEF Wfl!Init
<1>5. Wfl!TypeOK
  <2>. HIDE DEF no
  <2>. QED
    BY <1>3, <1>4 DEF Wfl!Init, Wfl!TypeOK
<1>6. \A r \in Requests : WflTxnInv(r)
    BY DEF Wfl!Init, WflTxnInv
<1>7. /\ row["project"].status = "draft" /\ row["item"].status = "none"
      /\ "deleted" \notin row["item"].marks
    BY <1>1, <1>2
<1>8. WflDeletedInv /\ Wfl!DatesTellStatus
    BY <1>7 DEF WflDeletedInv, Wfl!DatesTellStatus
<1>. QED
    BY <1>5, <1>6, <1>8 DEF WflInv

\* What a request knows stays true as long as the marks of its row are kept.
LEMMA WflKept ==
    ASSUME WflInv, NEW r \in Requests, txn'[r] = txn[r], kind' = kind, patched => patched',
           \A x \in {"project", "item"} : row[x].marks \subseteq row'[x].marks
    PROVE  WflTxnInv(r)'
<1>1. CASE txn[r] = NoTxn
    BY <1>1 DEF WflTxnInv
<1>2. CASE txn[r] # NoTxn /\ txn[r].target = "project"
  <2>1. WflProjectInv(txn[r]) /\ row["project"].marks \subseteq row'["project"].marks
    BY <1>2, Zenon DEF WflInv, WflTxnInv
  <2>. DEFINE t == txn[r]
  <2>2. t' = t
    OBVIOUS
  <2>3. WflProjectInv(t)'
    <3>. HIDE DEF t
    <3>. QED
      BY <2>1, <2>2 DEF WflProjectInv, Wfl!Allowed, t
  <2>. QED
    BY <1>2, <2>2, <2>3, Zenon DEF WflTxnInv
<1>3. CASE txn[r] # NoTxn /\ txn[r].target # "project"
  <2>. DEFINE t == txn[r]
  <2>1. WflMarksInv(t) /\ WflStatusInv(t) /\ row["item"].marks \subseteq row'["item"].marks
    BY <1>3, Zenon DEF WflInv, WflTxnInv
  <2>2. t' = t
    OBVIOUS
  <2>. HIDE DEF t
  <2>3. WflMarksInv(t)'
    BY <2>1, <2>2 DEF WflMarksInv
  <2>4. WflStatusInv(t)'
    BY <2>1, <2>2 DEF WflStatusInv
  <2>. QED
    BY <1>3, <2>2, <2>3, <2>4, Zenon DEF WflTxnInv, t
<1>. QED
    BY <1>1, <1>2, <1>3

\* A request that has only read disturbs nothing, if it knows what it has to.
LEMMA WflBegin ==
    ASSUME WflInv, NEW r \in Requests, NEW t \in Wfl!Txn, txn' = [txn EXCEPT ![r] = t],
           UNCHANGED <<kind, row, crossed, patched>>,
           t.target = "project" => WflProjectInv(t),
           t.target = "item" => WflMarksInv(t) /\ WflStatusInv(t)
    PROVE  WflInv'
<1>1. Wfl!TypeOK'
    BY DEF WflInv, Wfl!TypeOK
<1>2. txn'[r] = t /\ \A q \in Requests \ {r} : txn'[q] = txn[q]
    BY DEF WflInv, Wfl!TypeOK
<1>3. t.target \in {"project", "item"}
    BY DEF Wfl!Txn
<1>4. WflTxnInv(r)'
  <2>1. txn[r]' = t
    BY <1>2
  <2>2. CASE t.target = "project"
    <3>1. WflProjectInv(txn[r])'
      BY <2>1, <2>2 DEF WflProjectInv, Wfl!Allowed
    <3>. QED
      BY <2>1, <2>2, <3>1, Zenon DEF WflTxnInv
  <2>3. CASE t.target = "item"
    <3>1. WflMarksInv(txn[r])'
      BY <2>1, <2>3 DEF WflMarksInv
    <3>2. WflStatusInv(txn[r])'
      BY <2>1, <2>3 DEF WflStatusInv
    <3>3. t.target # "project"
      BY <2>3
    <3>. QED
      BY <2>1, <3>1, <3>2, <3>3, Zenon DEF WflTxnInv
  <2>. QED
    BY <1>3, <2>2, <2>3
<1>5. \A q \in Requests : WflTxnInv(q)'
    BY <1>2, <1>4, WflKept
<1>6. WflDeletedInv' /\ Wfl!DatesTellStatus'
    BY DEF WflInv, WflDeletedInv, Wfl!DatesTellStatus
<1>. QED
    BY <1>1, <1>5, <1>6 DEF WflInv

\* A handler has begun with request t.
WflBegun(r, x, to, marks, patches, t) ==
    /\ t.target = x /\ t.from = row[x].status /\ t.to = to
    /\ t.marks = marks \ row[x].marks /\ t.patches = patches
    /\ txn' = [txn EXCEPT ![r] = t]
    /\ UNCHANGED <<kind, row, crossed, patched>>
    /\ "deleted" \notin row[x].marks

LEMMA WflBeginTxn ==
    ASSUME Wfl!TypeOK, NEW r \in Requests, NEW x \in {"project", "item"}, NEW to \in Wfl!Status,
           NEW marks \in SUBSET Wfl!Mark, NEW patches \in BOOLEAN, Wfl!Begin(r, x, to, marks,
              patches)
    PROVE  \E t \in Wfl!Txn : WflBegun(r, x, to, marks, patches, t)
<1>. DEFINE from == row[x].status left == marks \ row[x].marks
            t == [target |-> x, from |-> from, to |-> to, marks |-> left, patches |-> patches]
<1>1. from \in Wfl!Status /\ left \in SUBSET Wfl!Mark
    BY WflRow
<1>2. txn' = [txn EXCEPT ![r] = t] /\ UNCHANGED <<kind, row, crossed, patched>>
      /\ "deleted" \notin row[x].marks
    BY DEF Wfl!Begin
<1>. HIDE DEF from, left
<1>3. /\ t \in Wfl!Txn /\ t.target = x /\ t.from = from /\ t.to = to /\ t.marks = left
      /\ t.patches = patches
    BY <1>1 DEF Wfl!Txn
<1>. HIDE DEF t
<1>4. WflBegun(r, x, to, marks, patches, t)
    BY <1>2, <1>3 DEF WflBegun, from, left
<1>. QED
    BY <1>3, <1>4

\* What a handler of an item may assign, by kind, of the status it finds.
WflMay(to, marks, patches) ==
    LET from == row["item"].status IN
    /\ "deleted" \in marks => kind \in {"approval", "subcontractor"}
    /\ kind \in {"approval", "subcontractor"} => marks \subseteq {"deleted"}
    /\ kind = "report" => marks \subseteq {"edited"} /\ from \in {"none", "draft"}
    /\ kind = "inspection" => marks \subseteq {"dated"}
    /\ kind = "inspection" /\ from \in {"passed", "failed"} => patches \/ to = from
    /\ /\ kind \in {"ncr", "punch_item", "inspection"}
       /\ to \in {"closed", "completed", "passed", "failed"} /\ to # from
       => "dated" \in marks \/ patches
    /\ kind \in Wfl!Signed \union Wfl!Elsewhere => from \in {"none", "draft", "submitted"}
         /\ to # from
    /\ kind = "rfq" => from \in {"none", "draft"} /\ to # from

LEMMA WflItem ==
    ASSUME WflInv, NEW r \in Requests, NEW to \in Wfl!Status, NEW marks \in SUBSET Wfl!Mark,
           NEW patches \in BOOLEAN, Wfl!Begin(r, "item", to, marks, patches),
           WflMay(to, marks, patches)
    PROVE  WflInv'
<1>1. Wfl!TypeOK /\ Wfl!DatesTellStatus
    BY DEF WflInv
<1>2a. PICK t \in Wfl!Txn : WflBegun(r, "item", to, marks, patches, t)
    BY <1>1, WflBeginTxn
<1>2. /\ t.target = "item" /\ t.from = row["item"].status /\ t.to = to
      /\ t.marks = marks \ row["item"].marks /\ t.patches = patches
      /\ txn' = [txn EXCEPT ![r] = t]
      /\ UNCHANGED <<kind, row, crossed, patched>>
    BY <1>2a DEF WflBegun
<1>3. WflMarksInv(t)
    BY <1>2 DEF WflMay, WflMarksInv
<1>4. WflStatusInv(t)
  <2>1. kind = "inspection" /\ t.from \in {"passed", "failed"} =>
           "dated" \in row["item"].marks \/ patched
    BY <1>1, <1>2 DEF Wfl!DatesTellStatus
  <2>2. kind = "inspection" /\ t.from \in {"passed", "failed"} =>
           t.patches \/ (t.to = t.from /\ (t.marks = {} \/ patched))
    BY <1>2, <2>1 DEF WflMay
  <2>. QED
    BY <1>2, <2>2 DEF WflMay, WflStatusInv
<1>. QED
    BY <1>2, <1>3, <1>4, WflBegin

LEMMA WflProject ==
    ASSUME WflInv, NEW r \in Requests, Wfl!ProjectStep(r)
    PROVE  WflInv'
<1>. DEFINE from == row["project"].status
<1>1. Wfl!TypeOK /\ Wfl!DatesTellStatus
    BY DEF WflInv
<1>2. PICK to \in Wfl!Status, marks \in SUBSET Wfl!Mark :
         /\ Wfl!Begin(r, "project", to, marks, FALSE)
         /\ to = from \/ to \in Wfl!Allowed(from)
         /\ to # from =>
               /\ "deleted" \notin marks
               /\ to = "active" => "started" \in marks
               /\ to = "completed" => "ended" \in marks
         /\ "deleted" \in marks => from # "active"
  <2>1. from \in Wfl!Status
    BY <1>1, WflRow
  <2>2. ASSUME NEW to \in Wfl!Status, Wfl!UpdateStatus(r, to)
        PROVE  \E marks \in SUBSET Wfl!Mark :
                  /\ Wfl!Begin(r, "project", to, marks, FALSE) /\ to \in Wfl!Allowed(from)
                  /\ "deleted" \notin marks
                  /\ to = "active" => "started" \in marks
                  /\ to = "completed" => "ended" \in marks
    <3>. DEFINE marks == (IF to = "active" THEN {"started"} ELSE {})
                         \union (IF to = "completed" THEN {"ended"} ELSE {})
    <3>1. Wfl!Begin(r, "project", to, marks, FALSE) /\ to \in Wfl!Allowed(from)
      BY <2>2 DEF Wfl!UpdateStatus, Wfl!Work
    <3>2. /\ marks \in SUBSET Wfl!Mark /\ "deleted" \notin marks
          /\ to = "active" => "started" \in marks
          /\ to = "completed" => "ended" \in marks
      BY DEF Wfl!Mark
    <3>. HIDE DEF marks
    <3>. QED
      BY <3>1, <3>2
  <2>3. ASSUME NEW dates \in SUBSET {"started", "ended"}, Wfl!UpdateProject(r, dates)
        PROVE  /\ Wfl!Begin(r, "project", from, dates, FALSE) /\ dates \in SUBSET Wfl!Mark
               /\ "deleted" \notin dates
    BY <2>3 DEF Wfl!UpdateProject, Wfl!Work, Wfl!Mark
  <2>4. ASSUME Wfl!DeleteProject(r)
        PROVE  /\ Wfl!Begin(r, "project", from, {"deleted"}, FALSE)
                    /\ {"deleted"} \in SUBSET Wfl!Mark
               /\ from # "active"
    BY <2>4 DEF Wfl!DeleteProject, Wfl!Work, Wfl!Mark
  <2>5. CASE \E to \in Wfl!Status : Wfl!UpdateStatus(r, to)
    BY <2>2, <2>5
  <2>6. CASE \E dates \in SUBSET {"started", "ended"} : Wfl!UpdateProject(r, dates)
    BY <2>1, <2>3, <2>6
  <2>7. CASE Wfl!DeleteProject(r)
    BY <2>1, <2>4, <2>7
  <2>. QED
    BY <2>5, <2>6, <2>7 DEF Wfl!ProjectStep
<1>3a. PICK t \in Wfl!Txn : WflBegun(r, "project", to, marks, FALSE, t)
    BY <1>1, <1>2, WflBeginTxn
<1>3. /\ t.target = "project" /\ t.from = from /\ t.to = to
      /\ t.marks = marks \ row["project"].marks
      /\ txn' = [txn EXCEPT ![r] = t]
      /\ UNCHANGED <<kind, row, crossed, patched>>
    BY <1>3a DEF WflBegun
<1>4. to = "completed" /\ to # from => "started" \in row["project"].marks
  <2>1. to = "completed" /\ to # from => from = "active"
    BY <1>2 DEF Wfl!Allowed
  <2>. QED
    BY <1>1, <2>1 DEF Wfl!DatesTellStatus
<1>5. WflProjectInv(t)
    BY <1>2, <1>3, <1>4 DEF WflProjectInv
<1>. QED
    BY <1>3, <1>5, WflBegin

\* The status an item is created with is another one.
LEMMA WflFirst ==
    ASSUME NEW k \in Wfl!Kind
    PROVE  /\ Wfl!First(k) \in Wfl!Status /\ Wfl!First(k) # "none"
           /\ Wfl!First(k) \notin {"closed", "completed", "passed", "failed"}
BY DEF Wfl!First, Wfl!Status

LEMMA WflCreate ==
    ASSUME WflInv, NEW r \in Requests, NEW k \in Wfl!Kind, Wfl!Create(r, k)
    PROVE  WflInv'
<1>. DEFINE first == Wfl!First(k)
<1>1. /\ first \in Wfl!Status /\ first # "none"
      /\ first \notin {"closed", "completed", "passed", "failed"}
    BY WflFirst
<1>2. Wfl!Begin(r, "item", first, {}, FALSE) /\ row["item"].status = "none"
    BY DEF Wfl!Create
<1>. HIDE DEF first
<1>3. WflMay(first, {}, FALSE)
    BY <1>1, <1>2 DEF WflMay
<1>. QED
    BY <1>1, <1>2, <1>3, WflItem

\* A step of a kind from one status to another.
LEMMA WflStep ==
    ASSUME WflInv, NEW r \in Requests, NEW k \in Wfl!Kind, NEW from \in Wfl!Status,
           NEW to \in Wfl!Status,
           NEW marks \in SUBSET Wfl!Mark, Wfl!Step(r, k, from, to, marks),
           \/ k \in Wfl!Signed \union Wfl!Elsewhere /\ from \in {"draft", "submitted"} /\ to # from
              /\ "deleted" \notin marks
           \/ k = "rfq" /\ from = "draft" /\ to # from /\ "deleted" \notin marks
           \/ k = "report" /\ from = "draft" /\ marks \subseteq {"edited"}
    PROVE  WflInv'
<1>1. Wfl!Begin(r, "item", to, marks, FALSE) /\ row["item"].status = from /\ kind = k
    BY DEF Wfl!Step, Wfl!Work
<1>2. WflMay(to, marks, FALSE)
    BY <1>1 DEF WflMay, Wfl!Signed, Wfl!Elsewhere
<1>. QED
    BY <1>1, <1>2, WflItem

LEMMA WflFinance ==
    ASSUME WflInv, NEW r \in Requests, Wfl!FinanceStep(r)
    PROVE  WflInv'
<1>1. CASE Wfl!CreateExpense(r) \/ Wfl!CreateChangeOrder(r)
    BY <1>1, WflCreate DEF Wfl!CreateExpense, Wfl!CreateChangeOrder, Wfl!Kind, Wfl!Signed
<1>2. CASE ~(Wfl!CreateExpense(r) \/ Wfl!CreateChangeOrder(r))
  <2>1. PICK k \in Wfl!Signed, from \in {"draft", "submitted"},
             to \in {"submitted", "approved", "rejected"}, marks \in SUBSET {"signed"} :
           Wfl!Step(r, k, from, to, marks) /\ to # from
    <3>1. {} \in SUBSET {"signed"} /\ {"signed"} \in SUBSET {"signed"}
      OBVIOUS
    <3>2. "expense" \in Wfl!Signed /\ "change_order" \in Wfl!Signed
      BY DEF Wfl!Signed
    <3>. QED
      BY <1>2, <3>1, <3>2 DEF Wfl!FinanceStep, Wfl!SubmitExpense, Wfl!ApproveExpense,
         Wfl!RejectExpense,
         Wfl!SubmitChangeOrder, Wfl!ApproveChangeOrder, Wfl!RejectChangeOrder
  <2>2. /\ k \in Wfl!Kind /\ from \in Wfl!Status /\ to \in Wfl!Status /\ marks \in SUBSET Wfl!Mark
        /\ "deleted" \notin marks
    BY DEF Wfl!Kind, Wfl!Status, Wfl!Mark
  <2>. QED
    BY <2>1, <2>2, WflStep
<1>. QED
    BY <1>1, <1>2

LEMMA WflProcurement ==
    ASSUME WflInv, NEW r \in Requests, Wfl!ProcurementStep(r)
    PROVE  WflInv'
<1>1. CASE Wfl!CreateRfq(r) \/ Wfl!CreateQuotation(r) \/ Wfl!CreateGrn(r)
    BY <1>1, WflCreate DEF Wfl!CreateRfq, Wfl!CreateQuotation, Wfl!CreateGrn, Wfl!Kind
<1>2. CASE Wfl!SendRfq(r)
  <2>1. /\ "rfq" \in Wfl!Kind /\ "draft" \in Wfl!Status /\ "sent" \in Wfl!Status
             /\ {} \in SUBSET Wfl!Mark
        /\ "deleted" \notin {} /\ "sent" # "draft"
    BY DEF Wfl!Kind, Wfl!Status
  <2>2. Wfl!Step(r, "rfq", "draft", "sent", {})
    BY <1>2 DEF Wfl!SendRfq
  <2>. QED
    BY <2>1, <2>2, WflStep
<1>3. CASE Wfl!AcceptQuotation(r)
  <2>1. "accepted" \in Wfl!Status /\ {} \in SUBSET Wfl!Mark /\ FALSE \in BOOLEAN
    BY DEF Wfl!Status
  <2>2. Wfl!Begin(r, "item", "accepted", {}, FALSE) /\ kind = "quotation"
    BY <1>3 DEF Wfl!AcceptQuotation, Wfl!Work
  <2>3. WflMay("accepted", {}, FALSE)
    BY <2>2 DEF WflMay, Wfl!Signed, Wfl!Elsewhere
  <2>. QED
    BY <2>1, <2>2, <2>3, WflItem
<1>4. CASE Wfl!ConfirmGrn(r)
  <2>1. "confirmed" \in Wfl!Status /\ {} \in SUBSET Wfl!Mark /\ FALSE \in BOOLEAN
    BY DEF Wfl!Status
  <2>2. Wfl!Begin(r, "item", "confirmed", {}, FALSE) /\ kind = "grn"
    BY <1>4 DEF Wfl!ConfirmGrn, Wfl!Work
  <2>3. WflMay("confirmed", {}, FALSE)
    BY <2>2 DEF WflMay, Wfl!Signed, Wfl!Elsewhere
  <2>. QED
    BY <2>1, <2>2, <2>3, WflItem
<1>. QED
    BY <1>1, <1>2, <1>3, <1>4 DEF Wfl!ProcurementStep

LEMMA WflSiteOps ==
    ASSUME WflInv, NEW r \in Requests, Wfl!SiteOpsStep(r)
    PROVE  WflInv'
<1>1. CASE Wfl!CreateDpr(r)
    BY <1>1, WflCreate DEF Wfl!CreateDpr, Wfl!Kind
<1>2. CASE Wfl!UpdateDpr(r) \/ Wfl!SubmitDpr(r)
  <2>1. PICK to \in {"draft", "submitted"}, marks \in SUBSET {"edited"} :
           Wfl!Step(r, "report", "draft", to, marks)
    <3>1. {} \in SUBSET {"edited"} /\ {"edited"} \in SUBSET {"edited"}
      OBVIOUS
    <3>. QED
      BY <1>2, <3>1 DEF Wfl!UpdateDpr, Wfl!SubmitDpr
  <2>2. /\ "report" \in Wfl!Kind /\ "draft" \in Wfl!Status /\ to \in Wfl!Status
             /\ marks \in SUBSET Wfl!Mark
        /\ "deleted" \notin marks
    BY DEF Wfl!Kind, Wfl!Status, Wfl!Mark
  <2>. QED
    BY <2>1, <2>2, WflStep
<1>. QED
    BY <1>1, <1>2 DEF Wfl!SiteOpsStep

LEMMA WflQuality ==
    ASSUME WflInv, NEW r \in Requests, Wfl!QualityStep(r)
    PROVE  WflInv'
<1>1. CASE Wfl!CreateInspection(r) \/ Wfl!CreateNcr(r) \/ Wfl!CreateIncident(r)
        \/ Wfl!CreatePunchItem(r)
    BY <1>1, WflCreate DEF Wfl!CreateInspection, Wfl!CreateNcr, Wfl!CreateIncident,
       Wfl!CreatePunchItem, Wfl!Kind
<1>2. {} \in SUBSET Wfl!Mark /\ {"dated"} \in SUBSET Wfl!Mark /\ FALSE \in BOOLEAN
    BY DEF Wfl!Mark
<1>3. ASSUME NEW to \in Wfl!Status, Wfl!CompleteInspection(r, to)
      PROVE  WflInv'
  <2>1. /\ Wfl!Begin(r, "item", to, {"dated"}, FALSE) /\ kind = "inspection"
        /\ row["item"].status \notin {"passed", "failed"}
    BY <1>3 DEF Wfl!CompleteInspection, Wfl!Work
  <2>2. WflMay(to, {"dated"}, FALSE)
    BY <2>1 DEF WflMay, Wfl!Signed, Wfl!Elsewhere
  <2>. QED
    BY <1>2, <2>1, <2>2, WflItem
<1>4. ASSUME NEW to \in Wfl!Status, Wfl!UpdateNcr(r, to)
      PROVE  WflInv'
  <2>. DEFINE marks == IF to = "closed" THEN {"dated"} ELSE {}
  <2>1. /\ Wfl!Begin(r, "item", to, marks, FALSE) /\ kind = "ncr"
        /\ to \in {"open", "in_progress", "resolved", "closed"}
    BY <1>4 DEF Wfl!UpdateNcr, Wfl!Work
  <2>2. WflMay(to, marks, FALSE)
    BY <2>1 DEF WflMay, Wfl!Signed, Wfl!Elsewhere
  <2>3. marks \in SUBSET Wfl!Mark
    BY <1>2
  <2>. QED
    BY <1>2, <2>1, <2>2, <2>3, WflItem
<1>5. ASSUME NEW to \in Wfl!Status, Wfl!UpdateIncident(r, to)
      PROVE  WflInv'
  <2>1. Wfl!Begin(r, "item", to, {}, FALSE) /\ kind = "incident"
    BY <1>5 DEF Wfl!UpdateIncident, Wfl!Work
  <2>2. WflMay(to, {}, FALSE)
    BY <2>1 DEF WflMay, Wfl!Signed, Wfl!Elsewhere
  <2>. QED
    BY <1>2, <2>1, <2>2, WflItem
<1>6. ASSUME NEW to \in Wfl!Status, NEW given \in SUBSET {"dated"}, Wfl!UpdatePunchItem(r, to,
             given)
      PROVE  WflInv'
  <2>. DEFINE marks == IF to = "completed" THEN {"dated"} ELSE given
  <2>1. /\ Wfl!Begin(r, "item", to, marks, FALSE) /\ kind = "punch_item"
        /\ to \in {"open", "in_progress", "completed", "verified", "rejected"}
    BY <1>6 DEF Wfl!UpdatePunchItem, Wfl!Work
  <2>2. marks \in SUBSET {"dated"} /\ marks \in SUBSET Wfl!Mark
    BY <1>2
  <2>3. WflMay(to, marks, FALSE)
    BY <2>1, <2>2 DEF WflMay, Wfl!Signed, Wfl!Elsewhere
  <2>. QED
    BY <1>2, <2>1, <2>2, <2>3, WflItem
<1>7. ASSUME NEW to \in Wfl!Status, NEW marks \in SUBSET {"dated"}, Wfl!UpdateInspection(r, to,
             marks)
      PROVE  WflInv'
  <2>. DEFINE patches == to # row["item"].status
  <2>1. Wfl!Begin(r, "item", to, marks, patches) /\ kind = "inspection"
    BY <1>7 DEF Wfl!UpdateInspection
  <2>2. marks \in SUBSET Wfl!Mark /\ patches \in BOOLEAN
    BY <1>2
  <2>3. WflMay(to, marks, patches)
    BY <2>1 DEF WflMay, Wfl!Signed, Wfl!Elsewhere
  <2>. QED
    BY <2>1, <2>2, <2>3, WflItem
<1>. QED
    BY <1>1, <1>3, <1>4, <1>5, <1>6, <1>7, Zenon DEF Wfl!QualityStep

LEMMA WflSubcontractor ==
    ASSUME WflInv, NEW r \in Requests, Wfl!SubcontractorStep(r)
    PROVE  WflInv'
<1>1. CASE Wfl!CreateSubcontractor(r) \/ Wfl!CreateContract(r) \/ Wfl!CreateWorkOrder(r)
    BY <1>1, WflCreate DEF Wfl!CreateSubcontractor, Wfl!CreateContract, Wfl!CreateWorkOrder,
       Wfl!Kind
<1>2. {} \in SUBSET Wfl!Mark /\ {"deleted"} \in SUBSET Wfl!Mark /\ FALSE \in BOOLEAN
    BY DEF Wfl!Mark
<1>3. CASE Wfl!DeleteSubcontractor(r)
  <2>. DEFINE from == row["item"].status
  <2>1. Wfl!Begin(r, "item", from, {"deleted"}, FALSE) /\ kind = "subcontractor"
    BY <1>3 DEF Wfl!DeleteSubcontractor, Wfl!Work
  <2>2. from \in Wfl!Status
    BY WflRow DEF WflInv
  <2>3. WflMay(from, {"deleted"}, FALSE)
    BY <2>1 DEF WflMay, Wfl!Signed, Wfl!Elsewhere
  <2>. QED
    BY <1>2, <2>1, <2>2, <2>3, WflItem
<1>4. ASSUME NEW to \in Wfl!Status,
             Wfl!UpdateSubcontractor(r, to) \/ Wfl!UpdateContract(r, to)
                  \/ Wfl!UpdateWorkOrder(r, to)
      PROVE  WflInv'
  <2>1. Wfl!Begin(r, "item", to, {}, FALSE) /\ kind \in {"subcontractor", "contract", "work_order"}
    BY <1>4 DEF Wfl!UpdateSubcontractor, Wfl!UpdateContract, Wfl!UpdateWorkOrder, Wfl!Patch,
                Wfl!Work
  <2>2. WflMay(to, {}, FALSE)
    BY <2>1 DEF WflMay, Wfl!Signed, Wfl!Elsewhere
  <2>. QED
    BY <1>2, <2>1, <2>2, WflItem
<1>. QED
    BY <1>1, <1>3, <1>4, Zenon DEF Wfl!SubcontractorStep

LEMMA WflDecision ==
    ASSUME WflInv, NEW r \in Requests, Wfl!DecisionStep(r)
    PROVE  WflInv'
<1>1. CASE Wfl!CreateElsewhere(r) \/ Wfl!CreateBudgetVersion(r) \/ Wfl!AddApprover(r)
    BY <1>1, WflCreate DEF Wfl!CreateElsewhere, Wfl!CreateBudgetVersion, Wfl!AddApprover, Wfl!Kind
<1>2. CASE Wfl!Submit(r) \/ Wfl!Decide(r)
  <2>1. PICK k \in Wfl!Elsewhere, from \in {"draft", "submitted"},
             to \in {"submitted", "approved", "rejected"} :
           Wfl!Step(r, k, from, to, {}) /\ to # from
    BY <1>2 DEF Wfl!Submit, Wfl!Decide
  <2>2. k \in Wfl!Kind /\ from \in Wfl!Status /\ to \in Wfl!Status /\ {} \in SUBSET Wfl!Mark
        /\ "deleted" \notin {}
    BY DEF Wfl!Kind, Wfl!Status
  <2>. QED
    BY <2>1, <2>2, WflStep
<1>3. {} \in SUBSET Wfl!Mark /\ {"deleted"} \in SUBSET Wfl!Mark /\ {"signed"} \in SUBSET Wfl!Mark
      /\ FALSE \in BOOLEAN
    BY DEF Wfl!Mark
<1>4. CASE Wfl!ApproveBudgetVersion(r)
  <2>1. Wfl!Begin(r, "item", "approved", {"signed"}, FALSE) /\ kind = "budget"
    BY <1>4 DEF Wfl!ApproveBudgetVersion, Wfl!Work
  <2>2. WflMay("approved", {"signed"}, FALSE) /\ "approved" \in Wfl!Status
    BY <2>1 DEF WflMay, Wfl!Signed, Wfl!Elsewhere, Wfl!Status
  <2>. QED
    BY <1>3, <2>1, <2>2, WflItem
<1>5. ASSUME NEW to \in Wfl!Status, Wfl!ActionApproval(r, to)
      PROVE  WflInv'
  <2>1. Wfl!Begin(r, "item", to, {}, FALSE) /\ kind = "approval"
    BY <1>5 DEF Wfl!ActionApproval, Wfl!Work
  <2>2. WflMay(to, {}, FALSE)
    BY <2>1 DEF WflMay, Wfl!Signed, Wfl!Elsewhere
  <2>. QED
    BY <1>3, <2>1, <2>2, WflItem
<1>6. CASE Wfl!DeleteDocument(r)
  <2>. DEFINE from == row["item"].status
  <2>1. Wfl!Begin(r, "item", from, {"deleted"}, FALSE) /\ kind = "approval"
    BY <1>6 DEF Wfl!DeleteDocument, Wfl!Work
  <2>2. from \in Wfl!Status
    BY WflRow DEF WflInv
  <2>3. WflMay(from, {"deleted"}, FALSE)
    BY <2>1 DEF WflMay, Wfl!Signed, Wfl!Elsewhere
  <2>. QED
    BY <1>3, <2>1, <2>2, <2>3, WflItem
<1>. QED
    BY <1>1, <1>2, <1>4, <1>5, <1>6, Zenon DEF Wfl!DecisionStep

\* What a commit writes.
LEMMA WflWrites ==
    ASSUME WflInv, NEW r \in Requests, Wfl!Commit(r)
    PROVE  LET t == txn[r] x == t.target IN
           /\ t # NoTxn /\ x \in {"project", "item"} /\ t.marks \in SUBSET Wfl!Mark
           /\ row'[x].status = IF t.to = t.from THEN row[x].status ELSE t.to
           /\ row'[x].marks = row[x].marks \union t.marks
           /\ \A y \in {"project", "item"} : y # x => row'[y] = row[y]
           /\ row' \in [{"project", "item"} -> Wfl!Row]
           /\ t.marks = {} /\ t.to = t.from => row' = row
           /\ crossed' = IF Wfl!Crosses(t) THEN crossed \union {x} ELSE crossed
           /\ txn' = [txn EXCEPT ![r] = NoTxn]
           /\ (patched' <=> patched \/ t.patches) /\ patched' \in BOOLEAN
           /\ kind' = kind
<1>. DEFINE t == txn[r] x == t.target
            status == Wfl!Flushed(t.from, t.to, row[x].status)
            marks == row[x].marks \union t.marks
            new == [status |-> status, marks |-> marks]
<1>1. /\ t # NoTxn /\ row' = [row EXCEPT ![x] = new]
      /\ crossed' = IF Wfl!Crosses(t) THEN crossed \union {x} ELSE crossed
      /\ txn' = [txn EXCEPT ![r] = NoTxn]
      /\ patched' = (patched \/ t.patches) /\ kind' = kind
    BY DEF Wfl!Commit
<1>2. Wfl!TypeOK /\ row \in [{"project", "item"} -> Wfl!Row]
    BY DEF WflInv, Wfl!TypeOK
<1>3. /\ x \in {"project", "item"} /\ t.marks \in SUBSET Wfl!Mark /\ t.to \in Wfl!Status
      /\ t.from \in Wfl!Status /\ t.patches \in BOOLEAN
    BY <1>1, <1>2, WflTxnRow
<1>4. row[x] \in Wfl!Row /\ row[x].status \in Wfl!Status /\ row[x].marks \in SUBSET Wfl!Mark
    BY <1>2, <1>3, WflRow DEF Wfl!Row
<1>5. status = IF t.to = t.from THEN row[x].status ELSE t.to
    BY DEF Wfl!Flushed
<1>. HIDE DEF t, status
<1>6. status \in Wfl!Status /\ marks \in SUBSET Wfl!Mark
    BY <1>3, <1>4, <1>5
<1>7. t.marks = {} => marks = row[x].marks
    OBVIOUS
<1>. HIDE DEF marks, x
<1>8. new \in Wfl!Row /\ new.status = status /\ new.marks = marks
    BY <1>6 DEF Wfl!Row
<1>9. status = row[x].status /\ marks = row[x].marks => new = row[x]
    BY <1>4 DEF Wfl!Row
<1>. HIDE DEF new
<1>10. row'[x] = new /\ \A y \in {"project", "item"} : y # x => row'[y] = row[y]
    BY <1>1, <1>2, <1>3 DEF x
<1>11. row' \in [{"project", "item"} -> Wfl!Row]
    BY <1>1, <1>2, <1>3, <1>8 DEF x
<1>12. t.marks = {} /\ t.to = t.from => row' = row
    BY <1>1, <1>2, <1>3, <1>5, <1>7, <1>9 DEF x
<1>13. (patched' <=> patched \/ t.patches) /\ patched' \in BOOLEAN
    BY <1>1, Zenon
<1>. QED
    BY <1>1, <1>3, <1>5, <1>8, <1>10, <1>11, <1>12, <1>13 DEF t, x, marks

LEMMA WflCommit ==
    ASSUME WflInv, NEW r \in Requests, Wfl!Commit(r)
    PROVE  WflInv'
<1>. DEFINE t == txn[r] x == t.target
<1>1. /\ t # NoTxn /\ x \in {"project", "item"} /\ t.marks \in SUBSET Wfl!Mark
      /\ row'[x].status = IF t.to = t.from THEN row[x].status ELSE t.to
      /\ row'[x].marks = row[x].marks \union t.marks
      /\ \A y \in {"project", "item"} : y # x => row'[y] = row[y]
      /\ row' \in [{"project", "item"} -> Wfl!Row]
      /\ crossed' = IF Wfl!Crosses(t) THEN crossed \union {x} ELSE crossed
      /\ txn' = [txn EXCEPT ![r] = NoTxn]
      /\ (patched' <=> patched \/ t.patches) /\ patched' \in BOOLEAN
      /\ kind' = kind
    BY WflWrites
<1>2. Wfl!TypeOK /\ WflDeletedInv /\ Wfl!DatesTellStatus /\ WflTxnInv(r)
    BY DEF WflInv
<1>3. IF x = "project" THEN WflProjectInv(t) ELSE WflMarksInv(t) /\ WflStatusInv(t)
    BY <1>1, <1>2 DEF WflTxnInv
<1>. HIDE DEF t
<1>4. Wfl!TypeOK'
    BY <1>1, <1>2 DEF Wfl!TypeOK
<1>5. \A y \in {"project", "item"} : row[y].marks \subseteq row'[y].marks
    BY <1>1
<1>6. ASSUME NEW q \in Requests
      PROVE  WflTxnInv(q)'
  <2>1. CASE q = r
    <3>1. txn'[q] = NoTxn
      BY <1>1, <1>2, <2>1 DEF Wfl!TypeOK
    <3>. QED
      BY <3>1 DEF WflTxnInv
  <2>2. CASE q # r
    <3>1. txn'[q] = txn[q]
      BY <1>1, <1>2, <2>2 DEF Wfl!TypeOK
    <3>. QED
      BY <1>1, <1>5, <3>1, WflKept
  <2>. QED
    BY <2>1, <2>2
<1>7. CASE x = "project"
  <2>1. row'["item"] = row["item"]
    BY <1>1, <1>7
  <2>2. WflProjectInv(t)
    BY <1>3, <1>7
  <2>3. row'["project"].status = (IF t.to = t.from THEN row["project"].status ELSE t.to)
        /\ row'["project"].marks = row["project"].marks \union t.marks
    BY <1>1, <1>7
  <2>4. Wfl!DatesTellStatus'
    <3>1. row'["project"].status \in {"active", "completed"} =>
             "started" \in row'["project"].marks
      BY <1>2, <2>2, <2>3 DEF Wfl!DatesTellStatus, WflProjectInv
    <3>2. row'["project"].status = "completed" => "ended" \in row'["project"].marks
      BY <1>2, <2>2, <2>3 DEF Wfl!DatesTellStatus, WflProjectInv
    <3>. QED
      BY <1>1, <1>2, <2>1, <3>1, <3>2 DEF Wfl!DatesTellStatus
  <2>5. ASSUME row'["project"].status = "active", "project" \notin crossed'
        PROVE  "deleted" \notin row'["project"].marks
    <3>1. "project" \notin crossed /\ ~Wfl!Crosses(t)
      BY <1>1, <1>7, <2>5
    <3>2. CASE t.to # t.from
      BY <1>7, <2>2, <2>3, <3>1, <3>2 DEF WflProjectInv, Wfl!Crosses
    <3>3. CASE t.to = t.from
      BY <1>2, <1>7, <2>2, <2>3, <2>5, <3>1, <3>3 DEF WflProjectInv, WflDeletedInv, Wfl!Crosses
    <3>. QED
      BY <3>2, <3>3
  <2>6. WflDeletedInv'
    BY <1>1, <1>2, <2>1, <2>5 DEF WflDeletedInv
  <2>. QED
    BY <1>4, <1>6, <2>4, <2>6 DEF WflInv
<1>8. CASE x = "item"
  <2>1. row'["project"] = row["project"] /\ ("project" \in crossed' <=> "project" \in crossed)
    BY <1>1, <1>8
  <2>2. WflMarksInv(t) /\ WflStatusInv(t)
    BY <1>3, <1>8
  <2>3. row'["item"].status = (IF t.to = t.from THEN row["item"].status ELSE t.to)
        /\ row'["item"].marks = row["item"].marks \union t.marks
    BY <1>1, <1>8
  <2>4. Wfl!DatesTellStatus'
    <3>1. ASSUME kind \in {"ncr", "punch_item", "inspection"},
                 row'["item"].status \in {"closed", "completed", "passed", "failed"}
          PROVE  "dated" \in row'["item"].marks \/ patched'
      BY <1>1, <1>2, <2>2, <2>3, <3>1 DEF Wfl!DatesTellStatus, WflMarksInv
    <3>. QED
      BY <1>1, <1>2, <2>1, <3>1 DEF Wfl!DatesTellStatus
  <2>5. WflDeletedInv'
    BY <1>1, <1>2, <2>1, <2>2, <2>3 DEF WflDeletedInv, WflMarksInv
  <2>. QED
    BY <1>4, <1>6, <2>4, <2>5 DEF WflInv
<1>. QED
    BY <1>1, <1>7, <1>8

LEMMA WflRollback ==
    ASSUME WflInv, NEW r \in Requests, Wfl!Rollback(r)
    PROVE  WflInv'
<1>1. txn' = [txn EXCEPT ![r] = NoTxn] /\ UNCHANGED <<kind, row, crossed, patched>>
    BY DEF Wfl!Rollback
<1>2. Wfl!TypeOK'
    BY <1>1 DEF WflInv, Wfl!TypeOK
<1>3. txn'[r] = NoTxn /\ \A q \in Requests \ {r} : txn'[q] = txn[q]
    BY <1>1 DEF WflInv, Wfl!TypeOK
<1>4. WflTxnInv(r)'
    BY <1>3 DEF WflTxnInv
<1>5. \A q \in Requests : WflTxnInv(q)'
    BY <1>1, <1>3, <1>4, WflKept
<1>6. WflDeletedInv' /\ Wfl!DatesTellStatus'
    BY <1>1 DEF WflInv, WflDeletedInv, Wfl!DatesTellStatus
<1>. QED
    BY <1>2, <1>5, <1>6 DEF WflInv

LEMMA WflStutter ==
    ASSUME WflInv, UNCHANGED Wfl!vars
    PROVE  WflInv'
<1>1. \A q \in Requests : WflTxnInv(q)'
    BY WflKept DEF Wfl!vars
<1>2. Wfl!TypeOK' /\ WflDeletedInv' /\ Wfl!DatesTellStatus'
    BY DEF Wfl!vars, WflInv, Wfl!TypeOK, WflDeletedInv, Wfl!DatesTellStatus
<1>. QED
    BY <1>1, <1>2 DEF WflInv

\* Handlers write nothing before they commit.
LEMMA WflReads ==
    ASSUME NEW r \in Requests,
           \/ Wfl!ProjectStep(r) \/ Wfl!FinanceStep(r) \/ Wfl!ProcurementStep(r)
                \/ Wfl!SiteOpsStep(r)
           \/ Wfl!QualityStep(r) \/ Wfl!SubcontractorStep(r) \/ Wfl!DecisionStep(r)
                \/ Wfl!Rollback(r)
    PROVE  row' = row
<1>1. \A x, to, marks, patches : Wfl!Begin(r, x, to, marks, patches) => row' = row
    BY DEF Wfl!Begin
<1>2. /\ \A x, to, marks : Wfl!Work(r, x, to, marks) => row' = row
      /\ \A k : Wfl!Create(r, k) => row' = row
    BY <1>1, Zenon DEF Wfl!Work, Wfl!Create
<1>3. /\ \A k, from, to, marks : Wfl!Step(r, k, from, to, marks) => row' = row
      /\ \A k, to, statuses : Wfl!Patch(r, k, to, statuses) => row' = row
    BY <1>2, Zenon DEF Wfl!Step, Wfl!Patch
<1>4. Wfl!ProjectStep(r) => row' = row
    BY <1>2 DEF Wfl!ProjectStep, Wfl!UpdateStatus, Wfl!UpdateProject, Wfl!DeleteProject
<1>5. Wfl!FinanceStep(r) => row' = row
    BY <1>2, <1>3, Zenon
    DEF Wfl!FinanceStep, Wfl!CreateExpense, Wfl!SubmitExpense, Wfl!ApproveExpense,
        Wfl!RejectExpense,
        Wfl!CreateChangeOrder, Wfl!SubmitChangeOrder, Wfl!ApproveChangeOrder, Wfl!RejectChangeOrder
<1>6. Wfl!ProcurementStep(r) => row' = row
    BY <1>2, <1>3, Zenon
    DEF Wfl!ProcurementStep, Wfl!CreateRfq, Wfl!SendRfq, Wfl!CreateQuotation, Wfl!AcceptQuotation,
        Wfl!CreateGrn, Wfl!ConfirmGrn
<1>7. Wfl!SiteOpsStep(r) => row' = row
    BY <1>2, <1>3, Zenon DEF Wfl!SiteOpsStep, Wfl!CreateDpr, Wfl!UpdateDpr, Wfl!SubmitDpr
<1>8. Wfl!QualityStep(r) => row' = row
    BY <1>1, <1>2
    DEF Wfl!QualityStep, Wfl!CreateInspection, Wfl!CreateNcr, Wfl!CreateIncident,
        Wfl!CreatePunchItem,
        Wfl!CompleteInspection, Wfl!UpdateNcr, Wfl!UpdateIncident, Wfl!UpdateInspection,
           Wfl!UpdatePunchItem
<1>9. Wfl!SubcontractorStep(r) => row' = row
    BY <1>2, <1>3, Zenon
    DEF Wfl!SubcontractorStep, Wfl!CreateSubcontractor, Wfl!DeleteSubcontractor, Wfl!CreateContract,
        Wfl!CreateWorkOrder, Wfl!UpdateSubcontractor, Wfl!UpdateContract, Wfl!UpdateWorkOrder
<1>10. Wfl!DecisionStep(r) => row' = row
    BY <1>2, <1>3, Zenon
    DEF Wfl!DecisionStep, Wfl!CreateElsewhere, Wfl!Submit, Wfl!Decide, Wfl!CreateBudgetVersion,
        Wfl!ApproveBudgetVersion, Wfl!AddApprover, Wfl!ActionApproval, Wfl!DeleteDocument
<1>11. Wfl!Rollback(r) => row' = row
    BY DEF Wfl!Rollback
<1>. QED
    BY <1>4, <1>5, <1>6, <1>7, <1>8, <1>9, <1>10, <1>11

LEMMA WflInductive == WflInv /\ [Wfl!Next]_Wfl!vars => WflInv'
<1>1. SUFFICES ASSUME WflInv, [Wfl!Next]_Wfl!vars PROVE WflInv'
    OBVIOUS
<1>2. CASE Wfl!Next
    BY <1>1, <1>2, WflProject, WflFinance, WflProcurement, WflSiteOps, WflQuality,
       WflSubcontractor, WflDecision, WflCommit, WflRollback, Zenon DEF Wfl!Next
<1>. QED
    BY <1>1, <1>2, WflStutter

LEMMA WflAlways == Wfl!Spec => []WflInv
<1>1. Wfl!Init => WflInv
    BY WflInitial
<1>. QED
    BY <1>1, WflInductive, PTL DEF Wfl!Spec

\* Rows and requests in flight have the columns they are declared with.
THEOREM WflTypeCorrect == Wfl!Spec => []Wfl!TypeOK
<1>1. WflInv => Wfl!TypeOK
    BY DEF WflInv
<1>. QED
    BY <1>1, WflAlways, PTL

\* Dates do not lag behind the status, however requests cross (update_status,
\* update_ncr, update_punch_item, complete_inspection).
THEOREM WflDatesTellStatus == Wfl!Spec => []Wfl!DatesTellStatus
<1>1. WflInv => Wfl!DatesTellStatus
    BY DEF WflInv
<1>. QED
    BY <1>1, WflAlways, PTL

\* What awaits a decision in an active project counts in the total of an inbox,
\* unless requests on the project crossed (delete_project, get_inbox).
THEOREM WflActiveIsCounted == Wfl!Spec => []Wfl!ActiveIsCounted
<1>1. WflInv => Wfl!ActiveIsCounted
  <2>1. SUFFICES ASSUME WflInv, row["project"].status = "active", "project" \notin crossed,
        Wfl!Awaits
                 PROVE  Wfl!Counted
    BY DEF Wfl!ActiveIsCounted
  <2>2. "deleted" \notin row["project"].marks
    BY <2>1 DEF WflInv, WflDeletedInv
  <2>. QED
    BY <2>1, <2>2 DEF Wfl!Awaits, Wfl!Counted, Wfl!Pending, Wfl!PendingFinance,
       Wfl!PendingProcurement,
       Wfl!PendingInventory, Wfl!PendingDocuments, Wfl!Signed, Wfl!Elsewhere
<1>. QED
    BY <1>1, WflAlways, PTL

\* A settled item stays as it is and a settled project keeps its status, but for a
\* request that had read the row before, and a PATCH of an inspection.
THEOREM WflSettledStays == Wfl!Spec => Wfl!SettledStays
<1>. DEFINE Stays ==
              /\ Wfl!Settled("item") =>
                    row'["item"] = row["item"] \/ "item" \in crossed' \/ patched'
              /\ Wfl!Settled("project") =>
                    \/ row'["project"].status = row["project"].status
                    \/ "project" \in crossed'
<1>1. ASSUME WflInv, [Wfl!Next]_Wfl!vars PROVE [Stays]_Wfl!vars
  <2>1. CASE row' = row
    BY <2>1
  <2>2. ASSUME NEW r \in Requests, Wfl!Commit(r)
        PROVE  Stays
    <3>. DEFINE t == txn[r] x == t.target
    <3>1. /\ t # NoTxn /\ x \in {"project", "item"} /\ t.marks \in SUBSET Wfl!Mark
          /\ row'[x].status = IF t.to = t.from THEN row[x].status ELSE t.to
          /\ row'[x].marks = row[x].marks \union t.marks
          /\ \A y \in {"project", "item"} : y # x => row'[y] = row[y]
          /\ row' \in [{"project", "item"} -> Wfl!Row]
          /\ t.marks = {} /\ t.to = t.from => row' = row
          /\ crossed' = IF Wfl!Crosses(t) THEN crossed \union {x} ELSE crossed
          /\ (patched' <=> patched \/ t.patches)
      BY <1>1, <2>2, WflWrites
    <3>2. Wfl!TypeOK /\ WflDeletedInv /\ Wfl!DatesTellStatus
      BY <1>1 DEF WflInv
    <3>3. IF x = "project" THEN WflProjectInv(t) ELSE WflMarksInv(t) /\ WflStatusInv(t)
      BY <1>1, <3>1 DEF WflInv, WflTxnInv
    <3>. HIDE DEF t
    <3>4. CASE x = "project"
      <4>1. row'["item"] = row["item"]
        BY <3>1, <3>4
      <4>2. ASSUME Wfl!Settled("project"), t.to # t.from, ~Wfl!Crosses(t)
            PROVE  FALSE
        <5>1. /\ row["project"].status = t.from /\ "deleted" \notin row["project"].marks
              /\ t.to \in Wfl!Allowed(t.from)
          BY <3>3, <3>4, <4>2 DEF Wfl!Crosses, WflProjectInv
        <5>2. row["project"].status \in {"completed", "cancelled"}
          BY <4>2, <5>1 DEF Wfl!Settled
        <5>. QED
          BY <5>1, <5>2 DEF Wfl!Allowed
      <4>. QED
        BY <3>1, <3>4, <4>1, <4>2
    <3>5. CASE x = "item"
      <4>1. row'["project"] = row["project"]
        BY <3>1, <3>5
      <4>2. WflMarksInv(t) /\ WflStatusInv(t)
        BY <3>3, <3>5
      <4>3. SUFFICES ASSUME Wfl!Settled("item"), ~Wfl!Crosses(t), ~patched'
                     PROVE  row'["item"] = row["item"]
        BY <3>1, <3>5, <4>1
      <4>4. ~patched /\ ~t.patches
        BY <3>1, <4>3
      <4>5. \/ row["item"].status = t.from /\ "deleted" \notin row["item"].marks
            \/ t.to = t.from /\ t.marks \intersect {"deleted", "edited"} = {}
        BY <3>5, <4>3 DEF Wfl!Crosses
      <4>6. \/ "deleted" \in row["item"].marks
            \/ kind \in Wfl!Signed /\ row["item"].status \in {"approved", "rejected"}
            \/ kind = "inspection" /\ row["item"].status \in {"passed", "failed"}
            \/ kind = "report" /\ row["item"].status = "submitted"
            \/ kind = "rfq" /\ row["item"].status = "sent"
            \/ kind \in Wfl!Elsewhere /\ row["item"].status = "rejected"
        BY <4>3 DEF Wfl!Settled, Wfl!Signed, Wfl!Elsewhere
      <4>7. CASE "deleted" \in row["item"].marks
        <5>1. t.to = t.from /\ t.marks = {}
          BY <3>2, <4>2, <4>5, <4>7 DEF WflDeletedInv, WflMarksInv
        <5>. QED
          BY <3>1, <5>1
      <4>8. CASE kind \in Wfl!Signed /\ row["item"].status \in {"approved", "rejected"}
        BY <4>2, <4>5, <4>8 DEF WflStatusInv
      <4>9. CASE kind = "rfq" /\ row["item"].status = "sent"
        BY <4>2, <4>5, <4>9 DEF WflStatusInv
      <4>10. CASE kind \in Wfl!Elsewhere /\ row["item"].status = "rejected"
        BY <4>2, <4>5, <4>10 DEF WflStatusInv
      <4>11. CASE kind = "report" /\ row["item"].status = "submitted"
        <5>1. t.to = t.from /\ t.marks = {}
          BY <4>2, <4>5, <4>11 DEF WflStatusInv, WflMarksInv
        <5>. QED
          BY <3>1, <5>1
      <4>12. CASE kind = "inspection" /\ row["item"].status \in {"passed", "failed"}
        <5>1. t.to = t.from /\ t.marks \subseteq {"dated"}
          BY <4>2, <4>4, <4>5, <4>12 DEF WflStatusInv, WflMarksInv
        <5>2. "dated" \in row["item"].marks
          BY <3>2, <4>4, <4>12 DEF Wfl!DatesTellStatus
        <5>3. row'["item"].status = row["item"].status /\ row'["item"].marks = row["item"].marks
          BY <3>1, <3>5, <5>1, <5>2, SMTT(30)
        <5>4. row'["item"] \in Wfl!Row /\ row["item"] \in Wfl!Row
          BY <3>1, <3>2 DEF Wfl!TypeOK
        <5>. QED
          BY <5>3, <5>4 DEF Wfl!Row
      <4>. QED
        BY <4>6, <4>7, <4>8, <4>9, <4>10, <4>11, <4>12
    <3>. QED
      BY <3>1, <3>4, <3>5
  <2>3. row' = row \/ \E r \in Requests : Wfl!Commit(r)
    BY <1>1, WflReads, Zenon DEF Wfl!Next, Wfl!vars
  <2>. QED
    BY <2>1, <2>2, <2>3
<1>2. Wfl!Spec => [][Stays]_Wfl!vars
    BY <1>1, WflAlways, PTL DEF Wfl!Spec
<1>. QED
    BY <1>2 DEF Wfl!SettledStays

-----------------------------------------------------------------------------
(* Workflows, one request at a time: the status a request has read is still *)
(* the one stored, and the row is not deleted.                              *)
WflUpToDate(t) ==
    row[t.target].status = t.from /\ "deleted" \notin row[t.target].marks

WflAloneInv ==
    /\ \A r \in Requests : txn[r] # NoTxn => WflUpToDate(txn[r])
    /\ crossed = {}

LEMMA WflAloneBegin ==
    ASSUME OneClient, WflInv, WflAloneInv, NEW r \in Requests, NEW x, NEW to, NEW marks,
           NEW patches, Wfl!Begin(r, x, to, marks, patches)
    PROVE  WflAloneInv'
<1>. DEFINE left == marks \ row[x].marks
            t == [target |-> x, from |-> row[x].status, to |-> to, marks |-> left,
                  patches |-> patches]
<1>1. t.target = x /\ t.from = row[x].status
    OBVIOUS
<1>2. /\ txn' = [txn EXCEPT ![r] = t] /\ "deleted" \notin row[x].marks
      /\ UNCHANGED <<row, crossed>>
    BY DEF Wfl!Begin
<1>. HIDE DEF t
<1>3. \A q \in Requests : txn'[q] = t
    BY <1>2 DEF OneClient, WflInv, Wfl!TypeOK
<1>. QED
    BY <1>1, <1>2, <1>3 DEF WflAloneInv, WflUpToDate

\* Every handler begins a request on a row.
LEMMA WflBegins ==
    ASSUME NEW r \in Requests,
           \/ Wfl!ProjectStep(r) \/ Wfl!FinanceStep(r) \/ Wfl!ProcurementStep(r)
                \/ Wfl!SiteOpsStep(r)
           \/ Wfl!QualityStep(r) \/ Wfl!SubcontractorStep(r) \/ Wfl!DecisionStep(r)
    PROVE  \E x, to, marks, patches : Wfl!Begin(r, x, to, marks, patches)
<1>. DEFINE Begins == \E x, to, marks, patches : Wfl!Begin(r, x, to, marks, patches)
<1>1. \A x, to, marks, patches : Wfl!Begin(r, x, to, marks, patches) => Begins
    OBVIOUS
<1>. HIDE DEF Begins
<1>2. /\ \A x, to, marks : Wfl!Work(r, x, to, marks) => Begins
      /\ \A k : Wfl!Create(r, k) => Begins
    BY <1>1, Zenon DEF Wfl!Work, Wfl!Create
<1>3. /\ \A k, from, to, marks : Wfl!Step(r, k, from, to, marks) => Begins
      /\ \A k, to, statuses : Wfl!Patch(r, k, to, statuses) => Begins
    BY <1>2, Zenon DEF Wfl!Step, Wfl!Patch
<1>4. Wfl!ProjectStep(r) => Begins
    BY <1>2 DEF Wfl!ProjectStep, Wfl!UpdateStatus, Wfl!UpdateProject, Wfl!DeleteProject
<1>5. Wfl!FinanceStep(r) => Begins
    BY <1>2, <1>3, Zenon
    DEF Wfl!FinanceStep, Wfl!CreateExpense, Wfl!SubmitExpense, Wfl!ApproveExpense,
        Wfl!RejectExpense,
        Wfl!CreateChangeOrder, Wfl!SubmitChangeOrder, Wfl!ApproveChangeOrder, Wfl!RejectChangeOrder
<1>6. Wfl!ProcurementStep(r) => Begins
    BY <1>2, <1>3, Zenon
    DEF Wfl!ProcurementStep, Wfl!CreateRfq, Wfl!SendRfq, Wfl!CreateQuotation, Wfl!AcceptQuotation,
        Wfl!CreateGrn, Wfl!ConfirmGrn
<1>7. Wfl!SiteOpsStep(r) => Begins
    BY <1>2, <1>3, Zenon DEF Wfl!SiteOpsStep, Wfl!CreateDpr, Wfl!UpdateDpr, Wfl!SubmitDpr
<1>8. Wfl!QualityStep(r) => Begins
    BY <1>1, <1>2
    DEF Wfl!QualityStep, Wfl!CreateInspection, Wfl!CreateNcr, Wfl!CreateIncident,
        Wfl!CreatePunchItem,
        Wfl!CompleteInspection, Wfl!UpdateNcr, Wfl!UpdateIncident, Wfl!UpdateInspection,
           Wfl!UpdatePunchItem
<1>9. Wfl!SubcontractorStep(r) => Begins
    BY <1>2, <1>3, Zenon
    DEF Wfl!SubcontractorStep, Wfl!CreateSubcontractor, Wfl!DeleteSubcontractor, Wfl!CreateContract,
        Wfl!CreateWorkOrder, Wfl!UpdateSubcontractor, Wfl!UpdateContract, Wfl!UpdateWorkOrder
<1>10. Wfl!DecisionStep(r) => Begins
    BY <1>2, <1>3, Zenon
    DEF Wfl!DecisionStep, Wfl!CreateElsewhere, Wfl!Submit, Wfl!Decide, Wfl!CreateBudgetVersion,
        Wfl!ApproveBudgetVersion, Wfl!AddApprover, Wfl!ActionApproval, Wfl!DeleteDocument
<1>11. Begins
    BY <1>4, <1>5, <1>6, <1>7, <1>8, <1>9, <1>10
<1>. QED
    BY <1>11 DEF Begins

LEMMA WflAloneStep ==
    ASSUME OneClient, WflInv, WflAloneInv, [Wfl!Next]_Wfl!vars
    PROVE  WflAloneInv'
<1>1. ASSUME NEW r \in Requests, Wfl!Commit(r)
      PROVE  WflAloneInv'
  <2>1. txn[r] # NoTxn /\ WflUpToDate(txn[r]) /\ crossed = {}
    BY <1>1 DEF Wfl!Commit, WflAloneInv
  <2>2. \A q \in Requests : txn'[q] = NoTxn
    BY <1>1 DEF Wfl!Commit, OneClient, WflInv, Wfl!TypeOK
  <2>3. ~Wfl!Crosses(txn[r])
    BY <2>1 DEF WflUpToDate, Wfl!Crosses
  <2>. QED
    BY <1>1, <2>1, <2>2, <2>3 DEF Wfl!Commit, WflAloneInv
<1>2. ASSUME NEW r \in Requests, Wfl!Rollback(r)
      PROVE  WflAloneInv'
  <2>1. \A q \in Requests : txn'[q] = NoTxn
    BY <1>2 DEF Wfl!Rollback, OneClient, WflInv, Wfl!TypeOK
  <2>. QED
    BY <1>2, <2>1 DEF Wfl!Rollback, WflAloneInv
<1>3. CASE UNCHANGED Wfl!vars
    BY <1>3 DEF Wfl!vars, WflAloneInv, WflUpToDate
<1>4. ASSUME NEW r \in Requests,
             \/ Wfl!ProjectStep(r) \/ Wfl!FinanceStep(r) \/ Wfl!ProcurementStep(r)
                  \/ Wfl!SiteOpsStep(r)
             \/ Wfl!QualityStep(r) \/ Wfl!SubcontractorStep(r) \/ Wfl!DecisionStep(r)
      PROVE  WflAloneInv'
    BY <1>4, WflBegins, WflAloneBegin
<1>. QED
    BY <1>1, <1>2, <1>3, <1>4, Zenon DEF Wfl!Next

\* For a client that sends one request at a time what awaits a decision in an active
\* project counts in the total of an inbox, and nothing settled changes but for a
\* PATCH of an inspection, without exception.
THEOREM WflAloneSettledStays ==
    ASSUME OneClient
    PROVE  Wfl!Spec => /\ [](row["project"].status = "active" => (Wfl!Awaits => Wfl!Counted))
                   /\ [][/\ Wfl!Settled("item") => row'["item"] = row["item"] \/ patched'
                         /\ Wfl!Settled("project") =>
                               row'["project"].status = row["project"].status]_Wfl!vars
<1>. DEFINE Stays ==
              /\ Wfl!Settled("item") =>
                    row'["item"] = row["item"] \/ "item" \in crossed' \/ patched'
              /\ Wfl!Settled("project") =>
                    \/ row'["project"].status = row["project"].status
                    \/ "project" \in crossed'
            AloneStays ==
              /\ Wfl!Settled("item") => row'["item"] = row["item"] \/ patched'
              /\ Wfl!Settled("project") => row'["project"].status = row["project"].status
<1>1. Wfl!Init => WflAloneInv
    BY DEF Wfl!Init, WflAloneInv
<1>2. WflInv /\ WflAloneInv /\ [Wfl!Next]_Wfl!vars => WflAloneInv'
    BY WflAloneStep
<1>3. WflAloneInv /\ Wfl!ActiveIsCounted => (row["project"].status = "active" => (Wfl!Awaits
        => Wfl!Counted))
    BY DEF WflAloneInv, Wfl!ActiveIsCounted
<1>4. WflAloneInv' /\ [Stays]_Wfl!vars => [AloneStays]_Wfl!vars
    BY DEF WflAloneInv
<1>5. Wfl!Spec => [][Stays]_Wfl!vars
    BY WflSettledStays DEF Wfl!SettledStays
<1>. HIDE DEF Stays, AloneStays
<1>6. Wfl!Spec => []WflAloneInv
    BY <1>1, <1>2, WflAlways, PTL DEF Wfl!Spec
<1>7. Wfl!Spec => [][AloneStays]_Wfl!vars
    BY <1>4, <1>5, <1>6, PTL
<1>8. Wfl!Spec => [](row["project"].status = "active" => (Wfl!Awaits => Wfl!Counted))
    BY <1>3, <1>6, WflActiveIsCounted, PTL
<1>. QED
    BY <1>7, <1>8 DEF AloneStays

-----------------------------------------------------------------------------
(* Rollup. *)

CONSTANTS Children, Percents, NoChild, NoRow, DeletedRow

VARIABLES parent, figure, child, drift

Rol == INSTANCE Rollup

\* The operators of the library are the same ones in the instance.
LEMMA RolCardinality ==
    ASSUME NEW S
    PROVE  Rol!Cardinality(S) = Cardinality(S) /\ (Rol!IsFiniteSet(S) <=> IsFiniteSet(S))
BY DEF Rol!Cardinality, Cardinality, Rol!IsFiniteSet, IsFiniteSet

LEMMA RolSum ==
    ASSUME NEW f, NEW S
    PROVE  Rol!SumFunctionOnSet(f, S) = SumFunctionOnSet(f, S)
BY DEF Rol!SumFunctionOnSet, Rol!FoldFunctionOnSet, SumFunctionOnSet, FoldFunctionOnSet,
       MapThenFoldSet, Rol!MapThenFoldSet

RolAssumptions == Rol!ChildrenAssumption /\ Rol!PercentsAssumption /\ Rol!NoneAssumption

\* The children once a request on one of them has been flushed.
RolAfter(t) == [child EXCEPT ![t.target] = Rol!Becomes(t)]

\* A request that recalculates is on a child, and as long as its average is fresh
\* it is what the average will be once the child is what the request makes it.
RolAverageInv(t) ==
    /\ t.recalculates => t.target # NoChild
    /\ t.stage \in {"written", "averaged"} => t.recalculates
    /\ t.stage = "mailing" => t.target = NoChild
    /\ t.stage \in {"averaged", "done"} /\ t.recalculates /\ t.fresh =>
          t.to = Rol!Average(RolAfter(t))

RolInv ==
    /\ Rol!TypeOK
    /\ \A r \in Requests : Rol!InFlight(r) => RolAverageInv(txn[r])
    /\ Rol!FigureIsAverage

LEMMA RolTxnRow ==
    ASSUME NEW t \in Rol!Txn
    PROVE  /\ t.stage \in Rol!Stage /\ t.target \in Children \union {NoChild} /\ t.was \in Rol!Row
           /\ t.becomes \in Rol!Row /\ t.recalculates \in BOOLEAN /\ t.from \in Int /\ t.to \in Int
           /\ t.mails \in BOOLEAN /\ t.fresh \in BOOLEAN
BY DEF Rol!Txn

\* An average of percentages is an integer.
LEMMA RolAverageType ==
    ASSUME RolAssumptions, NEW rows \in [Children -> Rol!Row]
    PROVE  Rol!Average(rows) \in Int
<1>. DEFINE live == {c \in Children : rows[c] \notin {NoRow, DeletedRow}}
<1>1. \A c \in live : rows[c] \in Int
    BY DEF Rol!Row
<1>2. IsFiniteSet(live)
    BY FS_Subset, RolCardinality DEF RolAssumptions, Rol!ChildrenAssumption
<1>3. Rol!Average(rows) = IF live = {} THEN 0 ELSE SumFunctionOnSet(rows,
      live) \div Cardinality(live)
    BY RolSum, RolCardinality DEF Rol!Average
<1>. HIDE DEF live
<1>4. SumFunctionOnSet(rows, live) \in Int
    BY <1>1, <1>2, SumType
<1>5. Cardinality(live) \in Nat /\ (live # {} => Cardinality(live) # 0)
    BY <1>2, FS_CardinalityType, FS_EmptySet
<1>6. \A a \in Int : \A b \in Nat : b # 0 => a \div b \in Int
    OBVIOUS
<1>. QED
    BY <1>3, <1>4, <1>5, <1>6

\* The row of a child that a request leaves behind.
LEMMA RolBecomes ==
    ASSUME Rol!TypeOK, NEW t \in Rol!Txn, t.target # NoChild
    PROVE  /\ t.target \in Children /\ Rol!Becomes(t) \in Rol!Row
           /\ RolAfter(t) \in [Children -> Rol!Row]
           /\ ~Rol!Writes(t) => RolAfter(t) = child
<1>1. t.target \in Children /\ t.was \in Rol!Row /\ t.becomes \in Rol!Row
        /\ child \in [Children -> Rol!Row]
    BY RolTxnRow DEF Rol!TypeOK
<1>2. Rol!Becomes(t) \in Rol!Row
    BY <1>1 DEF Rol!Becomes, Rol!Flushed, Rol!Row
<1>3. ~Rol!Writes(t) => Rol!Becomes(t) = child[t.target]
    BY DEF Rol!Becomes, Rol!Flushed, Rol!Writes
<1>. HIDE DEF Rol!Row
<1>. QED
    BY <1>1, <1>2, <1>3 DEF RolAfter

\* What is said of a request changes only with a child.
LEMMA RolSameChild ==
    ASSUME child' = child, NEW t, RolAverageInv(t)
    PROVE  RolAverageInv(t)'
<1>1. Rol!Becomes(t)' = Rol!Becomes(t)
    BY DEF Rol!Becomes
<1>2. RolAfter(t)' = RolAfter(t)
    BY <1>1 DEF RolAfter
<1>3. Rol!Average(RolAfter(t))' = Rol!Average(RolAfter(t))
    BY <1>2
<1>. QED
    BY <1>3 DEF RolAverageInv

LEMMA RolInitial ==
    ASSUME RolAssumptions, Rol!Init
    PROVE  RolInv
<1>. DEFINE no == FALSE
<1>1. drift = no /\ no \in BOOLEAN
    BY DEF Rol!Init
<1>2. Rol!TypeOK
  <2>. HIDE DEF no
  <2>. QED
    BY <1>1 DEF Rol!Init, Rol!TypeOK, Rol!Row
<1>3. \A r \in Requests : ~Rol!InFlight(r)
    BY DEF Rol!Init, Rol!InFlight
<1>4. Rol!FigureIsAverage
  <2>1. {c \in Children : child[c] \notin {NoRow, DeletedRow}} = {}
    BY DEF Rol!Init
  <2>2. Rol!Average(child) = 0
    BY <2>1 DEF Rol!Average
  <2>. QED
    BY <2>2 DEF Rol!Init, Rol!FigureIsAverage
<1>. QED
    BY <1>2, <1>3, <1>4 DEF RolInv

\* A step that changes one slot only, to a request that is as it has to be.
LEMMA RolOnly ==
    ASSUME RolInv, NEW r \in Requests, NEW t \in Rol!Txn \union {NoTxn},
           txn' = [txn EXCEPT ![r] = t], UNCHANGED <<parent, figure, child, drift>>,
           t # NoTxn => RolAverageInv(t)
    PROVE  RolInv'
<1>1. Rol!TypeOK'
    BY DEF RolInv, Rol!TypeOK
<1>2. txn'[r] = t /\ \A q \in Requests \ {r} : txn'[q] = txn[q]
    BY DEF RolInv, Rol!TypeOK
<1>3. ASSUME NEW q \in Requests, Rol!InFlight(q)'
      PROVE  RolAverageInv(txn[q])'
  <2>1. CASE q = r
    <3>1. txn[q]' = t /\ t # NoTxn
      BY <1>2, <1>3, <2>1 DEF Rol!InFlight
    <3>2. RolAverageInv(t)'
      BY <3>1, RolSameChild
    <3>. QED
      BY <3>1, <3>2 DEF RolAverageInv
  <2>2. CASE q # r
    <3>1. txn[q]' = txn[q] /\ RolAverageInv(txn[q])
      BY <1>2, <1>3, <2>2 DEF RolInv, Rol!InFlight
    <3>2. PICK u : u = txn[q]
      OBVIOUS
    <3>3. RolAverageInv(u)'
      BY <3>1, <3>2, RolSameChild
    <3>. QED
      BY <3>1, <3>2, <3>3 DEF RolAverageInv
  <2>. QED
    BY <2>1, <2>2
<1>4. Rol!FigureIsAverage'
    BY DEF RolInv, Rol!FigureIsAverage, Rol!Average
<1>. QED
    BY <1>1, <1>3, <1>4 DEF RolInv

\* Requests that begin are typed, and have taken no average.
LEMMA RolBegun ==
    ASSUME NEW stage \in Rol!Stage, NEW target \in Children \union {NoChild}, NEW was \in Rol!Row,
           NEW becomes \in Rol!Row, NEW recalculates \in BOOLEAN, NEW from \in Int, NEW to \in Int,
           NEW mails \in BOOLEAN, NEW fresh \in BOOLEAN
    PROVE  LET t == [stage |-> stage, target |-> target, was |-> was, becomes |-> becomes,
                     recalculates |-> recalculates, from |-> from, to |-> to, mails |-> mails,
                     fresh |-> fresh] IN
           /\ t \in Rol!Txn /\ t.stage = stage /\ t.target = target /\ t.recalculates = recalculates
BY DEF Rol!Txn

LEMMA RolOnParent ==
    ASSUME RolAssumptions, NEW from \in Int, NEW to \in Int, NEW mails \in BOOLEAN
    PROVE  Rol!OnParent(from, to, mails) \in Rol!Txn /\ RolAverageInv(Rol!OnParent(from, to, mails))
<1>. DEFINE no == FALSE  yes == TRUE  read == "read"
            t == [stage |-> read, target |-> NoChild, was |-> NoRow, becomes |-> NoRow,
                  recalculates |-> no, from |-> from, to |-> to, mails |-> mails,
                  fresh |-> yes]
<1>1. no \in BOOLEAN /\ yes \in BOOLEAN /\ read \in Rol!Stage /\ NoRow \in Rol!Row
    BY DEF Rol!Stage, Rol!Row
<1>2. ~no /\ read \notin {"written", "averaged", "mailing"} /\ read \notin {"averaged", "done"}
    OBVIOUS
<1>3. Rol!OnParent(from, to, mails) = t
    BY DEF Rol!OnParent
<1>. HIDE DEF no, yes, read
<1>4. t \in Rol!Txn /\ t.stage = read /\ t.recalculates = no
    BY <1>1, RolBegun
<1>. HIDE DEF t
<1>. QED
    BY <1>2, <1>3, <1>4 DEF RolAverageInv

LEMMA RolOnChild ==
    ASSUME RolAssumptions, Rol!TypeOK, NEW c \in Children, NEW becomes \in Rol!Row,
           NEW recalculates \in BOOLEAN
    PROVE  /\ Rol!OnChild(c, becomes, recalculates) \in Rol!Txn
           /\ RolAverageInv(Rol!OnChild(c, becomes, recalculates))
<1>. DEFINE yes == TRUE  no == FALSE  read == "read"  zero == 0
            t == [stage |-> read, target |-> c, was |-> child[c], becomes |-> becomes,
                  recalculates |-> recalculates, from |-> zero, to |-> zero, mails |-> no,
                  fresh |-> yes]
<1>1. no \in BOOLEAN /\ yes \in BOOLEAN /\ read \in Rol!Stage /\ zero \in Int
    BY DEF Rol!Stage
<1>2. read \notin {"written", "averaged", "mailing"} /\ read \notin {"averaged", "done"}
    OBVIOUS
<1>3. Rol!OnChild(c, becomes, recalculates) = t
    BY DEF Rol!OnChild
<1>4. child[c] \in Rol!Row /\ c # NoChild
    BY DEF RolAssumptions, Rol!NoneAssumption, Rol!TypeOK
<1>. HIDE DEF no, yes, read, zero, Rol!Row
<1>5. t \in Rol!Txn /\ t.stage = read /\ t.target = c
    BY <1>1, <1>4, RolBegun
<1>. HIDE DEF t
<1>. QED
    BY <1>2, <1>3, <1>4, <1>5 DEF RolAverageInv

\* A request on a milestone that does not exist yet writes it at once.
LEMMA RolCreated ==
    ASSUME RolAssumptions, Rol!TypeOK, NEW c \in Children, NEW becomes \in Rol!Row
    PROVE  /\ [Rol!OnChild(c, becomes, FALSE) EXCEPT !.stage = "done"] \in Rol!Txn
           /\ RolAverageInv([Rol!OnChild(c, becomes, FALSE) EXCEPT !.stage = "done"])
<1>. DEFINE yes == TRUE  no == FALSE  read == "read"  done == "done"  zero == 0
            t == [stage |-> read, target |-> c, was |-> child[c], becomes |-> becomes,
                  recalculates |-> no, from |-> zero, to |-> zero, mails |-> no,
                  fresh |-> yes]
            u == [stage |-> done, target |-> c, was |-> child[c], becomes |-> becomes,
                  recalculates |-> no, from |-> zero, to |-> zero, mails |-> no,
                  fresh |-> yes]
<1>1. no \in BOOLEAN /\ yes \in BOOLEAN /\ done \in Rol!Stage /\ zero \in Int /\ ~no
    BY DEF Rol!Stage
<1>2. done \notin {"written", "averaged", "mailing"}
    OBVIOUS
<1>3. Rol!OnChild(c, becomes, FALSE) = t
    BY DEF Rol!OnChild
<1>4. child[c] \in Rol!Row /\ c # NoChild
    BY DEF RolAssumptions, Rol!NoneAssumption, Rol!TypeOK
<1>5. [Rol!OnChild(c, becomes, FALSE) EXCEPT !.stage = "done"] = [t EXCEPT !.stage = done]
    BY <1>3
<1>. HIDE DEF no, yes, read, done, zero, Rol!Row
<1>6. [t EXCEPT !.stage = done] = u
    OBVIOUS
<1>7. u \in Rol!Txn /\ u.stage = done /\ u.target = c /\ u.recalculates = no
    BY <1>1, <1>4, RolBegun
<1>. HIDE DEF t, u
<1>. QED
    BY <1>1, <1>2, <1>4, <1>5, <1>6, <1>7 DEF RolAverageInv

\* A request begins.
LEMMA RolBeginKeeps ==
    ASSUME RolInv, NEW r \in Requests, NEW t \in Rol!Txn, RolAverageInv(t), Rol!Begin(r, t)
    PROVE  RolInv'
BY RolOnly DEF Rol!Begin

\* A request goes on, without an average it had not before.
LEMMA RolReachKeeps ==
    ASSUME RolInv, NEW r \in Requests, NEW stage \in Rol!Stage, Rol!InFlight(r), Rol!Reach(r,
           stage),
           stage = "written" => txn[r].recalculates,
           stage = "done" /\ txn[r].recalculates => txn[r].stage = "averaged",
           stage # "averaged",
           stage = "mailing" => txn[r].target = NoChild
    PROVE  RolInv'
<1>. DEFINE t == [txn[r] EXCEPT !.stage = stage]
<1>1. txn[r] \in Rol!Txn /\ txn[r] # NoTxn /\ RolAverageInv(txn[r])
    BY DEF RolInv, Rol!TypeOK, Rol!InFlight
<1>2. txn' = [txn EXCEPT ![r] = t] /\ UNCHANGED <<parent, figure, child, drift>>
    BY DEF Rol!Reach
<1>3. /\ t \in Rol!Txn /\ t.stage = stage /\ t.target = txn[r].target /\ t.was = txn[r].was
      /\ t.becomes = txn[r].becomes /\ t.recalculates = txn[r].recalculates
      /\ t.to = txn[r].to /\ t.fresh = txn[r].fresh
    BY <1>1 DEF Rol!Txn
<1>. HIDE DEF t
<1>4. Rol!Becomes(t) = Rol!Becomes(txn[r])
    BY <1>3 DEF Rol!Becomes
<1>5. RolAfter(t) = RolAfter(txn[r])
    BY <1>3, <1>4 DEF RolAfter
<1>6. RolAverageInv(t)
    BY <1>1, <1>3, <1>5 DEF RolAverageInv
<1>. QED
    BY <1>2, <1>3, <1>6, RolOnly

\* TakeAverage.
LEMMA RolTakeAverageKeeps ==
    ASSUME RolAssumptions, RolInv, NEW r \in Requests, Rol!TakeAverage(r)
    PROVE  RolInv'
<1>. DEFINE avg == Rol!Average(RolAfter(txn[r]))
            averaged == "averaged"
            s == [txn[r] EXCEPT !.stage = averaged]
            t == [s EXCEPT !.to = avg]
<1>1. /\ txn[r] \in Rol!Txn /\ RolAverageInv(txn[r]) /\ txn[r].stage = "written" /\ Rol!InFlight(r)
      /\ txn[r].recalculates /\ txn[r].target # NoChild
    BY DEF RolInv, Rol!TypeOK, Rol!InFlight, Rol!TakeAverage, Rol!At, RolAverageInv
<1>2. avg \in Int
    BY <1>1, RolBecomes, RolAverageType DEF RolInv
<1>3. Rol!Averaged(r, avg)
    BY DEF Rol!TakeAverage, RolAfter
<1>4. averaged \in Rol!Stage /\ averaged # "mailing"
    BY DEF Rol!Stage
<1>5. txn' = [txn EXCEPT ![r] = [@ EXCEPT !.stage = averaged, !.to = avg]]
      /\ UNCHANGED <<parent, figure, child, drift>>
    BY <1>3 DEF Rol!Averaged
<1>. HIDE DEF avg, averaged
<1>6. txn' = [txn EXCEPT ![r] = t]
    BY <1>1, <1>5 DEF RolInv, Rol!TypeOK
<1>7. /\ s \in Rol!Txn /\ s.stage = averaged /\ s.target = txn[r].target /\ s.was = txn[r].was
      /\ s.becomes = txn[r].becomes /\ s.recalculates = txn[r].recalculates
    BY <1>1, <1>4 DEF Rol!Txn
<1>. HIDE DEF s
<1>8. /\ t \in Rol!Txn /\ t.stage = averaged /\ t.target = txn[r].target /\ t.was = txn[r].was
      /\ t.becomes = txn[r].becomes /\ t.recalculates = txn[r].recalculates /\ t.to = avg
    BY <1>2, <1>7 DEF Rol!Txn
<1>. HIDE DEF t
<1>9. Rol!Becomes(t) = Rol!Becomes(txn[r])
    BY <1>8 DEF Rol!Becomes
<1>10. RolAfter(t) = RolAfter(txn[r])
    BY <1>8, <1>9 DEF RolAfter
<1>11. RolAverageInv(t)
    BY <1>1, <1>4, <1>8, <1>10 DEF RolAverageInv, avg
<1>. QED
    BY <1>5, <1>6, <1>8, <1>11, RolOnly

LEMMA RolWriteParentKeeps ==
    ASSUME RolAssumptions, RolInv, NEW r \in Requests, Rol!WriteParent(r) \/ Rol!SendMails(r)
    PROVE  RolInv'
<1>1. RolAverageInv(txn[r])
    BY DEF RolInv, Rol!WriteParent, Rol!SendMails, Rol!At
<1>2. txn[r].target = NoChild /\ ~txn[r].recalculates /\ Rol!InFlight(r)
    BY <1>1 DEF RolAverageInv, Rol!WriteParent, Rol!SendMails, Rol!At
<1>3. PICK stage \in {"mailing", "done"} : Rol!Reach(r, stage)
    BY DEF Rol!WriteParent, Rol!SendMails
<1>4. stage \in Rol!Stage /\ stage # "written" /\ stage # "averaged"
    BY DEF Rol!Stage
<1>. QED
    BY <1>2, <1>3, <1>4, RolReachKeeps

LEMMA RolWriteChildKeeps ==
    ASSUME RolAssumptions, RolInv, NEW r \in Requests, Rol!WriteChild(r)
    PROVE  RolInv'
<1>1. Rol!InFlight(r)
    BY DEF Rol!WriteChild, Rol!At
<1>2. CASE txn[r].recalculates
  <2>1. Rol!Reach(r, "written") /\ "written" \in Rol!Stage
    BY <1>2 DEF Rol!WriteChild, Rol!Stage
  <2>. QED
    BY <1>1, <1>2, <2>1, RolReachKeeps
<1>3. CASE ~txn[r].recalculates
  <2>1. Rol!Reach(r, "done") /\ "done" \in Rol!Stage
    BY <1>3 DEF Rol!WriteChild, Rol!Stage
  <2>. QED
    BY <1>1, <1>3, <2>1, RolReachKeeps
<1>. QED
    BY <1>2, <1>3

LEMMA RolWriteFigureKeeps ==
    ASSUME RolAssumptions, RolInv, NEW r \in Requests, Rol!WriteFigure(r)
    PROVE  RolInv'
<1>1. Rol!InFlight(r) /\ txn[r].stage = "averaged" /\ Rol!Reach(r, "done") /\ "done" \in Rol!Stage
    BY DEF Rol!WriteFigure, Rol!At, Rol!Stage
<1>. QED
    BY <1>1, RolReachKeeps

LEMMA RolRollbackKeeps ==
    ASSUME RolInv, NEW r \in Requests, Rol!Rollback(r)
    PROVE  RolInv'
BY RolOnly DEF Rol!Rollback

\* What the commit of r makes of another request.
LEMMA RolEnded ==
    ASSUME RolInv, NEW r \in Requests, NEW q \in Requests, txn' = Rol!Ended(r), Rol!InFlight(q)'
    PROVE  /\ q # r /\ Rol!InFlight(q) /\ txn[q] \in Rol!Txn /\ txn[q]' \in Rol!Txn
           /\ \/ /\ txn[r].target # NoChild /\ Rol!Writes(txn[r])
                 /\ txn[q]' = [txn[q] EXCEPT !.fresh = FALSE]
              \/ /\ txn[q].stage \notin {"averaged", "done"}
                       \/ txn[r].target = NoChild \/ ~Rol!Writes(txn[r])
                 /\ txn[q]' = txn[q]
<1>. DEFINE stale == /\ Rol!At(q, "averaged") \/ Rol!At(q, "done")
                     /\ txn[r].target # NoChild
                     /\ Rol!Writes(txn[r])
            no == FALSE
            u == [txn[q] EXCEPT !.fresh = no]
<1>1. txn[q]' = IF q = r THEN NoTxn ELSE IF stale THEN u ELSE txn[q]
    BY DEF Rol!Ended
<1>2. q # r
    BY <1>1 DEF Rol!InFlight
<1>3. Rol!InFlight(q)
  <2>1. CASE stale
    BY <2>1 DEF Rol!At
  <2>2. CASE ~stale
    BY <1>1, <1>2, <2>2 DEF Rol!InFlight
  <2>. QED
    BY <2>1, <2>2
<1>4. txn[q] \in Rol!Txn
    BY <1>3 DEF RolInv, Rol!TypeOK, Rol!InFlight
<1>5. stale => /\ txn[r].target # NoChild /\ Rol!Writes(txn[r]) /\ no = FALSE
    OBVIOUS
<1>6. ~stale => txn[q].stage \notin {"averaged", "done"}
                   \/ txn[r].target = NoChild \/ ~Rol!Writes(txn[r])
    BY <1>3 DEF Rol!At
<1>7. no \in BOOLEAN
    OBVIOUS
<1>. HIDE DEF no, stale
<1>8. u \in Rol!Txn
    BY <1>4, <1>7 DEF Rol!Txn
<1>. HIDE DEF u
<1>9. CASE stale
    BY <1>1, <1>2, <1>3, <1>4, <1>5, <1>8, <1>9 DEF u
<1>10. CASE ~stale
    BY <1>1, <1>2, <1>3, <1>4, <1>6, <1>10
<1>. QED
    BY <1>9, <1>10

\* The children after a commit.
LEMMA RolChildAfter ==
    ASSUME RolInv, NEW r \in Requests, Rol!Commit(r)
    PROVE  /\ txn[r] \in Rol!Txn /\ RolAverageInv(txn[r]) /\ txn[r].stage = "done"
           /\ child' = IF txn[r].target = NoChild THEN child ELSE RolAfter(txn[r])
           /\ child' \in [Children -> Rol!Row]
           /\ txn[r].target = NoChild \/ ~Rol!Writes(txn[r]) => child' = child
<1>1. txn[r] \in Rol!Txn /\ RolAverageInv(txn[r]) /\ txn[r].stage = "done" /\ Rol!TypeOK
    BY DEF RolInv, Rol!TypeOK, Rol!Commit, Rol!At, Rol!InFlight
<1>2. child' = IF txn[r].target = NoChild THEN child ELSE RolAfter(txn[r])
    BY DEF Rol!Commit, RolAfter
<1>3. child \in [Children -> Rol!Row]
    BY <1>1 DEF Rol!TypeOK
<1>4. CASE txn[r].target = NoChild
    BY <1>1, <1>2, <1>3, <1>4
<1>5. CASE txn[r].target # NoChild
    BY <1>1, <1>2, <1>5, RolBecomes
<1>. QED
    BY <1>4, <1>5

LEMMA RolCommitType ==
    ASSUME RolAssumptions, RolInv, NEW r \in Requests, Rol!Commit(r)
    PROVE  Rol!TypeOK'
<1>1. txn[r] \in Rol!Txn /\ Rol!TypeOK /\ child' \in [Children -> Rol!Row]
    BY RolChildAfter DEF RolInv
<1>2. /\ txn[r].from \in Int /\ txn[r].to \in Int /\ txn[r].recalculates \in BOOLEAN
      /\ txn[r].fresh \in BOOLEAN /\ figure \in Int /\ drift \in BOOLEAN
    BY <1>1, RolTxnRow DEF Rol!TypeOK
<1>3. figure' \in Int
    BY <1>2 DEF Rol!Commit, Rol!Flushed
<1>4. drift' \in BOOLEAN
    BY <1>2 DEF Rol!Commit
<1>5. parent' \in {"project", "inspection"}
    BY <1>1 DEF Rol!Commit, Rol!TypeOK
<1>6. txn' = Rol!Ended(r)
    BY DEF Rol!Commit
<1>7. \A q \in Requests : txn'[q] \in Rol!Txn \union {NoTxn}
  <2>. TAKE q \in Requests
  <2>1. Rol!InFlight(q)' => txn[q]' \in Rol!Txn
    BY <1>6, RolEnded
  <2>. QED
    BY <2>1 DEF Rol!InFlight
<1>8. txn' \in [Requests -> Rol!Txn \union {NoTxn}]
  <2>1. txn' = [q \in Requests |-> txn'[q]]
    BY <1>6 DEF Rol!Ended
  <2>. QED
    BY <1>7, <2>1
<1>. QED
    BY <1>1, <1>3, <1>4, <1>5, <1>8 DEF Rol!TypeOK

LEMMA RolCommitAverage ==
    ASSUME RolInv, NEW r \in Requests, Rol!Commit(r), NEW q \in Requests, Rol!InFlight(q)'
    PROVE  RolAverageInv(txn[q])'
<1>1. txn' = Rol!Ended(r)
    BY DEF Rol!Commit
<1>2. Rol!InFlight(q) /\ txn[q] \in Rol!Txn /\ txn[q]' \in Rol!Txn /\ RolAverageInv(txn[q])
    BY <1>1, RolEnded DEF RolInv
<1>3. PICK u \in Rol!Txn : u = txn[q]'
    BY <1>2
<1>4. CASE /\ txn[r].target # NoChild /\ Rol!Writes(txn[r])
           /\ txn[q]' = [txn[q] EXCEPT !.fresh = FALSE]
  <2>. DEFINE no == FALSE
  <2>0. ~no /\ u = [txn[q] EXCEPT !.fresh = no]
    BY <1>3, <1>4
  <2>. HIDE DEF no
  <2>1. /\ u.stage = txn[q].stage /\ u.target = txn[q].target
        /\ u.recalculates = txn[q].recalculates /\ u.fresh = no
    BY <1>2, <2>0 DEF Rol!Txn
  <2>2. RolAverageInv(u)'
    BY <1>2, <2>0, <2>1 DEF RolAverageInv
  <2>. QED
    BY <1>3, <2>2 DEF RolAverageInv
<1>5. CASE txn[r].target = NoChild \/ ~Rol!Writes(txn[r])
  <2>1. child' = child
    BY <1>5, RolChildAfter
  <2>2. txn[q]' = txn[q]
    BY <1>1, <1>5, RolEnded
  <2>3. RolAverageInv(u)
    BY <1>2, <1>3, <2>2
  <2>4. RolAverageInv(u)'
    BY <2>1, <2>3, RolSameChild
  <2>. QED
    BY <1>3, <2>4 DEF RolAverageInv
<1>6. CASE txn[q].stage \notin {"averaged", "done"} /\ txn[q]' = txn[q]
  <2>1. u.stage \notin {"averaged", "done"} /\ RolAverageInv(u)
    BY <1>2, <1>3, <1>6
  <2>2. RolAverageInv(u)'
    BY <2>1 DEF RolAverageInv
  <2>. QED
    BY <1>3, <2>2 DEF RolAverageInv
<1>. QED
    BY <1>1, <1>4, <1>5, <1>6, RolEnded

LEMMA RolCommitFigure ==
    ASSUME RolAssumptions, RolInv, NEW r \in Requests, Rol!Commit(r)
    PROVE  Rol!FigureIsAverage'
<1>1. /\ txn[r] \in Rol!Txn /\ RolAverageInv(txn[r]) /\ txn[r].stage = "done"
      /\ child' = IF txn[r].target = NoChild THEN child ELSE RolAfter(txn[r])
    BY RolChildAfter
<1>2. /\ figure' = IF txn[r].recalculates THEN txn[r].to
                   ELSE Rol!Flushed(txn[r].from, txn[r].to, figure)
      /\ drift' = IF txn[r].recalculates THEN ~txn[r].fresh
                  ELSE drift \/ txn[r].target # NoChild \/ txn[r].from # txn[r].to
    BY DEF Rol!Commit
<1>3. ASSUME ~drift'
      PROVE  figure' = Rol!Average(child')
  <2>1. CASE txn[r].recalculates
    <3>1. txn[r].target # NoChild /\ txn[r].fresh
      BY <1>1, <1>2, <1>3, <2>1 DEF RolAverageInv
    <3>2. txn[r].to = Rol!Average(RolAfter(txn[r]))
      BY <1>1, <2>1, <3>1 DEF RolAverageInv
    <3>3. child' = RolAfter(txn[r]) /\ figure' = txn[r].to
      BY <1>1, <1>2, <2>1, <3>1
    <3>. QED
      BY <3>2, <3>3
  <2>2. CASE ~txn[r].recalculates
    <3>1. ~drift /\ txn[r].target = NoChild /\ txn[r].from = txn[r].to
      BY <1>2, <1>3, <2>2
    <3>2. figure' = figure /\ child' = child
      BY <1>1, <1>2, <2>2, <3>1 DEF Rol!Flushed
    <3>. QED
      BY <3>1, <3>2 DEF RolInv, Rol!FigureIsAverage
  <2>. QED
    BY <2>1, <2>2
<1>. QED
    BY <1>3 DEF Rol!FigureIsAverage

LEMMA RolCommitKeeps ==
    ASSUME RolAssumptions, RolInv, NEW r \in Requests, Rol!Commit(r)
    PROVE  RolInv'
BY RolCommitType, RolCommitAverage, RolCommitFigure DEF RolInv

LEMMA RolStutter ==
    ASSUME RolInv, UNCHANGED Rol!vars
    PROVE  RolInv'
<1>0. txn' = txn /\ child' = child /\ UNCHANGED <<parent, figure, drift>>
    BY DEF Rol!vars
<1>1. Rol!TypeOK'
    BY <1>0 DEF RolInv, Rol!TypeOK
<1>2. Rol!FigureIsAverage'
    BY <1>0 DEF RolInv, Rol!FigureIsAverage
<1>3. ASSUME NEW q \in Requests, Rol!InFlight(q)'
      PROVE  RolAverageInv(txn[q])'
  <2>1. RolAverageInv(txn[q]) /\ txn[q]' = txn[q]
    BY <1>0, <1>3 DEF RolInv, Rol!InFlight
  <2>2. PICK u : u = txn[q]
    OBVIOUS
  <2>3. RolAverageInv(u)'
    BY <1>0, <2>1, <2>2, RolSameChild
  <2>. QED
    BY <2>1, <2>2, <2>3 DEF RolAverageInv
<1>. QED
    BY <1>1, <1>2, <1>3 DEF RolInv

\* A request of any kind begins.
LEMMA RolSomeBegins ==
    ASSUME RolAssumptions, RolInv, NEW r \in Requests,
           \/ Rol!UpdateStatus(r) \/ Rol!CompleteInspection(r)
           \/ \E percent \in Percents : Rol!UpdateProject(r, percent)
                \/ Rol!UpdateInspection(r, percent)
           \/ \E c \in Children :
                 \/ \E percent \in Percents :
                       \/ Rol!CreateMilestone(r, c, percent)
                       \/ Rol!UpdateMilestone(r, c, percent)
                       \/ Rol!UpdateChecklistItem(r, c, percent)
                 \/ Rol!DeleteMilestone(r, c)
    PROVE  RolInv'
<1>. DEFINE yes == TRUE  no == FALSE
<1>0. /\ Rol!TypeOK /\ figure \in Int /\ 0 \in Int /\ DeletedRow \in Rol!Row
      /\ \A percent \in Percents : percent \in Int /\ percent \in Rol!Row
    BY DEF RolInv, Rol!TypeOK, RolAssumptions, Rol!PercentsAssumption, Rol!Row
<1>b. yes \in BOOLEAN /\ no \in BOOLEAN /\ yes = TRUE /\ no = FALSE
    OBVIOUS
<1>. HIDE DEF yes, no
<1>1. CASE Rol!UpdateStatus(r) \/ Rol!CompleteInspection(r)
  <2>1. PICK mails \in {yes, no} : Rol!Begin(r, Rol!OnParent(0, 0, mails))
    BY <1>1, <1>b DEF Rol!UpdateStatus, Rol!CompleteInspection
  <2>. QED
    BY <1>0, <1>b, <2>1, RolOnParent, RolBeginKeeps
<1>2. ASSUME NEW percent \in Percents, Rol!UpdateProject(r, percent)
               \/ Rol!UpdateInspection(r, percent)
      PROVE  RolInv'
  <2>1. Rol!Begin(r, Rol!OnParent(figure, percent, no))
    BY <1>2, <1>b DEF Rol!UpdateProject, Rol!UpdateInspection
  <2>. QED
    BY <1>0, <1>b, <2>1, RolOnParent, RolBeginKeeps
<1>3. ASSUME NEW c \in Children, NEW percent \in Percents, Rol!CreateMilestone(r, c, percent)
      PROVE  RolInv'
    BY <1>0, <1>3, RolCreated, RolBeginKeeps DEF Rol!CreateMilestone
<1>4. ASSUME NEW c \in Children, NEW percent \in Percents,
             Rol!UpdateMilestone(r, c, percent) \/ Rol!UpdateChecklistItem(r, c, percent)
      PROVE  RolInv'
  <2>1. Rol!Begin(r, Rol!OnChild(c, percent, yes))
    BY <1>4, <1>b DEF Rol!UpdateMilestone, Rol!UpdateChecklistItem
  <2>. QED
    BY <1>0, <1>b, <2>1, RolOnChild, RolBeginKeeps
<1>5. ASSUME NEW c \in Children, Rol!DeleteMilestone(r, c)
      PROVE  RolInv'
  <2>1. Rol!Begin(r, Rol!OnChild(c, DeletedRow, no))
    BY <1>5, <1>b DEF Rol!DeleteMilestone
  <2>. QED
    BY <1>0, <1>b, <2>1, RolOnChild, RolBeginKeeps
<1>. QED
    BY <1>1, <1>2, <1>3, <1>4, <1>5

LEMMA RolInductive ==
    ASSUME RolAssumptions, RolInv, [Rol!Next]_Rol!vars
    PROVE  RolInv'
<1>1. ASSUME NEW r \in Requests, Rol!Proceed(r) \/ Rol!SendMails(r) \/ Rol!Rollback(r)
      PROVE  RolInv'
    BY <1>1, RolWriteParentKeeps, RolWriteChildKeeps, RolTakeAverageKeeps, RolWriteFigureKeeps,
       RolCommitKeeps, RolRollbackKeeps DEF Rol!Proceed
<1>2. CASE UNCHANGED Rol!vars
    BY <1>2, RolStutter
<1>. QED
    BY <1>1, <1>2, RolSomeBegins DEF Rol!Next

LEMMA RolInvariant ==
    ASSUME RolAssumptions
    PROVE  Rol!Spec => []RolInv
<1>1. Rol!Init => RolInv
    BY RolInitial
<1>2. RolInv /\ [Rol!Next]_Rol!vars => RolInv'
    BY RolInductive
<1>. QED
    BY <1>1, <1>2, PTL DEF Rol!Spec

\* Every value Rollup keeps is one its columns and requests can have
\* (apps/projects/models.py, apps/quality/models.py).
THEOREM RolTypeCorrect ==
    ASSUME RolAssumptions
    PROVE  Rol!Spec => []Rol!TypeOK
<1>1. RolInv => Rol!TypeOK
    BY DEF RolInv
<1>. QED
    BY <1>1, RolInvariant, PTL

(* The rows that a request t has locked.                                   *)
RolHasChild(t, c) == t # NoTxn /\ t.target = c /\ t.stage # "read" /\ Rol!Writes(t)

RolHasParent(t) ==
    t # NoTxn /\ t.stage \in {"mailing", "done"} /\ (t.target = NoChild \/ t.recalculates)

RolLocked(r, other) ==
    \/ RolHasParent(txn[r]) /\ RolHasParent(txn[other])
    \/ \E c \in Children : RolHasChild(txn[r], c) /\ RolHasChild(txn[other], c)

\* No two requests have locked the same row.
RolLocksExclude == \A r, other \in Requests : RolLocked(r, other) => r = other

LEMMA RolHolds ==
    ASSUME NEW r \in Requests
    PROVE  /\ Rol!HoldsParent(r) <=> RolHasParent(txn[r])
           /\ \A c : Rol!HoldsChild(r, c) <=> RolHasChild(txn[r], c)
BY DEF Rol!HoldsParent, Rol!HoldsChild, RolHasParent, RolHasChild, Rol!At, Rol!InFlight

\* A step after which nobody has a row he had not, but r one that nobody had.
LEMMA RolLocksKept ==
    ASSUME RolLocksExclude, NEW r \in Requests,
           \A q \in Requests \ {r} :
              /\ RolHasParent(txn'[q]) => RolHasParent(txn[q])
              /\ \A c \in Children : RolHasChild(txn'[q], c) => RolHasChild(txn[q], c),
           RolHasParent(txn'[r]) =>
              RolHasParent(txn[r]) \/ \A q \in Requests : ~RolHasParent(txn[q]),
           \A c \in Children : RolHasChild(txn'[r], c) =>
              RolHasChild(txn[r], c) \/ \A q \in Requests : ~RolHasChild(txn[q], c)
    PROVE  RolLocksExclude'
<1>. SUFFICES ASSUME NEW p \in Requests, NEW q \in Requests, p # q, RolLocked(p, q)'
              PROVE  FALSE
    BY DEF RolLocksExclude
<1>1. ~RolLocked(p, q)
    BY DEF RolLocksExclude
<1>2. CASE RolHasParent(txn'[p]) /\ RolHasParent(txn'[q])
    BY <1>1, <1>2 DEF RolLocked
<1>3. CASE \E c \in Children : RolHasChild(txn'[p], c) /\ RolHasChild(txn'[q], c)
    BY <1>1, <1>3 DEF RolLocked
<1>4. \/ RolHasParent(txn'[p]) /\ RolHasParent(txn'[q])
      \/ \E c \in Children : RolHasChild(txn'[p], c) /\ RolHasChild(txn'[q], c)
    BY DEF RolLocked, RolHasParent, RolHasChild
<1>. QED
    BY <1>2, <1>3, <1>4

\* A request that begins has locked nothing, but the row of a new milestone.
LEMMA RolLocksBegin ==
    ASSUME RolLocksExclude, RolInv, NEW r \in Requests, NEW t, Rol!Begin(r, t),
           ~RolHasParent(t),
           \A c \in Children : RolHasChild(t, c) =>
              \A q \in Requests : ~RolHasChild(txn[q], c)
    PROVE  RolLocksExclude'
<1>1. txn'[r] = t /\ \A q \in Requests \ {r} : txn'[q] = txn[q]
    BY DEF Rol!Begin, RolInv, Rol!TypeOK
<1>. QED
    BY <1>1, RolLocksKept

\* A request that goes on takes no row another one has.
LEMMA RolLocksReach ==
    ASSUME RolLocksExclude, RolInv, NEW r \in Requests, Rol!InFlight(r), NEW t \in Rol!Txn,
           txn' = [txn EXCEPT ![r] = t],
           t.target = txn[r].target, t.was = txn[r].was, t.becomes = txn[r].becomes,
           t.recalculates = txn[r].recalculates,
           RolHasParent(t) => RolHasParent(txn[r]) \/ \A q \in Requests : ~RolHasParent(txn[q]),
           txn[r].stage = "read" => \A c \in Children : RolHasChild(t, c) =>
              \A q \in Requests : ~RolHasChild(txn[q], c)
    PROVE  RolLocksExclude'
<1>1. txn'[r] = t /\ \A q \in Requests \ {r} : txn'[q] = txn[q]
    BY DEF RolInv, Rol!TypeOK
<1>2. txn[r].stage # "read" => \A c \in Children : RolHasChild(t, c) => RolHasChild(txn[r], c)
    BY DEF RolHasChild, Rol!Writes, Rol!InFlight
<1>. QED
    BY <1>1, <1>2, RolLocksKept

\* A request that ends leaves what it has locked.
LEMMA RolLocksEnd ==
    ASSUME RolLocksExclude, RolInv, NEW r \in Requests, Rol!Commit(r) \/ Rol!Rollback(r)
    PROVE  RolLocksExclude'
<1>1. ASSUME NEW q \in Requests
      PROVE  /\ RolHasParent(txn'[q]) => RolHasParent(txn[q])
             /\ \A c \in Children : RolHasChild(txn'[q], c) => RolHasChild(txn[q], c)
  <2>1. CASE Rol!Rollback(r)
    <3>1. txn'[q] = NoTxn \/ txn'[q] = txn[q]
        BY <2>1 DEF Rol!Rollback, RolInv, Rol!TypeOK
    <3>. QED
        BY <3>1 DEF RolHasParent, RolHasChild
  <2>2. CASE Rol!Commit(r) /\ txn'[q] # NoTxn
    <3>1. Rol!InFlight(q) /\ txn[q] \in Rol!Txn /\
            (txn'[q] = [txn[q] EXCEPT !.fresh = FALSE] \/ txn'[q] = txn[q])
        BY <2>2, RolEnded DEF Rol!Commit, Rol!InFlight
    <3>2. /\ txn'[q].target = txn[q].target /\ txn'[q].stage = txn[q].stage
          /\ txn'[q].was = txn[q].was /\ txn'[q].becomes = txn[q].becomes
          /\ txn'[q].recalculates = txn[q].recalculates
        BY <3>1 DEF Rol!Txn
    <3>. QED
        BY <3>1, <3>2 DEF RolHasParent, RolHasChild, Rol!Writes, Rol!InFlight
  <2>3. CASE txn'[q] = NoTxn
    BY <2>3 DEF RolHasParent, RolHasChild
  <2>. QED
    BY <2>1, <2>2, <2>3
<1>. QED
    BY <1>1, RolLocksKept

LEMMA RolLocksProceed ==
    ASSUME RolAssumptions, RolInv, RolLocksExclude, NEW r \in Requests,
           Rol!SendMails(r) \/ Rol!Proceed(r)
    PROVE  RolLocksExclude'
<1>1. ASSUME NEW stage \in Rol!Stage, Rol!InFlight(r), Rol!Reach(r, stage),
             stage \in {"mailing", "done"} =>
                \/ txn[r].target # NoChild /\ ~txn[r].recalculates
                \/ RolHasParent(txn[r])
                \/ \A q \in Requests : ~RolHasParent(txn[q]),
             txn[r].stage = "read" =>
                \/ txn[r].target = NoChild
                \/ ~Rol!Writes(txn[r])
                \/ \A q \in Requests : ~RolHasChild(txn[q], txn[r].target)
      PROVE  RolLocksExclude'
  <2>. DEFINE t == [txn[r] EXCEPT !.stage = stage]
  <2>1. txn[r] \in Rol!Txn
    BY <1>1 DEF RolInv, Rol!TypeOK, Rol!InFlight
  <2>2. /\ t \in Rol!Txn /\ t.stage = stage /\ t.target = txn[r].target /\ t.was = txn[r].was
        /\ t.becomes = txn[r].becomes /\ t.recalculates = txn[r].recalculates
    BY <2>1 DEF Rol!Txn
  <2>3. txn' = [txn EXCEPT ![r] = t]
    BY <1>1 DEF Rol!Reach
  <2>. HIDE DEF t
  <2>4. RolHasParent(t) => RolHasParent(txn[r]) \/ \A q \in Requests : ~RolHasParent(txn[q])
    BY <1>1, <2>2 DEF RolHasParent
  <2>5. txn[r].stage = "read" => \A c \in Children : RolHasChild(t, c) =>
              \A q \in Requests : ~RolHasChild(txn[q], c)
    <3>1. NoChild \notin Children
        BY DEF RolAssumptions, Rol!NoneAssumption
    <3>. QED
        BY <1>1, <2>2, <3>1 DEF RolHasChild, Rol!Writes
  <2>. QED
    BY <1>1, <2>2, <2>3, <2>4, <2>5, RolLocksReach
<1>2. Rol!Proceed(r) => \A q \in Requests : ~Rol!WaitsFor(r, q)
    BY DEF Rol!Proceed, Rol!Waits
<1>3. {"read", "written", "averaged", "mailing", "done"} = Rol!Stage
    BY DEF Rol!Stage
<1>4. CASE Rol!Proceed(r) /\ Rol!WriteParent(r)
  <2>1. \A q \in Requests : ~RolHasParent(txn[q])
    BY <1>2, <1>4, RolHolds DEF Rol!WaitsFor, Rol!WriteParent
  <2>2. /\ Rol!InFlight(r) /\ txn[r].target = NoChild
        /\ \E stage \in {"mailing", "done"} : Rol!Reach(r, stage)
    BY <1>4 DEF Rol!WriteParent, Rol!At
  <2>. QED
    BY <1>1, <1>3, <2>1, <2>2
<1>5. CASE Rol!SendMails(r)
  <2>1. Rol!InFlight(r) /\ txn[r].stage = "mailing" /\ Rol!Reach(r, "done")
    BY <1>5 DEF Rol!SendMails, Rol!At
  <2>2. txn[r].target = NoChild
    BY <2>1 DEF RolInv, RolAverageInv
  <2>3. RolHasParent(txn[r])
    BY <2>1, <2>2 DEF RolHasParent, Rol!InFlight
  <2>. QED
    BY <1>1, <1>3, <2>1, <2>3
<1>6. CASE Rol!Proceed(r) /\ Rol!WriteChild(r)
  <2>1. /\ Rol!InFlight(r) /\ txn[r].stage = "read" /\ txn[r].target # NoChild
        /\ IF txn[r].recalculates THEN Rol!Reach(r, "written") ELSE Rol!Reach(r, "done")
    BY <1>6 DEF Rol!WriteChild, Rol!At
  <2>2. Rol!Writes(txn[r]) => \A q \in Requests : ~RolHasChild(txn[q], txn[r].target)
    BY <1>2, <1>6, RolHolds DEF Rol!WaitsFor, Rol!WriteChild
  <2>. QED
    BY <1>1, <1>3, <2>1, <2>2
<1>7. CASE Rol!TakeAverage(r)
  <2>. DEFINE avg == Rol!Average(RolAfter(txn[r]))
              averaged == "averaged"
              t == [txn[r] EXCEPT !.stage = averaged, !.to = avg]
  <2>1. /\ txn[r] \in Rol!Txn /\ txn[r].stage = "written" /\ Rol!InFlight(r)
        /\ txn[r].recalculates /\ txn[r].target # NoChild
    BY <1>7 DEF RolInv, Rol!TypeOK, Rol!InFlight, Rol!TakeAverage, Rol!At, RolAverageInv
  <2>2. avg \in Int
    BY <2>1, RolBecomes, RolAverageType DEF RolInv
  <2>3. txn' = [txn EXCEPT ![r] = [@ EXCEPT !.stage = averaged, !.to = avg]]
    BY <1>7 DEF Rol!TakeAverage, Rol!Averaged, RolAfter
  <2>4. averaged \in Rol!Stage /\ averaged \notin {"mailing", "done"}
    BY <1>3
  <2>. HIDE DEF avg, averaged
  <2>5. txn' = [txn EXCEPT ![r] = t]
    BY <2>1, <2>3 DEF RolInv, Rol!TypeOK
  <2>6. /\ t \in Rol!Txn /\ t.stage = averaged /\ t.target = txn[r].target /\ t.was = txn[r].was
        /\ t.becomes = txn[r].becomes /\ t.recalculates = txn[r].recalculates
    BY <2>1, <2>2, <2>4 DEF Rol!Txn
  <2>. HIDE DEF t
  <2>7. ~RolHasParent(t)
    BY <2>4, <2>6 DEF RolHasParent
  <2>. QED
    BY <2>1, <2>5, <2>6, <2>7, RolLocksReach
<1>8. CASE Rol!Proceed(r) /\ Rol!WriteFigure(r)
  <2>1. Rol!InFlight(r) /\ txn[r].stage = "averaged" /\ Rol!Reach(r, "done")
    BY <1>8 DEF Rol!WriteFigure, Rol!At
  <2>2. \A q \in Requests : ~RolHasParent(txn[q])
    BY <1>2, <1>8, RolHolds DEF Rol!WaitsFor, Rol!WriteFigure
  <2>. QED
    BY <1>1, <1>3, <2>1, <2>2
<1>9. CASE Rol!Commit(r)
    BY <1>9, RolLocksEnd
<1>. QED
    BY <1>4, <1>5, <1>6, <1>7, <1>8, <1>9 DEF Rol!Proceed

LEMMA RolLocksStep ==
    ASSUME RolAssumptions, RolInv, RolLocksExclude, [Rol!Next]_Rol!vars
    PROVE  RolLocksExclude'
<1>1. ASSUME NEW r \in Requests, NEW from, NEW to, NEW mails,
             Rol!Begin(r, Rol!OnParent(from, to, mails))
      PROVE  RolLocksExclude'
  <2>1. /\ Rol!OnParent(from, to, mails).stage = "read"
    BY DEF Rol!OnParent
  <2>. QED
    BY <1>1, <2>1, RolLocksBegin DEF RolHasParent, RolHasChild
<1>2. ASSUME NEW r \in Requests, NEW c \in Children, NEW becomes, NEW recalculates,
             Rol!Begin(r, Rol!OnChild(c, becomes, recalculates))
      PROVE  RolLocksExclude'
  <2>1. Rol!OnChild(c, becomes, recalculates).stage = "read"
    BY DEF Rol!OnChild
  <2>. QED
    BY <1>2, <2>1, RolLocksBegin DEF RolHasParent, RolHasChild
<1>3. ASSUME NEW r \in Requests, NEW c \in Children, NEW percent \in Percents,
             Rol!CreateMilestone(r, c, percent)
      PROVE  RolLocksExclude'
  <2>. DEFINE t == [Rol!OnChild(c, percent, FALSE) EXCEPT !.stage = "done"]
  <2>1. Rol!Begin(r, t) /\ \A q \in Requests : ~Rol!HoldsChild(q, c)
    BY <1>3 DEF Rol!CreateMilestone
  <2>2. t.target = c /\ t.recalculates = FALSE /\ c # NoChild
    BY DEF Rol!OnChild, RolAssumptions, Rol!NoneAssumption
  <2>. HIDE DEF t
  <2>3. ~RolHasParent(t)
    BY <2>2 DEF RolHasParent
  <2>4. \A d \in Children : RolHasChild(t, d) => \A q \in Requests : ~RolHasChild(txn[q], d)
    BY <2>1, <2>2, RolHolds DEF RolHasChild
  <2>. QED
    BY <2>1, <2>3, <2>4, RolLocksBegin
<1>4. CASE UNCHANGED Rol!vars
    BY <1>4 DEF Rol!vars, RolLocksExclude, RolLocked, RolHasParent, RolHasChild
<1>5. ASSUME NEW r \in Requests,
           \/ Rol!UpdateStatus(r) \/ Rol!CompleteInspection(r)
           \/ \E percent \in Percents : Rol!UpdateProject(r, percent)
                \/ Rol!UpdateInspection(r, percent)
      PROVE  RolLocksExclude'
    BY <1>1, <1>5 DEF Rol!UpdateStatus, Rol!CompleteInspection, Rol!UpdateProject,
       Rol!UpdateInspection
<1>6. ASSUME NEW r \in Requests, NEW c \in Children,
           \/ \E percent \in Percents :
                 \/ Rol!CreateMilestone(r, c, percent)
                 \/ Rol!UpdateMilestone(r, c, percent)
                 \/ Rol!UpdateChecklistItem(r, c, percent)
           \/ Rol!DeleteMilestone(r, c)
      PROVE  RolLocksExclude'
    BY <1>2, <1>3, <1>6 DEF Rol!UpdateMilestone, Rol!UpdateChecklistItem, Rol!DeleteMilestone
<1>7. ASSUME NEW r \in Requests, Rol!Proceed(r) \/ Rol!SendMails(r) \/ Rol!Rollback(r)
      PROVE  RolLocksExclude'
    BY <1>7, RolLocksProceed, RolLocksEnd
<1>. QED
    BY <1>4, <1>5, <1>6, <1>7 DEF Rol!Next

\* Who waits has not come as far as the one he waits for: a child is locked before
\* the average is taken, and nothing is waited for once the parent is locked.
LEMMA RolWaitsInOrder ==
    ASSUME NEW waiting \in SUBSET Requests, waiting # {}
    PROVE  \E r \in waiting : \A other \in waiting : ~Rol!WaitsFor(r, other)
<1>. SUFFICES ASSUME \A r \in waiting : \E other \in waiting : Rol!WaitsFor(r, other)
              PROVE  FALSE
    OBVIOUS
<1>1. ASSUME NEW r \in waiting, NEW other \in waiting, Rol!WaitsFor(r, other)
      PROVE  /\ txn[r].stage \in {"read", "averaged"}
             /\ txn[other].stage # "read"
             /\ txn[r].stage = "averaged" => txn[other].stage \in {"mailing", "done"}
    BY <1>1 DEF Rol!WaitsFor, Rol!HoldsParent, Rol!HoldsChild, Rol!At
<1>2. PICK r \in waiting : TRUE
    OBVIOUS
<1>3. PICK s \in waiting : Rol!WaitsFor(r, s)
    OBVIOUS
<1>4. PICK u \in waiting : Rol!WaitsFor(s, u)
    OBVIOUS
<1>5. PICK v \in waiting : Rol!WaitsFor(u, v)
    OBVIOUS
<1>6. txn[s].stage = "averaged"
    BY <1>1, <1>3, <1>4
<1>7. txn[u].stage \in {"mailing", "done"}
    BY <1>1, <1>4, <1>6
<1>. QED
    BY <1>1, <1>5, <1>7

\* A row is locked by one request at a time, and no requests wait for each other
\* in a circle, however many of them there are: an average is taken from a plain
\* SELECT, the child is written before the parent (update_milestone,
\* update_checklist_item), and nothing is after it.
THEOREM RolLocksInOrder ==
    ASSUME RolAssumptions
    PROVE  Rol!Spec => []Rol!LocksInOrder
<1>1. Rol!Init => RolLocksExclude
    BY DEF Rol!Init, RolLocksExclude, RolLocked, RolHasParent, RolHasChild
<1>2. RolInv /\ RolLocksExclude /\ [Rol!Next]_Rol!vars => RolLocksExclude'
    BY RolLocksStep
<1>3. RolLocksExclude => Rol!LocksInOrder
  <2>1. ASSUME RolLocksExclude, NEW r \in Requests, NEW other \in Requests,
               \/ Rol!HoldsParent(r) /\ Rol!HoldsParent(other)
               \/ \E c \in Children : Rol!HoldsChild(r, c) /\ Rol!HoldsChild(other, c)
        PROVE  r = other
    BY <2>1, RolHolds DEF RolLocksExclude, RolLocked
  <2>. QED
    BY <2>1, RolWaitsInOrder DEF Rol!LocksInOrder
<1>. QED
    BY <1>1, <1>2, <1>3, RolInvariant, PTL DEF Rol!Spec

\* The progress of a project, or the score of an inspection, is the average over
\* its children from a recalculation that saw all of them until a milestone is
\* added or deleted or somebody enters another figure
\* (_recalculate_project_progress, update_checklist_item).
THEOREM RolFigureIsAverage ==
    ASSUME RolAssumptions
    PROVE  Rol!Spec => []Rol!FigureIsAverage
<1>1. RolInv => Rol!FigureIsAverage
    BY DEF RolInv
<1>. QED
    BY <1>1, RolInvariant, PTL

(* Rollup, one request at a time: no average is overtaken.                  *)
RolAloneInv == \A r \in Requests : txn[r] # NoTxn => txn[r].fresh

LEMMA RolAloneStep ==
    ASSUME OneClient, RolInv, RolAloneInv, [Rol!Next]_Rol!vars
    PROVE  RolAloneInv'
<1>1. ASSUME NEW r \in Requests, NEW t, Rol!Begin(r, t), t.fresh
      PROVE  RolAloneInv'
    BY <1>1 DEF Rol!Begin, RolAloneInv, OneClient, RolInv, Rol!TypeOK
<1>2. ASSUME NEW r \in Requests, NEW stage, Rol!InFlight(r), Rol!Reach(r, stage)
      PROVE  RolAloneInv'
  <2>1. txn'[r].fresh = txn[r].fresh
    BY <1>2 DEF Rol!Reach, Rol!InFlight, RolInv, Rol!TypeOK, Rol!Txn
  <2>. QED
    BY <1>2, <2>1 DEF Rol!InFlight, RolAloneInv, OneClient
<1>3. ASSUME NEW r \in Requests, NEW to, Rol!InFlight(r), Rol!Averaged(r, to)
      PROVE  RolAloneInv'
  <2>1. txn'[r].fresh = txn[r].fresh
    BY <1>3 DEF Rol!Averaged, Rol!InFlight, RolInv, Rol!TypeOK, Rol!Txn
  <2>. QED
    BY <1>3, <2>1 DEF Rol!InFlight, RolAloneInv, OneClient
<1>4. ASSUME NEW r \in Requests, Rol!Commit(r) \/ Rol!Rollback(r)
      PROVE  RolAloneInv'
  <2>1. \A q \in Requests : txn'[q] = NoTxn
    BY <1>4 DEF Rol!Commit, Rol!Ended, Rol!Rollback, OneClient, RolInv, Rol!TypeOK
  <2>. QED
    BY <2>1 DEF RolAloneInv
<1>5. ASSUME NEW r \in Requests, Rol!UpdateStatus(r) \/ Rol!CompleteInspection(r)
      PROVE  RolAloneInv'
    BY <1>1, <1>5 DEF Rol!UpdateStatus, Rol!CompleteInspection, Rol!OnParent
<1>6. ASSUME NEW r \in Requests, NEW percent \in Percents,
             Rol!UpdateProject(r, percent) \/ Rol!UpdateInspection(r, percent)
      PROVE  RolAloneInv'
    BY <1>1, <1>6 DEF Rol!UpdateProject, Rol!UpdateInspection, Rol!OnParent
<1>7. ASSUME NEW r \in Requests, NEW c \in Children, NEW percent \in Percents,
             \/ Rol!CreateMilestone(r, c, percent)
             \/ Rol!UpdateMilestone(r, c, percent)
             \/ Rol!UpdateChecklistItem(r, c, percent)
      PROVE  RolAloneInv'
    BY <1>1, <1>7 DEF Rol!CreateMilestone, Rol!UpdateMilestone, Rol!UpdateChecklistItem,
       Rol!OnChild
<1>8. ASSUME NEW r \in Requests, NEW c \in Children, Rol!DeleteMilestone(r, c)
      PROVE  RolAloneInv'
    BY <1>1, <1>8 DEF Rol!DeleteMilestone, Rol!OnChild
<1>9. ASSUME NEW r \in Requests, Rol!Proceed(r) \/ Rol!SendMails(r)
      PROVE  RolAloneInv'
    BY <1>2, <1>3, <1>4, <1>9 DEF Rol!Proceed, Rol!SendMails, Rol!WriteParent, Rol!WriteChild,
       Rol!TakeAverage, Rol!WriteFigure, Rol!At
<1>10. CASE UNCHANGED Rol!vars
    BY <1>10 DEF Rol!vars, RolAloneInv
<1>. QED
    BY <1>4, <1>5, <1>6, <1>7, <1>8, <1>9, <1>10 DEF Rol!Next

\* With one request at a time every recalculation leaves the figure of the parent
\* the average of its children, whatever milestones were added or deleted and
\* whatever figure was entered before (_recalculate_project_progress,
\* update_checklist_item).
THEOREM RolAloneRecalculates ==
    ASSUME OneClient, RolAssumptions
    PROVE  Rol!Spec =>
              [][\A r \in Requests :
                    Rol!Commit(r) /\ txn[r].recalculates => figure' = Rol!Average(child)']_Rol!vars
<1>. DEFINE Recalculated ==
              \A r \in Requests :
                 Rol!Commit(r) /\ txn[r].recalculates => figure' = Rol!Average(child)'
<1>1. Rol!Init => RolAloneInv
    BY DEF Rol!Init, RolAloneInv
<1>2. RolInv /\ RolAloneInv /\ [Rol!Next]_Rol!vars => RolAloneInv'
    BY RolAloneStep
<1>3. RolInv' /\ RolAloneInv => Recalculated
  <2>. SUFFICES ASSUME RolInv', RolAloneInv, NEW r \in Requests,
                       Rol!Commit(r), txn[r].recalculates
                PROVE  figure' = Rol!Average(child)'
    OBVIOUS
  <2>1. drift' = FALSE
    BY DEF Rol!Commit, Rol!At, Rol!InFlight, RolAloneInv
  <2>. QED
    BY <2>1 DEF RolInv, Rol!FigureIsAverage
<1>. HIDE DEF Recalculated
<1>4. Rol!Spec => [][Recalculated]_Rol!vars
    BY <1>1, <1>2, <1>3, RolInvariant, PTL DEF Rol!Spec
<1>. QED
    BY <1>4 DEF Recalculated

================================================================================
