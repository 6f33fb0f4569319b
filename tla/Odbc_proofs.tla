------------------------------ MODULE Odbc_proofs ------------------------------
(***************************************************************************)
(* Whatever fails while the statements are prepared or executed, whatever   *)
(* ODBC answers and however long names and passwords are, what the game is  *)
(* told about accounts is true as Odbc states it.                           *)
(***************************************************************************)
EXTENDS Odbc, TLAPS

\* What is left of a text whatever happens to it: all of it or its first 20 characters.
Begin(t) == IF t \in Long THEN Start[t] ELSE t

Fits(a) == a.name \notin Long /\ a.pass \notin Long

\* Nothing was asked before the database was opened.
Early ==
    stage # "open" => user_table = <<>> /\ promised = {} /\ answer = [op |-> "none"]

\* Each row begins as an account does that somebody has signed up.
TableTold ==
    Declared => \A i \in DOMAIN user_table : \E a \in signed :
        user_table[i].name[1] = Begin(a.name) /\ user_table[i].pass[1] = Begin(a.pass)

\* Confirmed accounts that fit have their row.
Kept ==
    Declared => \A a \in promised : Fits(a) =>
        \E i \in DOMAIN user_table : user_table[i] = Row(<<a.name>>, <<a.pass>>)

\* The inductive invariant.
IInv == TypeOK /\ Early /\ TableTold /\ Kept /\ LoginTruthful /\ SignedUpFound

\* The initial state satisfies the invariant.
LEMMA InitIInv == Init => IInv
<1> SUFFICES ASSUME Init PROVE IInv
  OBVIOUS
<1>1. TypeOK
  <2>1. stmt \in [Stmts -> Statement]
    BY DEF Init, Unset, Statement, Handles
  <2>2. QED
    BY <2>1 DEF Init, TypeOK, Handles, Answers, Texts, Rows
<1>2. Early /\ LoginTruthful /\ SignedUpFound
  BY DEF Init, Early, LoginTruthful, SignedUpFound
<1>3. TableTold /\ Kept
  BY DEF Init, TableTold, Kept
<1>4. QED
  BY <1>1, <1>2, <1>3 DEF IInv

-----------------------------------------------------------------------------
(* Texts *)

\* Two texts of which the same is left are alike.
LEMMA BeginAlike ==
  ASSUME NEW t \in Names \cup Passes, NEW u \in Names \cup Passes, Begin(t) = Begin(u)
  PROVE  Alike(t, u)
<1>1. \A v \in Long : Start[v] \in Starts
  BY DEF Starts
<1>2. QED
  BY <1>1, OdbcAssumption DEF Begin, Alike

\* A password, as it is sent to log in or to sign up, begins as it does.
LEMMA PassTexts ==
  ASSUME NEW p \in Passes
  PROVE  /\ LoginPw(p) \in Texts /\ Len(LoginPw(p)) > 0 /\ LoginPw(p)[1] = Begin(p)
         /\ \A pass \in InsertPass(p) : pass \in Texts /\ Len(pass) > 0 /\ pass[1] = Begin(p)
         /\ p \notin Long => LoginPw(p) = <<p>> /\ InsertPass(p) = {<<p>>}
<1>1. p \in Long => Start[p] \in Starts
  BY DEF Starts
<1>2. CASE p \in Long
  <2>1. /\ LoginPw(p) = <<Start[p], "(">> /\ Begin(p) = Start[p]
        /\ InsertPass(p) = {<<Start[p]>>, <<Start[p], "(">>, <<Start[p], "?">>}
    BY <1>2 DEF LoginPw, InsertPass, Begin
  <2>2. /\ <<Start[p]>> \in Texts /\ <<Start[p], "(">> \in Texts /\ <<Start[p], "?">> \in Texts
    BY <1>1, <1>2 DEF Texts
  <2>3. QED
    BY <1>2, <2>1, <2>2
<1>3. CASE p \notin Long
  <2>1. LoginPw(p) = <<p>> /\ InsertPass(p) = {<<p>>} /\ Begin(p) = p
    BY <1>3 DEF LoginPw, InsertPass, Begin
  <2>2. <<p>> \in Texts
    BY DEF Texts
  <2>3. QED
    BY <1>3, <2>1, <2>2
<1>4. QED
  BY <1>2, <1>3

\* And so does a name, whatever is read after it.
LEMMA NameTexts ==
  ASSUME NEW n \in Names, NEW pass \in Texts
  PROVE  /\ InsertName(n, pass) \in Texts /\ Len(InsertName(n, pass)) > 0
         /\ InsertName(n, pass)[1] = Begin(n)
         /\ n \notin Long => InsertName(n, pass) = <<n>>
<1>1. n \in Long => Start[n] \in Starts
  BY DEF Starts
<1>2. CASE n \in Long
  <2>1. <<Start[n]>> \in Texts
    BY <1>1, <1>2 DEF Texts
  <2>2. /\ <<Start[n]>> \o pass \in Texts
        /\ Len(<<Start[n]>> \o pass) = 1 + Len(pass) /\ Len(pass) \in Nat
        /\ (<<Start[n]>> \o pass)[1] = Start[n]
    BY <2>1 DEF Texts
  <2>3. QED
    BY <1>2, <2>2 DEF InsertName, Begin
<1>3. CASE n \notin Long
  BY <1>3 DEF InsertName, Begin, Texts
<1>4. QED
  BY <1>2, <1>3

LEMMA IdTexts ==
  ASSUME NEW n \in Names, NEW p \in Passes
  PROVE  /\ \A name \in LoginId(n, p) : name[1] = Begin(n)
         /\ n \notin Long => LoginId(n, p) = {<<n>>}
<1>1. CASE n \in Long
  <2>1. LoginPw(p) \in Texts
    BY PassTexts
  <2>2. (<<Start[n]>> \o LoginPw(p))[1] = Start[n]
    BY <2>1 DEF Texts
  <2>3. QED
    BY <1>1, <2>2 DEF LoginId, Begin
<1>2. CASE n \notin Long
  BY <1>2 DEF LoginId, Begin
<1>3. QED
  BY <1>1, <1>2

\* What the driver makes of a text.
LEMMA SentTexts ==
  ASSUME NEW text \in Texts, Len(text) > 0, NEW name \in Sent(text)
  PROVE  /\ name \in Texts
         /\ Declared => name[1] = text[1] /\ (Len(text) = 1 => name = text)
<1>1. <<text[1]>> \in Texts
  BY DEF Texts
<1>2. <<"?">> \in Texts /\ \A n \in Names : <<n>> \in Texts
  BY DEF Texts
<1>3. QED
  BY <1>1, <1>2 DEF Sent

-----------------------------------------------------------------------------
(* Statements *)

\* What the calls on a statement leave of the types, and of what it was prepared for.
LEMMA StatementTypes ==
  ASSUME NEW st \in [Stmts -> Statement], NEW s \in Stmts, NEW hr
  PROVE  /\ Opened(st, s, hr) \in [Stmts -> Statement]
         /\ Closed(st, s) \in [Stmts -> Statement]
         /\ \A t \in Stmts : /\ Opened(st, s, hr)[t].prepared = st[t].prepared
                             /\ Closed(st, s)[t].prepared = st[t].prepared
<1>1. Opened(st, s, hr) \in [Stmts -> Statement]
  BY DEF Opened, Statement
<1>2. Closed(st, s) \in [Stmts -> Statement]
  BY DEF Closed, Statement
<1>3. \A t \in Stmts : /\ Opened(st, s, hr)[t].prepared = st[t].prepared
                      /\ Closed(st, s)[t].prepared = st[t].prepared
  BY DEF Opened, Closed, Statement
<1>4. QED
  BY <1>1, <1>2, <1>3

\* Every outcome of a preparation is a statement.
LEMMA PreparedTypes ==
  ASSUME CreatePrepare
  PROVE  stmt' \in [Stmts -> Statement]
<1>1. PICK F \in SUBSET Stmts : \E lost \in [F -> UNION {Failures[s] : s \in F}] :
        /\ \A s \in F : lost[s] \in Failures[s]
        /\ stmt' = [s \in Stmts |-> IF s \in F THEN lost[s] ELSE Made(TRUE, TRUE)]
  BY DEF CreatePrepare
<1>2. PICK lost \in [F -> UNION {Failures[s] : s \in F}] :
        /\ \A s \in F : lost[s] \in Failures[s]
        /\ stmt' = [s \in Stmts |-> IF s \in F THEN lost[s] ELSE Made(TRUE, TRUE)]
  BY <1>1
<1>3. /\ Lost \in Statement
      /\ Made(TRUE, TRUE) \in Statement
      /\ Made(TRUE, FALSE) \in Statement
      /\ Made(FALSE, TRUE) \in Statement
      /\ Made(FALSE, FALSE) \in Statement
  BY DEF Lost, Made, Statement, Handles
<1>4. \A s \in Stmts : Failures[s] \subseteq Statement
  <2>1. /\ CreateUserAllSelect \subseteq Statement
        /\ CreateSelectWhereName \subseteq Statement
        /\ Signup \subseteq Statement
        /\ CreateUpdate \subseteq Statement
        /\ DeleteLoingInfo \subseteq Statement
        /\ LoginCheck \subseteq Statement
        /\ InventoryCheckSql \subseteq Statement
    BY <1>3 DEF CreateUserAllSelect, CreateSelectWhereName, Signup, CreateUpdate,
       DeleteLoingInfo, LoginCheck, InventoryCheckSql
  <2>2. QED
    BY <1>3, <2>1 DEF Failures, Stmts
<1>5. QED
  BY <1>2, <1>3, <1>4

\* A fetch that says there is a row, or that there is none, is right.
LEMMA FetchSays ==
  ASSUME NEW found, NEW f \in Fetch(found)
  PROVE  /\ f \in Fetched
         /\ f = "SQL_SUCCESS" => found
         /\ f = "SQL_NO_DATA" => ~found
BY DEF Fetch, Fetched

-----------------------------------------------------------------------------
(* Requests *)

\* A login is answered from the rows its texts name.
LEMMA LoginStep ==
  ASSUME IInv, NEW n \in Names, NEW p \in Passes, LoginCheckSQL(n, p)
  PROVE  IInv'
<1> DEFINE s == "g_hLoginCheckStmt"
<1> USE DEF IInv
<1>1. PICK hr \in Execute(stmt, s), name \in LoginId(n, p) :
        /\ \E f \in IF hr = "SQL_SUCCESS" THEN Fetch(HasRow(name, LoginPw(p))) ELSE {"none"} :
            answer' = [op |-> "LoginCheckSQL", of |-> Account(n, p), ok |-> f \in Found, fetch |-> f]
        /\ stmt' = Closed(Opened(stmt, s, hr), s)
  BY DEF LoginCheckSQL
<1>2. PICK f \in IF hr = "SQL_SUCCESS" THEN Fetch(HasRow(name, LoginPw(p))) ELSE {"none"} :
        answer' = [op |-> "LoginCheckSQL", of |-> Account(n, p), ok |-> f \in Found, fetch |-> f]
  BY <1>1
<1>3. /\ f \in Fetched
      /\ f = "SQL_SUCCESS" => HasRow(name, LoginPw(p))
      /\ f = "SQL_NO_DATA" => ~HasRow(name, LoginPw(p))
  BY FetchSays DEF Fetched
<1>4. stmt' \in [Stmts -> Statement] /\ (Declared' <=> Declared)
  <2>1. s \in Stmts /\ "g_hReadStmt" \in Stmts /\ stmt \in [Stmts -> Statement]
    BY DEF TypeOK, Stmts
  <2>2. /\ Opened(stmt, s, hr) \in [Stmts -> Statement]
        /\ Opened(stmt, s, hr)["g_hReadStmt"].prepared = stmt["g_hReadStmt"].prepared
    BY <2>1, StatementTypes
  <2>3. QED
    BY <1>1, <2>1, <2>2, StatementTypes DEF Declared
<1>5. Account(n, p) \in Accounts /\ Account(n, p).name = n /\ Account(n, p).pass = p
  BY DEF Account, Accounts
<1>6. answer' \in Answers
  <2>1. (f \in Found) \in BOOLEAN
    OBVIOUS
  <2>2. QED
    BY <1>2, <1>3, <1>5, <2>1 DEF Answers
<1>7. /\ stage = "open" /\ stage' = stage /\ g_hDbc' = g_hDbc /\ m_szInsertName' = m_szInsertName
      /\ user_table' = user_table /\ signed' = signed /\ promised' = promised
  BY DEF LoginCheckSQL, handles, table
<1>8. TypeOK' /\ Early' /\ TableTold' /\ Kept'
  <2>1. TypeOK'
    BY <1>4, <1>6, <1>7 DEF TypeOK
  <2>2. Early' /\ TableTold' /\ Kept'
    BY <1>4, <1>7 DEF Early, TableTold, Kept
  <2>3. QED
    BY <2>1, <2>2
<1>9. LoginTruthful'
  <2> SUFFICES ASSUME Declared, f = "SQL_SUCCESS"
               PROVE  \E a \in signed : Alike(a.name, n) /\ Alike(a.pass, p)
    BY <1>2, <1>4, <1>5, <1>7 DEF LoginTruthful, Found
  <2>1. PICK i \in DOMAIN user_table : user_table[i] = Row(name, LoginPw(p))
    BY <1>3 DEF HasRow
  <2>2. PICK a \in signed :
            user_table[i].name[1] = Begin(a.name) /\ user_table[i].pass[1] = Begin(a.pass)
    BY DEF TableTold
  <2>3. user_table[i].name = name /\ user_table[i].pass = LoginPw(p)
    BY <2>1 DEF Row
  <2>4. Begin(a.name) = Begin(n) /\ Begin(a.pass) = Begin(p)
    BY <2>2, <2>3, PassTexts, IdTexts
  <2>5. a.name \in Names /\ a.pass \in Passes
    BY DEF TypeOK, Accounts
  <2>6. QED
    BY <2>4, <2>5, BeginAlike
<1>10. SignedUpFound'
  <2> SUFFICES ASSUME Declared, f = "SQL_NO_DATA", Account(n, p) \in promised,
                      n \notin Long, p \notin Long
               PROVE  FALSE
    BY <1>2, <1>4, <1>5, <1>7 DEF SignedUpFound
  <2>1. \E i \in DOMAIN user_table : user_table[i] = Row(<<n>>, <<p>>)
    BY <1>5 DEF Kept, Fits
  <2>2. name = <<n>> /\ LoginPw(p) = <<p>>
    BY PassTexts, IdTexts
  <2>3. QED
    BY <1>3, <2>1, <2>2 DEF HasRow
<1>11. QED
  BY <1>8, <1>9, <1>10

\* A sign-up adds a row that begins as its account does, or is it.
LEMMA AddStep ==
  ASSUME IInv, NEW n \in Names, NEW p \in Passes, AddSQL(n, p)
  PROVE  IInv'
<1> USE DEF IInv
<1>1. PICK pass \in InsertPass(p) : m_szInsertName' = InsertName(n, pass) /\ Added(n, p, pass)
  BY DEF AddSQL
<1>2. PICK hr \in Execute(stmt, "g_hSignupStmt") :
        /\ IF hr \in Good
             THEN \E name \in Sent(m_szInsertName') : Insert(n, p, name, pass)
             ELSE UNCHANGED <<user_table, signed>>
        /\ promised' = IF hr = "SQL_SUCCESS" THEN promised \cup {Account(n, p)} ELSE promised
        /\ answer' = [op |-> "AddSQL", of |-> Account(n, p), ok |-> hr = "SQL_SUCCESS"]
  BY <1>1 DEF Added
<1>3. stage = "open" /\ stage' = stage /\ g_hDbc' = g_hDbc /\ stmt' = stmt /\ Declared' = Declared
  BY <1>1 DEF AddSQL, Added, handles, Declared
<1>4. Account(n, p) \in Accounts /\ Account(n, p).name = n /\ Account(n, p).pass = p
  BY DEF Account, Accounts
<1>5. /\ pass \in Texts /\ pass[1] = Begin(p)
      /\ m_szInsertName' \in Texts /\ Len(m_szInsertName') > 0 /\ m_szInsertName'[1] = Begin(n)
      /\ p \notin Long => pass = <<p>>
      /\ n \notin Long => m_szInsertName' = <<n>>
  BY <1>1, PassTexts, NameTexts
<1>6. answer' \in Answers /\ LoginTruthful' /\ SignedUpFound'
  <2>1. (hr = "SQL_SUCCESS") \in BOOLEAN
    OBVIOUS
  <2>2. answer' \in Answers
    BY <1>2, <1>4, <2>1 DEF Answers
  <2>3. QED
    BY <1>2, <2>2 DEF LoginTruthful, SignedUpFound
<1>7. Early' /\ promised' \subseteq Accounts
  BY <1>2, <1>3, <1>4 DEF Early, TypeOK
<1>8. CASE hr \in Good
  <2>1. PICK name \in Sent(m_szInsertName') :
            /\ user_table' = Append(user_table, Row(name, pass))
            /\ signed' = signed \cup {Account(n, p)}
    BY <1>2, <1>8 DEF Insert
  <2>2. /\ name \in Texts
        /\ Declared => name[1] = Begin(n) /\ (n \notin Long => name = <<n>>)
    BY <1>5, SentTexts
  <2>3. /\ Row(name, pass) \in Rows
        /\ Row(name, pass).name = name /\ Row(name, pass).pass = pass
    BY <1>5, <2>2 DEF Row, Rows
  <2>4. /\ user_table' \in Seq(Rows) /\ Len(user_table) \in Nat
        /\ DOMAIN user_table = 1 .. Len(user_table)
        /\ DOMAIN user_table' = 1 .. Len(user_table) + 1
        /\ \A i \in DOMAIN user_table : user_table'[i] = user_table[i]
        /\ user_table'[Len(user_table) + 1] = Row(name, pass)
    BY <2>1, <2>3 DEF TypeOK
  <2>5. TypeOK'
    BY <1>3, <1>4, <1>5, <1>6, <1>7, <2>1, <2>4 DEF TypeOK
  <2>6. TableTold'
    <3> SUFFICES ASSUME Declared, NEW i \in DOMAIN user_table'
                 PROVE  \E a \in signed' : /\ user_table'[i].name[1] = Begin(a.name)
                                          /\ user_table'[i].pass[1] = Begin(a.pass)
      BY <1>3 DEF TableTold
    <3>1. CASE i \in DOMAIN user_table
      BY <2>1, <2>4, <3>1 DEF TableTold
    <3>2. CASE i = Len(user_table) + 1
      BY <1>4, <1>5, <2>1, <2>2, <2>3, <2>4, <3>2
    <3>3. QED
      BY <2>4, <3>1, <3>2
  <2>7. Kept'
    <3> SUFFICES ASSUME Declared, NEW a \in promised', Fits(a)
                 PROVE  \E i \in DOMAIN user_table' : user_table'[i] = Row(<<a.name>>, <<a.pass>>)
      BY <1>3 DEF Kept
    <3>1. CASE a \in promised
      <4>1. PICK i \in DOMAIN user_table : user_table[i] = Row(<<a.name>>, <<a.pass>>)
        BY <3>1 DEF Kept
      <4>2. i \in DOMAIN user_table' /\ user_table'[i] = Row(<<a.name>>, <<a.pass>>)
        BY <2>4, <4>1
      <4>3. QED
        BY <4>2
    <3>2. CASE a = Account(n, p)
      <4>1. name = <<a.name>> /\ pass = <<a.pass>>
        BY <1>4, <1>5, <2>2, <3>2 DEF Fits
      <4>2. Len(user_table) + 1 \in DOMAIN user_table'
        BY <2>4
      <4>3. QED
        BY <2>4, <4>1, <4>2
    <3>3. QED
      BY <1>2, <3>1, <3>2
  <2>8. QED
    BY <1>6, <1>7, <2>5, <2>6, <2>7
<1>9. CASE hr \notin Good
  <2>1. user_table' = user_table /\ signed' = signed /\ promised' = promised
    BY <1>2, <1>9 DEF Good
  <2>2. TypeOK'
    BY <1>3, <1>5, <1>6, <2>1 DEF TypeOK
  <2>3. TableTold' /\ Kept'
    BY <1>3, <2>1 DEF TableTold, Kept
  <2>4. QED
    BY <1>6, <1>7, <2>2, <2>3
<1>10. QED
  BY <1>8, <1>9

\* When the database is opened nobody has asked it anything.
LEMMA OpenStep ==
  ASSUME IInv, OdbcInit \/ ConnetMssql
  PROVE  IInv'
<1> USE DEF IInv
<1>1. /\ user_table = <<>> /\ promised = {} /\ answer = [op |-> "none"]
      /\ UNCHANGED <<m_szInsertName, user_table, signed, promised, answer>>
  BY DEF OdbcInit, ConnetMssql, Early, table
<1>2. stmt' \in [Stmts -> Statement]
  BY PreparedTypes DEF OdbcInit, ConnetMssql, TypeOK
<1>3. g_hDbc' \in Handles /\ stage' \in {"new", "initialised", "open"}
  BY DEF OdbcInit, ConnetMssql, TypeOK
<1>4. TypeOK'
  BY <1>1, <1>2, <1>3 DEF TypeOK
<1>5. Early' /\ LoginTruthful' /\ SignedUpFound'
  BY <1>1 DEF Early, LoginTruthful, SignedUpFound
<1>6. TableTold' /\ Kept'
  BY <1>1 DEF TableTold, Kept
<1>7. QED
  BY <1>4, <1>5, <1>6

\* Every step keeps the invariant.
LEMMA NextIInv == IInv /\ [Next]_vars => IInv'
<1> SUFFICES ASSUME IInv, [Next]_vars PROVE IInv'
  OBVIOUS
<1>1. CASE Request
  BY <1>1, LoginStep, AddStep DEF Request
<1>2. CASE OdbcInit \/ ConnetMssql
  BY <1>2, OpenStep
<1>3. CASE UNCHANGED vars
  BY <1>3 DEF IInv, vars, handles, table, TypeOK, Early, TableTold, Kept, LoginTruthful,
     SignedUpFound, Declared
<1>4. QED
  BY <1>1, <1>2, <1>3 DEF Next

\* Types and the answers, whatever ODBC says, are kept by every request.
THEOREM OdbcInvariance == Spec => []IInv
<1>1. QED
  BY InitIInv, NextIInv, PTL DEF Spec

\* The handles, statements and the table keep their types.
THEOREM OdbcTypeCorrect == Spec => []TypeOK
<1>1. IInv => TypeOK
  BY DEF IInv
<1>2. QED
  BY OdbcInvariance, <1>1, PTL

\* LoginCheckSQL confirms only who has signed up, as far as 20 characters tell, whatever
\* the lengths of names and passwords and whatever stands behind the members.
THEOREM LoginsTrue == Spec => []LoginTruthful
<1>1. IInv => LoginTruthful
  BY DEF IInv
<1>2. QED
  BY OdbcInvariance, <1>1, PTL

\* LoginCheckSQL finds every account that AddSQL confirmed and that fits into the members,
\* unless a call of ODBC fails, whatever was signed up before and after.
THEOREM SignUpsFound == Spec => []SignedUpFound
<1>1. IInv => SignedUpFound
  BY DEF IInv
<1>2. QED
  BY OdbcInvariance, <1>1, PTL

-----------------------------------------------------------------------------

\* Until the database is opened no handle was set.
Unopened == stage \in {"new", "initialised"} => \A s \in Stmts : stmt[s].handle = "garbage"

\* No request sets a handle before the database is opened.
LEMMA NextUnopened == Unopened /\ [Next]_vars => Unopened'
<1> SUFFICES ASSUME Unopened, [Next]_vars, stage' \in {"new", "initialised"}
             PROVE  stmt' = stmt /\ stage \in {"new", "initialised"}
  BY DEF Unopened
<1>1. CASE Request
  BY <1>1 DEF Request, LoginCheckSQL, AddSQL, Added, handles
<1>2. CASE ~Request
  BY <1>2 DEF Next, vars, handles, OdbcInit, ConnetMssql
<1>3. QED
  BY <1>1, <1>2

\* What the game's two statements are after the calls of a login.
LEMMA KeptExecutable ==
  ASSUME NEW s \in {"g_hLoginCheckStmt", "g_hSignupStmt"},
         NEW st \in [Stmts -> Statement], Executable(st, s), NEW x \in Stmts, NEW hr
  PROVE  /\ x # s => Executable(Opened(st, x, hr), s)
         /\ Executable(Closed(st, x), s)
         /\ Executable(Closed(Opened(st, s, hr), s), s)
<1> USE DEF Executable, Statement
<1>0. s \in Stmts
  BY DEF Stmts
<1>1. x # s => Executable(Opened(st, x, hr), s)
  BY <1>0 DEF Opened
<1>2. Executable(Closed(st, x), s)
  BY <1>0 DEF Closed
<1>3. Executable(Closed(Opened(st, s, hr), s), s)
  BY <1>0 DEF Closed, Opened
<1>4. QED
  BY <1>1, <1>2, <1>3

\* No request makes the next login or sign-up fail.
LEMMA StepExecutable ==
  ASSUME IInv, Unopened, [Next]_vars, NEW s \in {"g_hLoginCheckStmt", "g_hSignupStmt"},
         Executable(stmt, s)
  PROVE  Executable(stmt', s)
<1> USE DEF IInv
<1>0. stmt \in [Stmts -> Statement] /\ s \in Stmts /\ "g_hLoginCheckStmt" \in Stmts
  BY DEF TypeOK, Stmts
<1>1. CASE \E n \in Names, p \in Passes : LoginCheckSQL(n, p)
  <2>1. PICK hr : stmt' = Closed(Opened(stmt, "g_hLoginCheckStmt", hr), "g_hLoginCheckStmt")
    BY <1>1 DEF LoginCheckSQL
  <2>2. CASE s = "g_hLoginCheckStmt"
    BY <1>0, <2>1, <2>2, KeptExecutable
  <2>3. CASE s # "g_hLoginCheckStmt"
    <3>1. /\ Executable(Opened(stmt, "g_hLoginCheckStmt", hr), s)
          /\ Opened(stmt, "g_hLoginCheckStmt", hr) \in [Stmts -> Statement]
      BY <1>0, <2>3, KeptExecutable, StatementTypes
    <3>2. QED
      BY <1>0, <2>1, <3>1, KeptExecutable
  <2>4. QED
    BY <2>2, <2>3
<1>2. CASE ConnetMssql
  BY <1>0, <1>2 DEF ConnetMssql, Unopened, Executable
<1>3. CASE UNCHANGED stmt
  BY <1>3
<1>4. QED
  <2>1. Request => UNCHANGED stmt \/ \E n \in Names, p \in Passes : LoginCheckSQL(n, p)
    BY DEF Request, AddSQL, Added
  <2>2. UNCHANGED stmt \/ Request \/ ConnetMssql
    BY DEF Next, OdbcInit, vars
  <2>3. QED
    BY <1>1, <1>2, <1>3, <2>1, <2>2

\* The login and sign-up statements stay usable whatever the requests before them met.
THEOREM StatementsStayExecutable == Spec => StaysExecutable
<1>1. Init => Unopened
  BY DEF Init, Unopened, Unset
<1>2. IInv /\ Unopened /\ [Next]_vars =>
        [\A s \in {"g_hLoginCheckStmt", "g_hSignupStmt"} :
            Executable(stmt, s) => Executable(stmt', s)]_vars
  BY StepExecutable
<1>3. QED
  BY InitIInv, NextIInv, NextUnopened, <1>1, <1>2, PTL DEF Spec, StaysExecutable
=============================================================================
