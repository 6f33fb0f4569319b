---------------------------------- MODULE Odbc ----------------------------------
(***************************************************************************)
(* The accounts database as the game server uses it (Odbc.cpp): prepared    *)
(* statements whose markers are bound to members of the object, executed    *)
(* again and again with what those members hold.  One thread calls it, the  *)
(* game's, so a call is one step; what an ODBC call answers is chosen.      *)
(*                                                                         *)
(* Names and passwords have up to 32 characters, the bound members room for *)
(* 20 (TCHAR[20]).  A text of 20 or more is not ended in its member: who    *)
(* reads it reads on in the member behind.  A text is a sequence of pieces. *)
(*                                                                         *)
(* The length indicators stay SQL_NTS (read up to the end): the functions   *)
(* that change one have no caller in the game, and neither have the other   *)
(* requests on the tables.                                                  *)
(***************************************************************************)
EXTENDS Integers, Sequences, FiniteSets

CONSTANTS
    Names, Passes,  \* what clients may send
    Long,           \* those of 20 characters or more
    Start,          \* [Long -> their first 20 characters]
    MaxFaults,      \* bound: statements of which a preparation call fails
    MaxRows         \* bound: rows of user_table

Starts == {Start[t] : t \in Long}

ASSUME OdbcAssumption ==
    /\ Names \cap Passes = {}
    /\ Long \subseteq Names \cup Passes
    /\ Start \in [Long -> Starts]
    /\ Starts \cap (Names \cup Passes) = {}
    /\ MaxFaults \in Nat
    /\ MaxRows \in Nat

VARIABLES
    stage,          \* how far DbRun is
    g_hDbc,
    stmt,           \* the statement handles
    m_szInsertName,     \* as SQLExecute reads it
    user_table,
    answer,         \* of the last call
    signed,         \* ghost: what rows were inserted for
    promised        \* ghost: the sign-ups that were confirmed

handles == <<stage, g_hDbc>>
table == <<user_table, signed, promised>>
vars == <<handles, stmt, m_szInsertName, answer, table>>

Handles == {"garbage", "null", "alloc"}

Stmts == {"g_hStmt", "g_hSelectAllStmt", "g_hReadStmt", "g_hSignupStmt", "g_hUpdateStmt",
          "g_hDeleteStmt", "g_hLoginCheckStmt", "g_hInventoryAllStmt"}

\* bound: every parameter marker of its text is.  No constructor sets the handles.
Statement == [handle : Handles, prepared : BOOLEAN, bound : BOOLEAN, cursor : BOOLEAN]
Unset == [handle |-> "garbage", prepared |-> FALSE, bound |-> FALSE, cursor |-> FALSE]

\* A text as it is read: "(" and "?" are what follows a member that is not ended.
Texts == Seq(Names \cup Passes \cup Starts \cup {"(", "?"})
Rows == [name : Texts, pass : Texts]
Row(name, pass) == [name |-> name, pass |-> pass]

Accounts == [name : Names, pass : Passes]
Account(n, p) == [name |-> n, pass |-> p]

\* What a login was told, and what the fetch behind it said.
Fetched == {"SQL_SUCCESS", "SQL_NO_DATA", "SQL_ERROR", "none"}
Answers == [op : {"LoginCheckSQL"}, of : Accounts, ok : BOOLEAN, fetch : Fetched]
    \cup [op : {"AddSQL"}, of : Accounts, ok : BOOLEAN] \cup {[op |-> "none"]}

Init ==
    /\ stage = "new"
    /\ g_hDbc = "garbage"
    /\ stmt = [s \in Stmts |-> Unset]
    /\ m_szInsertName = <<>>
    /\ user_table = <<>>
    /\ answer = [op |-> "none"]
    /\ signed = {} /\ promised = {}

-----------------------------------------------------------------------------
(* Opening the database *)

\* Odbc::Init returns at the first call that fails; the environment comes first.
OdbcInit ==
    /\ stage = "new"
    /\ stage' = "initialised"
    /\ g_hDbc' \in Handles
    /\ UNCHANGED <<stmt, m_szInsertName, answer, table>>

Lost == [handle |-> "null", prepared |-> FALSE, bound |-> FALSE, cursor |-> FALSE]
Made(p, b) == [handle |-> "alloc", prepared |-> p, bound |-> b, cursor |-> FALSE]

\* What may come of each statement's preparation, other than success: some return at
\* the first call that fails, others go on and look at the result of the last only.
CreateUserAllSelect == {Lost, Made(FALSE, TRUE)}
CreateSelectWhereName == {Lost, Made(FALSE, FALSE), Made(TRUE, FALSE)}
Signup == {Lost, Made(FALSE, TRUE), Made(TRUE, FALSE)}
CreateUpdate == {Lost, Made(FALSE, FALSE), Made(TRUE, FALSE)}
DeleteLoingInfo == {Lost, Made(FALSE, TRUE), Made(TRUE, FALSE)}
LoginCheck == {Lost, Made(FALSE, TRUE), Made(TRUE, FALSE)}
InventoryCheckSql == {Lost, Made(FALSE, TRUE), Made(TRUE, FALSE)}

Failures == [
    g_hStmt |-> {Lost},
    g_hSelectAllStmt |-> CreateUserAllSelect,
    g_hReadStmt |-> CreateSelectWhereName,
    g_hSignupStmt |-> Signup,
    g_hUpdateStmt |-> CreateUpdate,
    g_hDeleteStmt |-> DeleteLoingInfo,
    g_hLoginCheckStmt |-> LoginCheck,
    g_hInventoryAllStmt |-> InventoryCheckSql]

\* CreatePrepare makes every statement and takes no notice of what fails.
CreatePrepare ==
    \E F \in SUBSET Stmts :
        /\ Cardinality(F) <= MaxFaults
        /\ \E lost \in [F -> UNION {Failures[s] : s \in F}] :
            /\ \A s \in F : lost[s] \in Failures[s]
            /\ stmt' = [s \in Stmts |-> IF s \in F THEN lost[s] ELSE Made(TRUE, TRUE)]

\* Without a connection the statement handles stay as they are.
ConnetMssql ==
    /\ stage = "initialised"
    /\ stage' = "open"
    /\ UNCHANGED stmt \/ (g_hDbc = "alloc" /\ CreatePrepare)
    /\ UNCHANGED <<g_hDbc, m_szInsertName, answer, table>>

-----------------------------------------------------------------------------
(* ODBC calls *)

Good == {"SQL_SUCCESS", "SQL_SUCCESS_WITH_INFO"}

\* The driver refuses an unallocated, unprepared or partly bound statement, and one
\* whose cursor is open.
Executable(st, s) ==
    st[s].handle = "alloc" /\ st[s].prepared /\ st[s].bound /\ ~st[s].cursor
Execute(st, s) == IF Executable(st, s) THEN Good \cup {"SQL_ERROR"} ELSE {"SQL_ERROR"}

\* Only SQL_NO_DATA says that there is no row.
Fetch(found) == {"SQL_ERROR", IF found THEN "SQL_SUCCESS" ELSE "SQL_NO_DATA"}

\* Mutant: no row counts as a row.
FoundAny == {"SQL_ERROR", "SQL_SUCCESS", "SQL_NO_DATA"}

\* What LoginCheckSQL takes for a row: a fetch that fails is one.
Found == {"SQL_ERROR", "SQL_SUCCESS"}

Opened(st, s, hr) == [st EXCEPT ![s].cursor = @ \/ hr \in Good]
Closed(st, s) == [st EXCEPT ![s].cursor = FALSE]

-----------------------------------------------------------------------------
(* The bound members, as SQLExecute reads them.  The others are cleared and copied anew *)
(* by every call: only m_szInsertName is kept as state, for what an old name could do.  *)

\* Behind m_szLoginPw is m_iLoginIdDataLength, which is 40: a parenthesis and an end.
LoginPw(p) == IF p \in Long THEN <<Start[p], "(">> ELSE <<p>>

\* Behind m_szLoginId is m_szLoginPw; 41 characters for a marker of 40 go whole or cut.
LoginId(n, p) ==
    IF n \in Long THEN {<<Start[n]>> \o LoginPw(p), <<Start[n], LoginPw(p)[1]>>} ELSE {<<n>>}

HasRow(name, pass) == \E i \in DOMAIN user_table : user_table[i] = Row(name, pass)

\* The whole password is copied, over the end and over g_hUpdateStmt, which the game has no
\* use for; then comes what was there before.  What is read behind the first 20 characters
\* may be nothing, the one character the login reads there, or anything else.
InsertPass(p) == IF p \in Long THEN {<<Start[p]>>, <<Start[p], "(">>, <<Start[p], "?">>}
                               ELSE {<<p>>}

\* The name too, and then m_szInsertPass behind it is zeroed and the password copied there.
InsertName(n, pass) == IF n \in Long THEN <<Start[n]>> \o pass ELSE <<n>>

\* The marker of the name was declared with m_iDataLength characters: the 20 bytes that
\* CreateSelectWhereName has left there, or whatever it was if that failed before.
Declared == stmt["g_hReadStmt"].prepared

\* The driver sends a text that is longer than its marker whole or cut, if it does not refuse.
Sent(text) ==
    IF ~Declared THEN {text, <<"?">>} \cup {<<n>> : n \in Names}
    ELSE IF Len(text) = 1 THEN {text} ELSE {text, <<text[1]>>}

-----------------------------------------------------------------------------
(* Requests *)

\* Mutant: the cursor is closed only when no row was found.
LoginLeavesCursor(n, p) ==
    LET s == "g_hLoginCheckStmt" IN
    /\ stage = "open"
    /\ \E hr \in Execute(stmt, s), name \in LoginId(n, p) :
        \E f \in IF hr = "SQL_SUCCESS" THEN Fetch(HasRow(name, LoginPw(p))) ELSE {"none"} :
            /\ answer' = [op |-> "LoginCheckSQL", of |-> Account(n, p), ok |-> f \in Found, fetch |-> f]
            /\ stmt' = IF f \in Found THEN Opened(stmt, s, hr) ELSE Closed(Opened(stmt, s, hr), s)
    /\ UNCHANGED <<handles, m_szInsertName, table>>

\* Only SQL_SUCCESS is followed by a fetch.
LoginCheckSQL(n, p) ==
    LET s == "g_hLoginCheckStmt" IN
    /\ stage = "open"
    /\ \E hr \in Execute(stmt, s), name \in LoginId(n, p) :
        /\ \E f \in IF hr = "SQL_SUCCESS" THEN Fetch(HasRow(name, LoginPw(p))) ELSE {"none"} :
            answer' = [op |-> "LoginCheckSQL", of |-> Account(n, p), ok |-> f \in Found, fetch |-> f]
        /\ stmt' = Closed(Opened(stmt, s, hr), s)
    /\ UNCHANGED <<handles, m_szInsertName, table>>

Insert(n, p, name, pass) ==
    /\ user_table' = Append(user_table, Row(name, pass))
    /\ signed' = signed \cup {Account(n, p)}

\* The row and the answer of AddSQL.  SQL_SUCCESS_WITH_INFO stores the account and
\* answers false.
Added(n, p, pass) ==
    /\ \E hr \in Execute(stmt, "g_hSignupStmt") :
        /\ IF hr \in Good
             THEN \E name \in Sent(m_szInsertName') : Insert(n, p, name, pass)
             ELSE UNCHANGED <<user_table, signed>>
        /\ promised' = IF hr = "SQL_SUCCESS" THEN promised \cup {Account(n, p)} ELSE promised
        /\ answer' = [op |-> "AddSQL", of |-> Account(n, p), ok |-> hr = "SQL_SUCCESS"]
    /\ UNCHANGED <<handles, stmt>>

\* Mutant: m_szInsertName is not zeroed before the copy, which brings no end with it.
AddOverOldName(n, p) ==
    /\ stage = "open" /\ Len(user_table) < MaxRows
    /\ \E pass \in InsertPass(p) :
        /\ m_szInsertName' \in {InsertName(n, pass)}
                \cup IF m_szInsertName \in {<<>>, <<n>>} THEN {} ELSE {<<n, "?">>}
        /\ Added(n, p, pass)

\* Nobody asks whether the name is taken.
AddSQL(n, p) ==
    /\ stage = "open" /\ Len(user_table) < MaxRows
    /\ \E pass \in InsertPass(p) :
        /\ m_szInsertName' = InsertName(n, pass)
        /\ Added(n, p, pass)

Request == \E n \in Names, p \in Passes : LoginCheckSQL(n, p) \/ AddSQL(n, p)

Next == OdbcInit \/ ConnetMssql \/ Request

Spec == Init /\ [][Next]_vars

-----------------------------------------------------------------------------
(* Properties *)

TypeOK ==
    /\ stage \in {"new", "initialised", "open"}
    /\ g_hDbc \in Handles
    /\ stmt \in [Stmts -> Statement]
    /\ m_szInsertName \in Texts
    /\ user_table \in Seq(Rows)
    /\ answer \in Answers
    /\ signed \subseteq Accounts /\ promised \subseteq Accounts

\* The same, or alike in the 20 characters that are kept.
Alike(t, u) == t = u \/ (t \in Long /\ u \in Long /\ Start[t] = Start[u])

\* ProcessLogin lets a client in when LoginCheckSQL says so: then somebody has signed up
\* with that name and password, or with texts of 20 characters or more that begin alike;
\* or the fetch has failed, which the code takes for a row.  It is claimed as long as the
\* width of the sign-up's marker was set, and holds whatever long texts write over.
LoginTruthful ==
    Declared /\ answer.op = "LoginCheckSQL" /\ answer.ok =>
        \/ answer.fetch = "SQL_ERROR"
        \/ \E a \in signed : Alike(a.name, answer.of.name) /\ Alike(a.pass, answer.of.pass)

\* Who was told that a sign-up has succeeded is not told later that there is no such
\* account, if name and password end within their members: what other requests leave in
\* the members, or write over their ends, does not get into the row.
SignedUpFound ==
    Declared /\ answer.op = "LoginCheckSQL" /\ answer.fetch = "SQL_NO_DATA"
        /\ answer.of.name \notin Long /\ answer.of.pass \notin Long
        => answer.of \notin promised

\* No answer, error or early return of one request makes the next login or sign-up
\* fail: once those statements can be executed they always can be.
StaysExecutable ==
    [][\A s \in {"g_hLoginCheckStmt", "g_hSignupStmt"} :
        Executable(stmt, s) => Executable(stmt', s)]_vars

=============================================================================
