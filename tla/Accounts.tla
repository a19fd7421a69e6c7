------------------------------ MODULE Accounts ------------------------------
(***************************************************************************)
(* One staff account and its refresh tokens (apps/accounts).  Requests     *)
(* load the account when they authenticate and save columns of it later;   *)
(* refresh tokens are kept by the token blacklist application.  Nothing    *)
(* here runs in a transaction or takes a lock.                             *)
(***************************************************************************)
EXTENDS Workers

CONSTANTS
    Token,
    MaxPasswords,       \* bound: passwords ever set
    MaxAccountCrashes   \* bound: requests killed half-way

ASSUME AccountsAssumption ==
    None \notin Token /\ MaxPasswords \in Nat /\ MaxAccountCrashes \in Nat

VARIABLES
    password,       \* which password the row has, in the order they were set
    passwords,      \* how many were set
    token,          \* refresh tokens: [state, since]; since: the password at their login
    revokedTo,      \* (history) the last password whose change revoked the tokens
    caller,         \* what each request read and is about to do
    callsRaced,     \* (history) whether two requests were ever under way at once
    accountCrashes

accountVars == <<password, passwords, token, revokedTo, caller, callsRaced, accountCrashes>>
-----------------------------------------------------------------------------
NoToken == [state |-> "unused", since |-> 0]
NoCall == [op |-> "none", password |-> 0, token |-> None, tokens |-> {}]

Live == {k \in Token : token[k].state = "live"}

AccountsInit ==
    /\ password = 0 /\ passwords = 0
    /\ token = [k \in Token |-> NoToken]
    /\ revokedTo = 0
    /\ caller = [w \in Worker |-> NoCall]
    /\ callsRaced = FALSE /\ accountCrashes = 0

Call(w, c) == /\ caller[w] = NoCall
              /\ caller' = [caller EXCEPT ![w] = c]
              /\ callsRaced' = (callsRaced \/ \E v \in Worker : caller[v] # NoCall)
              /\ UNCHANGED accountCrashes

Goes(w, c) == caller' = [caller EXCEPT ![w] = c] /\ UNCHANGED <<callsRaced, accountCrashes>>
-----------------------------------------------------------------------------
\* A request of a single statement, which others under way overlap.
AtOnce == /\ callsRaced' = (callsRaced \/ \E v \in Worker : caller[v] # NoCall)
          /\ UNCHANGED <<password, passwords, revokedTo, caller, accountCrashes>>

\* LoginView: the password is checked and a refresh token recorded.
Login == \E k \in Token : /\ token[k] = NoToken
                          /\ token' = [token EXCEPT ![k] = [state |-> "live", since |-> password]]
                          /\ AtOnce

\* RefreshView: the token is checked ...
CheckToken(w) ==
    \E k \in Live : /\ Call(w, [NoCall EXCEPT !.op = "refresh", !.token = k])
                    /\ UNCHANGED <<password, passwords, token, revokedTo>>

\* ... blacklisted, if it is not already, and replaced.
RotateToken(w) ==
    LET c == caller[w] IN
    /\ c.op = "refresh"
    /\ \E k \in Token :
          /\ token[k] = NoToken
          /\ token' = [token EXCEPT ![c.token].state = "revoked",
                                    ![k] = [token[c.token] EXCEPT !.state = "live"]]
    /\ Goes(w, NoCall)
    /\ UNCHANGED <<password, passwords, revokedTo>>

\* LogoutView.
Logout == \E k \in Live : token' = [token EXCEPT ![k].state = "revoked"] /\ AtOnce

\* change_password and reset_password have checked the request against the
\* account as it was loaded.  The profile form loaded it too (CurrentUserView).
LoadAccount(w) ==
    \E op \in {"change", "reset", "profile"} :
        /\ (op # "profile" => passwords < MaxPasswords)
        /\ Call(w, [NoCall EXCEPT !.op = op, !.password = password])
        /\ UNCHANGED <<password, passwords, token, revokedTo>>

\* save(update_fields=["password"]); a change goes on to the tokens.
SavePassword(w) ==
    LET c == caller[w] IN
    /\ c.op \in {"change", "reset"} /\ passwords < MaxPasswords
    /\ passwords' = passwords + 1 /\ password' = passwords + 1
    /\ Goes(w, IF c.op = "change" THEN [c EXCEPT !.op = "changed", !.password = passwords + 1]
                                ELSE NoCall)
    /\ UNCHANGED <<token, revokedTo>>

\* Mutant of ReadTokens: the filter on expires_at keeps the expired ones.
ReadExpired(w) ==
    /\ caller[w].op = "changed"
    /\ Goes(w, [caller[w] EXCEPT !.op = "revoke", !.tokens = {}])
    /\ UNCHANGED <<password, passwords, token, revokedTo>>

\* revoke_all_refresh_tokens reads the outstanding tokens ...
ReadTokens(w) ==
    /\ caller[w].op = "changed"
    /\ Goes(w, [caller[w] EXCEPT !.op = "revoke", !.tokens = Live])
    /\ UNCHANGED <<password, passwords, token, revokedTo>>

\* ... and blacklists one after the other; one that was blacklisted meanwhile
\* is a duplicate, which ends the request.
RevokeToken(w) ==
    LET c == caller[w] IN
    /\ c.op = "revoke"
    /\ IF c.tokens = {}
       THEN /\ revokedTo' = c.password
            /\ Goes(w, NoCall) /\ UNCHANGED token
       ELSE LET k == CHOOSE j \in c.tokens : TRUE IN
            IF k \in Live
            THEN /\ token' = [token EXCEPT ![k].state = "revoked"]
                 /\ Goes(w, [c EXCEPT !.tokens = @ \ {k}])
            ELSE UNCHANGED token /\ Goes(w, NoCall)
    /\ c.tokens # {} => UNCHANGED revokedTo
    /\ UNCHANGED <<password, passwords>>

\* The profile form saves the whole row, the password as it was loaded.
SaveProfile(w) ==
    /\ caller[w].op = "profile"
    /\ password' = caller[w].password
    /\ Goes(w, NoCall)
    /\ UNCHANGED <<passwords, token, revokedTo>>
-----------------------------------------------------------------------------
\* A process is killed.
AccountCrash(w) ==
    /\ caller[w] # NoCall /\ accountCrashes < MaxAccountCrashes
    /\ caller' = [caller EXCEPT ![w] = NoCall]
    /\ accountCrashes' = accountCrashes + 1
    /\ UNCHANGED <<password, passwords, token, revokedTo, callsRaced>>

AccountsNext ==
    \/ Login \/ Logout
    \/ \E w \in Worker : \/ CheckToken(w) \/ RotateToken(w) \/ LoadAccount(w) \/ SavePassword(w)
                         \/ ReadTokens(w) \/ RevokeToken(w) \/ SaveProfile(w) \/ AccountCrash(w)

AccountsSpec == AccountsInit /\ [][AccountsNext]_accountVars
-----------------------------------------------------------------------------
\* The types of the variables.
AccountsTypeOK ==
    /\ passwords \in 0 .. MaxPasswords /\ password \in 0 .. passwords
    /\ token \in [Token -> [state : {"unused", "live", "revoked"}, since : 0 .. passwords]]
    /\ revokedTo \in 0 .. passwords
    /\ caller \in [Worker -> [op : {"none", "refresh", "change", "reset", "profile", "changed",
                                    "revoke"},
                              password : 0 .. passwords, token : Token \cup {None},
                              tokens : SUBSET Token]]
    /\ callsRaced \in BOOLEAN /\ accountCrashes \in Nat

\* As long as requests do not overlap, the account has the password that was
\* set last, and a change that has come to its end leaves no refresh token
\* from before it (a reset leaves them all).  A profile form that overlaps
\* takes a new password back.
LastPasswordStays ==
    ~callsRaced => password = passwords /\ \A k \in Live : token[k].since >= revokedTo
=============================================================================
