------------------------------- MODULE Accounts -------------------------------
(***************************************************************************)
(* One account (backend/internal/auth: service.go, store.go): its sign-up, *)
(* the one-time codes mailed to it, and its sessions, each a pair of an    *)
(* access token and a refresh token.                                       *)
(*                                                                         *)
(* A request is a handler that runs several database statements; only the  *)
(* pairs the store puts into a transaction are one step.  Transactions run *)
(* at READ COMMITTED: a statement that waited for a row goes on with the   *)
(* new version of that row, but only with the rows its snapshot had found. *)
(* An update or locking read of several rows is therefore two steps here:  *)
(* what it finds, and what it then does to those still as it found them.   *)
(*                                                                         *)
(* A request may stop at any step: its client went away, a statement       *)
(* failed, a rate limit or an expired token refused it, the process died.  *)
(* Passwords and codes are compared, never computed.  Time passes whenever *)
(* it likes: the cooldown between two codes bars nothing.  A code that      *)
(* expired, or whose message was lost, is one that nobody types.           *)
(***************************************************************************)
EXTENDS Naturals, Sequences, FiniteSets

CONSTANTS Clients,       \* connections: each carries one request at a time
          Passwords,
          CodeAttempts,  \* Settings.CodeAttempts: wrong guesses that burn a code
          None,          \* no password
          Settings       \* deployments: Settings.RequireVerifiedEmail, and bounds on
                         \* the codes and the sessions that are ever stored

ASSUME ClientsAssumption == IsFiniteSet(Clients)
ASSUME AttemptsAssumption == CodeAttempts \in Nat \ {0}
ASSUME NoneAssumption == None \notin Passwords
ASSUME SettingsAssumption ==
    Settings \subseteq [requireVerifiedEmail : BOOLEAN, codes : Nat, sessions : Nat]

VARIABLES settings,    \* of the deployment, once and for all
          user,        \* the users row of the address
          codes,       \* the email_codes rows, in the order of their commits
          session,     \* the rows of access_tokens and refresh_tokens, in pairs
          req          \* req[c]: the request on connection c

vars == <<settings, user, codes, session, req>>
-------------------------------------------------------------------------------
Purposes == {"verify_email", "login", "password_reset"}
Statuses == {"none", "pending", "active", "blocked"}

Users == [status : Statuses, verified : BOOLEAN, password : Passwords \cup {None}]

\* live: not consumed; wrong: attempts; created: the rank of created_at.
\* History: grants, the requests it let through.
Codes == [purpose : Purposes, live : BOOLEAN, wrong : Nat, created : Nat,
          grants : Nat]

\* refresh: rotated_at and revoked_at of the refresh token; access: the access
\* token is not revoked.  History: parent, the refresh token it was exchanged
\* for; offered, its own one was offered to Refresh.
Sessions == [refresh : {"live", "rotated", "revoked"}, access : BOOLEAN,
             parent : Nat, offered : BOOLEAN]

\* guess, token, password: what the client sent; status: the account as it was
\* read; seen: the rows a statement found; known: how many codes there were.
Idle == [pc |-> "idle", op |-> "none", purpose |-> "none", guess |-> 0, token |-> 0,
         password |-> None, status |-> "none", seen |-> {}, known |-> 0]

Requests ==
    [pc : {"password", "activate", "put", "insert", "consume", "rotate", "reread",
           "issue", "revoke", "revoking", "logout"},
     op : {"register", "request", "verify", "code", "reset", "refresh", "logout",
           "logoutAll", "grant"},
     purpose : Purposes \cup {"none"}, guess : Nat, token : Nat,
     password : Passwords \cup {None}, status : Statuses, seen : SUBSET Nat,
     known : Nat]

Init ==
    /\ settings \in Settings
    /\ user = [status |-> "none", verified |-> FALSE, password |-> None]
    /\ codes = <<>>
    /\ session = <<>>
    /\ req = [c \in Clients |-> Idle]
-------------------------------------------------------------------------------
MustVerify == settings.requireVerifiedEmail

Reply(c) == req' = [req EXCEPT ![c] = Idle]
Go(c, pc) == req' = [req EXCEPT ![c].pc = pc]
Start(c, r) == req[c].pc = "idle" /\ req' = [req EXCEPT ![c] = r]

\* A mutant: the account is active whatever it was.
AlwaysActivated(u) == [u EXCEPT !.verified = TRUE, !.status = "active"]

\* activate: a blocked account stays blocked.
Activated(u) == [u EXCEPT !.verified = TRUE,
                          !.status = IF @ = "pending" THEN "active" ELSE @]

\* issue, up to its transaction: the account, as it was read, is active, or is
\* activated where addresses need no confirmation.
Granted(token, status) ==
    IF MustVerify /\ status # "active" THEN Idle
    ELSE [Idle EXCEPT !.pc = IF status = "active" THEN "issue" ELSE "activate",
                      !.op = "grant", !.token = token]

\* A mutant: the code is for nothing.
SendingForNothing(purpose) == [Idle EXCEPT !.pc = "put", !.op = "request"]

\* sendCode, from here on the same for all that come to it.
Sending(purpose) == [Idle EXCEPT !.pc = "put", !.op = "request", !.purpose = purpose]
-------------------------------------------------------------------------------
(* Sign-up. *)

\* A mutant: the address is taken for confirmed.
SignedUpConfirmed == [Idle EXCEPT !.pc = "activate", !.op = "register"]

\* What follows when the password of a sign-up is in place.
SignedUp ==
    IF MustVerify THEN Sending("verify_email")
    ELSE [Idle EXCEPT !.pc = "activate", !.op = "register"]

\* Register inserts the account, or finds an unconfirmed one under the address.
Register(c, p) ==
    \/ /\ user.status = "none"
       /\ user' = [status |-> IF MustVerify THEN "pending" ELSE "active",
                   verified |-> FALSE, password |-> p]
       /\ Start(c, SignedUp)
       /\ UNCHANGED <<settings, codes, session>>
    \/ /\ user.status # "none" /\ ~user.verified
       /\ Start(c, [Idle EXCEPT !.pc = "password", !.op = "register", !.password = p])
       /\ UNCHANGED <<settings, user, codes, session>>

\* setPassword, for a sign-up that is retried and for a reset.
SetPassword(c) ==
    /\ req[c].pc = "password"
    /\ user' = [user EXCEPT !.password = req[c].password]
    /\ req' = [req EXCEPT ![c] = IF @.op = "reset" THEN [@ EXCEPT !.pc = "revoke", !.password = None]
                                 ELSE SignedUp]
    /\ UNCHANGED <<settings, codes, session>>

\* activate: at a sign-up, for a confirmed address, and within issue.
Activate(c) ==
    /\ req[c].pc = "activate"
    /\ user' = Activated(user)
    /\ req' = [req EXCEPT ![c] = IF @.op = "register" THEN Sending("verify_email")
                                 ELSE Granted(@.token, "active")]
    /\ UNCHANGED <<settings, codes, session>>
-------------------------------------------------------------------------------
(* Codes. *)

\* requestCode: an address that is not confirmed gets the code that confirms it.
RequestCode(c, purpose) ==
    /\ user.status \notin {"none", "blocked"}
    /\ ~(purpose = "verify_email" /\ user.verified)
    /\ Start(c, Sending(IF MustVerify /\ ~user.verified THEN "verify_email" ELSE purpose))
    /\ UNCHANGED <<settings, user, codes, session>>

LiveCodes(purpose) == {i \in DOMAIN codes : codes[i].live /\ codes[i].purpose = purpose}

\* A mutant: earlier codes stay.
NoneSuperseded(purpose) == {}

Superseded(purpose) == LiveCodes(purpose)

\* putCode: the update of the earlier codes looks for them...
Supersede(c) ==
    /\ req[c].pc = "put"
    /\ req' = [req EXCEPT ![c].pc = "insert",
                          ![c].seen = Superseded(req[c].purpose),
                          ![c].known = Len(codes)]
    /\ UNCHANGED <<settings, user, codes, session>>

\* ...they are consumed, and the new one is inserted and, once committed, mailed.
\* created_at is when the transaction began: after all codes it could have seen.
InsertCode(c) ==
    /\ req[c].pc = "insert" /\ Len(codes) < settings.codes
    /\ \E rank \in 1 .. Len(codes) + 1 :
         /\ \A i \in 1 .. req[c].known : codes[i].created < rank
         /\ codes' = Append([i \in DOMAIN codes |->
                              [codes[i] EXCEPT !.live = @ /\ i \notin req[c].seen,
                                               !.created = IF @ < rank THEN @ ELSE @ + 1]],
                            [purpose |-> req[c].purpose, live |-> TRUE, wrong |-> 0,
                             created |-> rank, grants |-> 0])
    /\ Reply(c)
    /\ UNCHANGED <<settings, user, session>>

PurposeOf(op) == CASE op = "verify" -> "verify_email"
                   [] op = "code" -> "login"
                   [] op = "reset" -> "password_reset"

\* The codes a client can type: one of those mailed, or a wrong one.
Typed(purpose) ==
    {0} \cup {i \in DOMAIN codes : codes[i].purpose = purpose}

\* checkCode: the account is read, and consumeCode looks for the live codes.
Guess(c, op, guess, p) ==
    /\ user.status \notin {"none", "blocked"}
    /\ Start(c, [Idle EXCEPT !.pc = "consume", !.op = op, !.guess = guess,
                             !.password = p, !.status = user.status,
                             !.seen = LiveCodes(PurposeOf(op))])
    /\ req'[c].seen # {}
    /\ UNCHANGED <<settings, user, codes, session>>

\* A mutant: the row that was waited for is not looked at again.
NotRechecked(c) == req[c].seen

\* The codes found that are still live when their turn comes.
Candidates(c) == {i \in req[c].seen : codes[i].live}

\* A mutant: one guess more.
StillGuessable(wrong) == wrong <= CodeAttempts

Guessable(wrong) == wrong < CodeAttempts

Newest(S) == CHOOSE i \in S : \A j \in S : codes[j].created <= codes[i].created

\* The newest code is accepted and burned...
AcceptCode(c) ==
    /\ req[c].pc = "consume" /\ Candidates(c) # {}
    /\ req[c].guess = Newest(Candidates(c))
    /\ codes' = [codes EXCEPT ![req[c].guess].live = FALSE,
                              ![req[c].guess].grants = @ + 1]
    /\ req' = [req EXCEPT ![c] =
                 CASE @.op = "verify" -> [Idle EXCEPT !.pc = "activate", !.op = "grant"]
                   [] @.op = "code" -> Granted(0, @.status)
                   [] @.op = "reset" -> [@ EXCEPT !.pc = "password", !.guess = 0,
                                                  !.seen = {}]]
    /\ UNCHANGED <<settings, user, session>>

\* ...or a wrong guess is counted against it.
RefuseCode(c) ==
    /\ req[c].pc = "consume"
    /\ IF Candidates(c) = {} THEN UNCHANGED codes
       ELSE LET i == Newest(Candidates(c)) IN
            /\ req[c].guess # i
            /\ codes' = [codes EXCEPT ![i].wrong = @ + 1,
                                      ![i].live = Guessable(codes[i].wrong + 1)]
    /\ Reply(c)
    /\ UNCHANGED <<settings, user, session>>
-------------------------------------------------------------------------------
(* Sessions. *)

\* Login: the password is checked against the account as it was read.
Login(c, p) ==
    /\ user.status \notin {"none", "blocked"} /\ user.password = p
    /\ Start(c, IF MustVerify /\ ~user.verified THEN Sending("verify_email")
                ELSE Granted(0, user.status))
    /\ UNCHANGED <<settings, user, codes, session>>

\* issueSession: both tokens in one transaction.
Issue(c) ==
    /\ req[c].pc = "issue" /\ Len(session) < settings.sessions
    /\ session' = Append(session, [refresh |-> "live", access |-> TRUE,
                                   parent |-> req[c].token, offered |-> FALSE])
    /\ Reply(c)
    /\ UNCHANGED <<settings, user, codes>>

\* A mutant: the row of the token is read without locking it.
NeverLocked(c, i) == FALSE

\* rotateRefresh holds the row of its token from the first read to the commit.
Locked(c, i) ==
    \E d \in Clients \ {c} :
        /\ req[d].op = "refresh" /\ req[d].token = i
        /\ req[d].pc \in {"rotate", "revoke", "revoking"}

\* A mutant: a token that was signed out counts as replayed, too.
NotFresh(i) == session[i].refresh # "live"

Replayed(i) == session[i].refresh = "rotated"

\* rotateRefresh: a token that was exchanged before ends every session...
Refresh(c, i) ==
    /\ ~Locked(c, i)
    /\ Replayed(i) \/ (session[i].refresh = "live" /\ user.status = "active")
    /\ Start(c, [Idle EXCEPT !.op = "refresh", !.token = i,
                             !.pc = IF Replayed(i) THEN "revoke" ELSE "rotate"])
    /\ session' = [session EXCEPT ![i].offered = TRUE]
    /\ UNCHANGED <<settings, user, codes>>

\* ...a live one is spent, with the access token it came with.
Rotate(c) ==
    /\ req[c].pc = "rotate"
    /\ session' = [session EXCEPT ![req[c].token].refresh = "rotated",
                                  ![req[c].token].access = FALSE]
    /\ Go(c, "reread")
    /\ UNCHANGED <<settings, user, codes>>

\* Refresh goes on outside of that transaction: the account, then issue.
Reread(c) ==
    /\ req[c].pc = "reread"
    /\ req' = [req EXCEPT ![c] = Granted(@.token, user.status)]
    /\ UNCHANGED <<settings, user, codes, session>>

\* authorize, then Logout, with or without the refresh token.
Logout(c, i, op) ==
    /\ session[i].access /\ user.status = "active"
    /\ Start(c, [Idle EXCEPT !.op = op, !.token = i,
                             !.pc = IF op = "logout" THEN "logout" ELSE "revoke"])
    /\ UNCHANGED <<settings, user, codes, session>>

SignOut(c) ==
    /\ req[c].pc = "logout"
    /\ \/ session' = [session EXCEPT ![req[c].token].access = FALSE]
       \/ /\ ~Locked(c, req[c].token)
          /\ session' = [session EXCEPT
                           ![req[c].token].refresh = IF @ = "live" THEN "revoked" ELSE @,
                           ![req[c].token].access = FALSE]
    /\ Reply(c)
    /\ UNCHANGED <<settings, user, codes>>

LiveTokens == {i \in DOMAIN session : session[i].refresh = "live"}

\* revokeAll and the end of a replay: the update of the refresh tokens looks for
\* them...
FindTokens(c) ==
    /\ req[c].pc = "revoke"
    /\ req' = [req EXCEPT ![c].pc = "revoking", ![c].seen = LiveTokens]
    /\ UNCHANGED <<settings, user, codes, session>>

\* A mutant: first the access tokens, then the refresh tokens.
RevokedAccessFirst(i, found) ==
    [session[i] EXCEPT !.refresh = IF @ = "live" THEN "revoked" ELSE @,
                       !.access = @ /\ i \notin found]

\* The second update has a snapshot of its own, and finds more access tokens.
Revoked(i, found) ==
    [session[i] EXCEPT !.refresh = IF i \in found /\ @ = "live" THEN "revoked" ELSE @,
                       !.access = FALSE]

\* ...waits for those being exchanged, and the update of the access tokens ends
\* the transaction.
RevokeAll(c) ==
    /\ req[c].pc = "revoking"
    /\ \A i \in req[c].seen : ~Locked(c, i)
    /\ session' = [i \in DOMAIN session |-> Revoked(i, req[c].seen)]
    /\ req' = [req EXCEPT ![c] = IF @.op = "reset"
                                 THEN Granted(0, @.status)
                                 ELSE Idle]
    /\ UNCHANGED <<settings, user, codes>>
-------------------------------------------------------------------------------
\* An operator blocks the account: a status the schema has and the code obeys.
Block ==
    /\ user.status \in {"pending", "active"}
    /\ user' = [user EXCEPT !.status = "blocked"]
    /\ UNCHANGED <<settings, codes, session, req>>

Stop(c) ==
    /\ req[c].pc # "idle"
    /\ Reply(c)
    /\ UNCHANGED <<settings, user, codes, session>>

Arrive(c) ==
    \/ \E p \in Passwords : Register(c, p) \/ Login(c, p)
    \/ \E purpose \in Purposes : RequestCode(c, purpose)
    \/ \E op \in {"verify", "code"} : \E guess \in Typed(PurposeOf(op)) :
          Guess(c, op, guess, None)
    \/ \E p \in Passwords, guess \in Typed("password_reset") : Guess(c, "reset", guess, p)
    \/ \E i \in DOMAIN session :
          Refresh(c, i) \/ Logout(c, i, "logout") \/ Logout(c, i, "logoutAll")

Proceed(c) ==
    \/ SetPassword(c) \/ Activate(c) \/ Supersede(c) \/ InsertCode(c)
    \/ AcceptCode(c) \/ RefuseCode(c) \/ Issue(c) \/ Rotate(c) \/ Reread(c)
    \/ SignOut(c) \/ FindTokens(c) \/ RevokeAll(c)

Next ==
    \/ \E c \in Clients : Arrive(c) \/ Proceed(c) \/ Stop(c)
    \/ Block

Spec == Init /\ [][Next]_vars
-------------------------------------------------------------------------------
\* The rows and the requests keep their shape.
TypeOK ==
    /\ settings \in Settings
    /\ user \in Users
    /\ codes \in Seq(Codes)
    /\ session \in Seq(Sessions)
    /\ req \in [Clients -> Requests \cup {Idle}]

\* Whatever ends a refresh token, a rotation, a sign-out, a reset or a replay,
\* no access token outlives the refresh token it was issued with, also when a
\* session is issued between the two updates of a revocation.
NoOrphanedAccess ==
    \A i \in DOMAIN session : session[i].access => session[i].refresh = "live"

\* A refresh token is exchanged for one session at most, however many requests
\* offer it at the same time: what escapes the revocation that follows a replay
\* is at most the one exchange that was under way.
ExchangedOnce ==
    \A i, j \in DOMAIN session :
        session[i].parent = session[j].parent /\ session[i].parent # 0 => i = j

\* A device that offers each of its refresh tokens once never makes the server
\* end the sessions of the account for a replay.
NoRepeatNoReplay ==
    [][\A c \in Clients :
         req'[c].op = "refresh" /\ req'[c].pc = "revoke"
             => session[req'[c].token].offered]_vars

\* A code lets one request through, also when two of them typed it at once.
OneGrantPerCode == \A i \in DOMAIN codes : codes[i].grants <= 1

\* A code that was guessed wrong as often as the settings allow lets nobody
\* through any more, although guesses found it while it was live.
ExhaustedIsBurned ==
    \A i \in DOMAIN codes :
        codes[i].wrong >= CodeAttempts
            => ~codes[i].live /\ codes[i].grants = 0 /\ codes[i].wrong = CodeAttempts

\* However codes are asked for, guessed and burned, no more of a purpose are live at
\* once than there are connections: putCode does not see the codes of those that
\* overlap with it, but whatever was stored before it looked is superseded.  ("Only
\* the most recent message works", auth/store.go:92, holds for one connection only.)
LiveCodesBounded ==
    \A purpose \in Purposes : Cardinality(LiveCodes(purpose)) <= Cardinality(Clients)

\* Where addresses have to be confirmed nobody has a session before a code that
\* was mailed to the address came back.
ConfirmedBeforeSession ==
    MustVerify /\ session # <<>>
        => \E i \in DOMAIN codes :
              codes[i].purpose = "verify_email" /\ codes[i].grants > 0

\* A request that read the account before it was blocked does not unblock it.
BlockedStays == [][user.status = "blocked" => user'.status = "blocked"]_vars
===============================================================================
