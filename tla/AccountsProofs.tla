---------------------------- MODULE AccountsProofs ----------------------------
(***************************************************************************)
(* The safety properties of Accounts, for any number of connections, codes *)
(* and sessions, any passwords and any number of attempts.                 *)
(***************************************************************************)
EXTENDS Accounts, NumberLemmas, FiniteSetTheorems

\* A code that was mailed to the address came back.
Confirmed ==
    \E i \in DOMAIN codes : codes[i].purpose = "verify_email" /\ codes[i].grants > 0

\* What a request holds at each of its statements.
Fits(r) ==
    /\ r.pc \in {"put", "insert"} => r.purpose \in Purposes
    /\ r.pc = "insert" =>
         /\ r.known <= Len(codes)
         /\ \A i \in 1 .. r.known :
              codes[i].live /\ codes[i].purpose = r.purpose => i \in r.seen
    /\ r.pc = "consume" =>
         /\ r.op \in {"verify", "code", "reset"}
         /\ r.seen \subseteq DOMAIN codes
         /\ \A i \in r.seen : codes[i].purpose = PurposeOf(r.op)
    /\ r.pc = "rotate" => r.op = "refresh"
    /\ r.op = "refresh" => r.token \in DOMAIN session /\ session[r.token].offered

RequestsFit == \A c \in Clients : Fits(req[c])

\* A code is created in its turn, live until it is used or worn out, and never both.
CodeFits(k, n) ==
    /\ k.created \in 1 .. n
    /\ k.live => k.grants = 0 /\ k.wrong < CodeAttempts
    /\ k.grants <= 1
    /\ k.wrong <= CodeAttempts
    /\ k.wrong = CodeAttempts => k.grants = 0

CodesFit == \A i \in DOMAIN codes : CodeFits(codes[i], Len(codes))

\* The requests between spending a refresh token and issuing what it is exchanged for.
Rotating(c) == req[c].pc = "rotate"
Exchanging(c) == req[c].pc \in {"reread", "activate", "issue"} /\ req[c].token # 0

\* Each token is exchanged by one request, and by no request once it has a successor.
RotatingAlone ==
    /\ \A c \in Clients : Rotating(c) => session[req[c].token].refresh = "live"
    /\ \A c, d \in Clients :
         Rotating(c) /\ Rotating(d) /\ req[c].token = req[d].token => c = d

ExchangingAlone ==
    /\ \A c \in Clients : Exchanging(c) =>
         /\ req[c].token \in DOMAIN session
         /\ session[req[c].token].refresh = "rotated"
         /\ \A i \in DOMAIN session : session[i].parent # req[c].token
    /\ \A c, d \in Clients :
         Exchanging(c) /\ Exchanging(d) /\ req[c].token = req[d].token => c = d

ParentsAreSpent ==
    \A i \in DOMAIN session : session[i].parent # 0 =>
        /\ session[i].parent \in DOMAIN session
        /\ session[session[i].parent].refresh = "rotated"

SpentWereOffered ==
    \A i \in DOMAIN session : session[i].refresh = "rotated" => session[i].offered

\* Where addresses have to be confirmed, nothing that leads to a session is there
\* before the address is.
ActiveIsConfirmed ==
    MustVerify =>
        /\ user.status = "active" \/ user.verified => Confirmed
        /\ \A c \in Clients :
             req[c].status = "active" \/ req[c].pc \in {"activate", "issue"} => Confirmed

Exchanges == RotatingAlone /\ ExchangingAlone /\ ParentsAreSpent /\ SpentWereOffered
                /\ NoOrphanedAccess /\ ExchangedOnce

\* The live codes from the ith on are no more than the connections that are not about
\* to store a code without having seen the ith.
LiveFrom(purpose, i) == {j \in LiveCodes(purpose) : i <= j}
Unaware(purpose, i) ==
    {c \in Clients : req[c].pc = "insert" /\ req[c].purpose = purpose /\ req[c].known < i}

OverlapsBounded ==
    \A purpose \in Purposes, i \in Nat :
        Cardinality(LiveFrom(purpose, i)) <= Cardinality(Clients \ Unaware(purpose, i))

IInv == /\ TypeOK /\ RequestsFit /\ CodesFit
        /\ OverlapsBounded
        /\ Exchanges
        /\ ActiveIsConfirmed /\ ConfirmedBeforeSession
-------------------------------------------------------------------------------
\* A function on the first numbers is a sequence.
LEMMA FunctionIsSeq ==
  ASSUME NEW S, NEW n \in Nat, NEW f \in [1 .. n -> S]
  PROVE  f \in Seq(S) /\ Len(f) = n
  OBVIOUS

\* The rows, by their positions.
LEMMA RowsType ==
  ASSUME TypeOK
  PROVE  /\ Len(codes) \in Nat /\ DOMAIN codes = 1 .. Len(codes)
         /\ \A i \in DOMAIN codes : codes[i] \in Codes
         /\ Len(session) \in Nat /\ DOMAIN session = 1 .. Len(session)
         /\ \A i \in DOMAIN session : session[i] \in Sessions
  BY DEF TypeOK

\* What a request consists of.
LEMMA RequestType ==
  ASSUME TypeOK, NEW c \in Clients
  PROVE  /\ req[c] \in Requests \cup {Idle}
         /\ req[c].pc # "idle" => req[c] \in Requests
         /\ req[c].pc \notin {"idle"} => req[c] # Idle
         /\ req[c].token \in Nat /\ req[c].known \in Nat /\ req[c].guess \in Nat
         /\ req[c].status \in Statuses
         /\ req[c].password \in Passwords \cup {None}
         /\ req[c].seen \in SUBSET Nat
  BY DEF TypeOK, Requests, Idle, Statuses

\* The requests that handlers start or go on with.
LEMMA IdleIs ==
  /\ Idle.pc = "idle" /\ Idle.op = "none" /\ Idle.status = "none" /\ Idle.token = 0
  /\ Idle \in Requests \cup {Idle} /\ Fits(Idle)
  BY DEF Idle, Fits

LEMMA SendingIs ==
  ASSUME NEW p \in Purposes
  PROVE  /\ Sending(p) \in Requests /\ Fits(Sending(p))
         /\ Sending(p).pc = "put" /\ Sending(p).op = "request"
         /\ Sending(p).status = "none" /\ Sending(p).token = 0
<1>1. Sending(p) \in Requests
  BY DEF Sending, Idle, Requests, Statuses
<1>2. /\ Sending(p).pc = "put" /\ Sending(p).op = "request" /\ Sending(p).purpose = p
      /\ Sending(p).status = "none" /\ Sending(p).token = 0
  BY DEF Sending, Idle
<1> QED
  BY <1>1, <1>2 DEF Fits

LEMMA GrantedIs ==
  ASSUME NEW token \in Nat, NEW status \in Statuses
  PROVE  /\ Granted(token, status) \in Requests \cup {Idle} /\ Fits(Granted(token, status))
         /\ Granted(token, status).status = "none"
         /\ \/ /\ Granted(token, status) = Idle
               /\ MustVerify /\ status # "active"
            \/ /\ Granted(token, status).pc \in {"activate", "issue"}
               /\ Granted(token, status).op = "grant"
               /\ Granted(token, status).token = token
               /\ MustVerify => status = "active"
<1>1. CASE MustVerify /\ status # "active"
  BY <1>1, IdleIs DEF Granted
<1>2. CASE ~(MustVerify /\ status # "active")
  <2>1. Granted(token, status) =
          [pc |-> IF status = "active" THEN "issue" ELSE "activate",
           op |-> "grant", purpose |-> "none", guess |-> 0, token |-> token,
           password |-> None, status |-> "none", seen |-> {}, known |-> 0]
    BY <1>2 DEF Granted, Idle
  <2> QED
    BY <1>2, <2>1 DEF Requests, Statuses, Fits
<1> QED
  BY <1>1, <1>2

LEMMA SignedUpIs ==
  /\ SignedUp \in Requests /\ Fits(SignedUp)
  /\ SignedUp.status = "none" /\ SignedUp.token = 0
  /\ MustVerify => SignedUp.pc = "put"
  /\ SignedUp.pc \in {"put", "activate"} /\ SignedUp.op # "refresh"
<1>1. CASE MustVerify
  BY <1>1, SendingIs DEF SignedUp, Purposes
<1>2. CASE ~MustVerify
  <2>1. SignedUp =
          [pc |-> "activate", op |-> "register", purpose |-> "none", guess |-> 0,
           token |-> 0, password |-> None, status |-> "none", seen |-> {}, known |-> 0]
    BY <1>2 DEF SignedUp, Idle
  <2> QED
    BY <1>2, <2>1 DEF Requests, Statuses, Fits
<1> QED
  BY <1>1, <1>2

\* One request goes on, the others wait.
Puts(c, r) == r \in Requests \cup {Idle} /\ req' = [req EXCEPT ![c] = r]

LEMMA PutsIs ==
  ASSUME TypeOK, NEW c \in Clients, NEW r, Puts(c, r)
  PROVE  /\ req' \in [Clients -> Requests \cup {Idle}]
         /\ req'[c] = r
         /\ \A d \in Clients \ {c} : req'[d] = req[d]
  BY DEF TypeOK, Puts
-------------------------------------------------------------------------------
(* Rows keep their type, and are only appended and moved on. *)

CodesGrow ==
    /\ codes' \in Seq(Codes)
    /\ Len(codes) <= Len(codes')
    /\ \A i \in DOMAIN codes :
         /\ codes'[i].purpose = codes[i].purpose
         /\ codes'[i].live => codes[i].live
         /\ codes'[i].grants >= codes[i].grants

SessionsGrow ==
    /\ session' \in Seq(Sessions)
    /\ Len(session) <= Len(session')
    /\ \A i \in DOMAIN session :
         /\ session'[i].parent = session[i].parent
         /\ session[i].offered => session'[i].offered
         /\ session[i].refresh = "rotated" => session'[i].refresh = "rotated"

\* A new code finds its place among those that are there.
LEMMA InsertGrows ==
  ASSUME TypeOK, RequestsFit, NEW c \in Clients, InsertCode(c)
  PROVE  /\ CodesGrow
         /\ Len(codes') = Len(codes) + 1
         /\ codes'[Len(codes')].purpose = req[c].purpose
         /\ codes'[Len(codes')].wrong = 0 /\ codes'[Len(codes')].grants = 0
         /\ codes'[Len(codes')].created \in 1 .. Len(codes')
         /\ \A i \in DOMAIN codes :
              /\ codes'[i].live <=> codes[i].live /\ i \notin req[c].seen
              /\ codes'[i].wrong = codes[i].wrong /\ codes'[i].grants = codes[i].grants
              /\ codes'[i].created \in {codes[i].created, codes[i].created + 1}
<1> USE RowsType, RequestType
<1>1. PICK rank \in 1 .. Len(codes) + 1 :
        codes' = Append([i \in DOMAIN codes |->
                          [codes[i] EXCEPT !.live = @ /\ i \notin req[c].seen,
                                           !.created = IF @ < rank THEN @ ELSE @ + 1]],
                        [purpose |-> req[c].purpose, live |-> TRUE, wrong |-> 0,
                         created |-> rank, grants |-> 0])
  BY DEF InsertCode
<1> DEFINE old == [i \in DOMAIN codes |->
                     [codes[i] EXCEPT !.live = @ /\ i \notin req[c].seen,
                                      !.created = IF @ < rank THEN @ ELSE @ + 1]]
           new == [purpose |-> req[c].purpose, live |-> TRUE, wrong |-> 0,
                   created |-> rank, grants |-> 0]
<1>2. \A i \in DOMAIN codes :
        /\ old[i] \in Codes
        /\ old[i].purpose = codes[i].purpose
        /\ old[i].live <=> codes[i].live /\ i \notin req[c].seen
        /\ old[i].wrong = codes[i].wrong /\ old[i].grants = codes[i].grants
        /\ old[i].created \in {codes[i].created, codes[i].created + 1}
  <2> SUFFICES ASSUME NEW i \in DOMAIN codes
               PROVE  /\ old[i] \in Codes
                      /\ old[i].purpose = codes[i].purpose
                      /\ old[i].live <=> codes[i].live /\ i \notin req[c].seen
                      /\ old[i].wrong = codes[i].wrong /\ old[i].grants = codes[i].grants
                      /\ old[i].created \in {codes[i].created, codes[i].created + 1}
    OBVIOUS
  <2>1. codes[i] \in Codes
    OBVIOUS
  <2>2. old[i] = [purpose |-> codes[i].purpose,
                  live |-> codes[i].live /\ i \notin req[c].seen,
                  wrong |-> codes[i].wrong,
                  created |-> IF codes[i].created < rank THEN codes[i].created
                              ELSE codes[i].created + 1,
                  grants |-> codes[i].grants]
    BY <2>1 DEF Codes
  <2>3. /\ codes[i].purpose \in Purposes /\ codes[i].live \in BOOLEAN
        /\ codes[i].wrong \in Nat /\ codes[i].created \in Nat /\ codes[i].grants \in Nat
    BY <2>1 DEF Codes
  <2> HIDE DEF old
  <2>4. (codes[i].live /\ i \notin req[c].seen) \in BOOLEAN
    OBVIOUS
  <2>5. old[i] \in Codes
    BY <2>2, <2>3, <2>4 DEF Codes
  <2>6. old[i].live = (codes[i].live /\ i \notin req[c].seen)
    BY <2>2
  <2>7. old[i].live <=> codes[i].live /\ i \notin req[c].seen
    BY <2>6, Zenon
  <2> QED
    BY <2>2, <2>3, <2>5, <2>6, <2>7
<1>3. req[c].purpose \in Purposes
  BY DEF RequestsFit, Fits, InsertCode
<1>4. new \in Codes
  BY <1>3 DEF Codes
<1>5. old \in Seq(Codes) /\ Len(old) = Len(codes)
  <2>1. old \in [1 .. Len(codes) -> Codes]
    BY <1>2
  <2> QED
    BY <2>1, FunctionIsSeq
<1> HIDE DEF old
<1>6. codes' = Append(old, new)
  BY <1>1 DEF old
<1>7. /\ codes' \in Seq(Codes) /\ Len(codes') = Len(codes) + 1
      /\ codes'[Len(codes')] = new
      /\ \A i \in DOMAIN codes : codes'[i] = old[i]
  BY <1>4, <1>5, <1>6
<1>8. \A i \in DOMAIN codes : codes[i].grants \in Nat
  BY DEF Codes
<1> QED
  BY <1>2, <1>7, <1>8 DEF CodesGrow

\* Of some codes one is the newest.
LEMMA NewestIs ==
  ASSUME TypeOK, CodesFit, NEW S \in SUBSET DOMAIN codes, S # {}
  PROVE  Newest(S) \in S
<1> DEFINE ages == {Len(codes) - codes[i].created : i \in S}
<1>1. \A i \in S : codes[i].created \in 1 .. Len(codes)
  BY DEF CodesFit, CodeFits
<1>2. ages \in SUBSET Nat /\ ages # {}
  BY <1>1, RowsType
<1>3. PICK m \in ages : \A k \in ages : m <= k
  BY <1>2, LeastNumber
<1>4. PICK i \in S : m = Len(codes) - codes[i].created
  BY <1>3
<1>5. \A j \in S : codes[j].created <= codes[i].created
  <2> SUFFICES ASSUME NEW j \in S
               PROVE  codes[j].created <= codes[i].created
    OBVIOUS
  <2>1. m <= Len(codes) - codes[j].created
    BY <1>3
  <2> QED
    BY <1>1, <1>4, <2>1, RowsType
<1> QED
  BY <1>5 DEF Newest

\* The code that lets a request through was live and one of those it had found.
LEMMA AcceptGrows ==
  ASSUME TypeOK, RequestsFit, CodesFit, NEW c \in Clients, AcceptCode(c)
  PROVE  LET g == req[c].guess IN
         /\ CodesGrow /\ Len(codes') = Len(codes)
         /\ g \in DOMAIN codes /\ g \in req[c].seen /\ codes[g].live
         /\ codes'[g].grants = codes[g].grants + 1
         /\ ~codes'[g].live
         /\ codes'[g].wrong = codes[g].wrong /\ codes'[g].created = codes[g].created
         /\ \A i \in DOMAIN codes \ {g} : codes'[i] = codes[i]
<1> DEFINE g == req[c].guess
<1>1. req[c].seen \subseteq DOMAIN codes
  BY DEF AcceptCode, RequestsFit, Fits
<1>2. Candidates(c) \in SUBSET DOMAIN codes /\ Candidates(c) # {}
  BY <1>1 DEF AcceptCode, Candidates
<1>3. g \in Candidates(c)
  BY <1>2, NewestIs DEF AcceptCode
<1>4. g \in DOMAIN codes /\ g \in req[c].seen /\ codes[g].live
  BY <1>2, <1>3 DEF Candidates
<1>5. codes' = [codes EXCEPT ![g] = [codes[g] EXCEPT !.live = FALSE,
                                                     !.grants = codes[g].grants + 1]]
  BY DEF AcceptCode
<1>6. codes[g] \in Codes
  BY <1>4, RowsType
<1>7. /\ [codes[g] EXCEPT !.live = FALSE, !.grants = codes[g].grants + 1] \in Codes
      /\ codes[g].grants \in Nat
  <2>1. codes[g].grants \in Nat /\ codes[g].grants + 1 \in Nat
    BY <1>6 DEF Codes
  <2> QED
    BY <1>6, <2>1 DEF Codes
<1>8. codes' \in Seq(Codes) /\ Len(codes') = Len(codes)
  BY <1>4, <1>5, <1>7 DEF TypeOK
<1>9. /\ codes'[g] = [codes[g] EXCEPT !.live = FALSE, !.grants = codes[g].grants + 1]
      /\ \A i \in DOMAIN codes \ {g} : codes'[i] = codes[i]
  BY <1>4, <1>5
<1>10. /\ codes'[g].grants = codes[g].grants + 1
       /\ codes'[g].live = FALSE
       /\ codes'[g].purpose = codes[g].purpose
       /\ codes'[g].wrong = codes[g].wrong /\ codes'[g].created = codes[g].created
  BY <1>6, <1>9 DEF Codes
<1>11. CodesGrow
  <2> SUFFICES ASSUME NEW i \in DOMAIN codes
               PROVE  /\ codes'[i].purpose = codes[i].purpose
                      /\ codes'[i].live => codes[i].live
                      /\ codes'[i].grants >= codes[i].grants
    BY <1>8, RowsType DEF CodesGrow
  <2>1. codes[i].grants \in Nat
    BY RowsType DEF Codes
  <2>2. CASE i = g
    BY <1>7, <1>10, <2>2
  <2>3. CASE i # g
    BY <1>9, <2>1, <2>3
  <2> QED
    BY <2>2, <2>3
<1> QED
  BY <1>4, <1>8, <1>9, <1>10, <1>11

\* A wrong guess is counted against a live code, or against none.
LEMMA RefuseGrows ==
  ASSUME TypeOK, RequestsFit, CodesFit, NEW c \in Clients, RefuseCode(c)
  PROVE  /\ CodesGrow /\ Len(codes') = Len(codes)
         /\ \/ codes' = codes
            \/ \E g \in DOMAIN codes :
                 /\ codes[g].live
                 /\ codes'[g].grants = codes[g].grants
                 /\ codes'[g].live => codes[g].wrong + 1 < CodeAttempts
                 /\ codes'[g].wrong = codes[g].wrong + 1
                 /\ codes'[g].created = codes[g].created
                 /\ \A i \in DOMAIN codes \ {g} : codes'[i] = codes[i]
<1>0. CASE UNCHANGED codes
  <2>1. \A i \in DOMAIN codes : codes[i].grants \in Nat
    BY RowsType DEF Codes
  <2> QED
    BY <1>0, <2>1, RowsType DEF CodesGrow, TypeOK
<1>1. CASE codes' # codes
  <2> DEFINE g == Newest(Candidates(c))
  <2>1. req[c].seen \subseteq DOMAIN codes
    BY DEF RefuseCode, RequestsFit, Fits
  <2>2. Candidates(c) \in SUBSET DOMAIN codes /\ Candidates(c) # {}
    BY <1>1, <2>1 DEF RefuseCode, Candidates
  <2>3. g \in Candidates(c)
    BY <2>2, NewestIs
  <2>4. g \in DOMAIN codes /\ codes[g].live
    BY <2>2, <2>3 DEF Candidates
  <2> DEFINE worn == [codes[g] EXCEPT !.wrong = codes[g].wrong + 1,
                                      !.live = Guessable(codes[g].wrong + 1)]
  <2>5. codes' = [codes EXCEPT ![g] = worn]
    BY <2>2 DEF RefuseCode
  <2>6. codes[g] \in Codes
    BY <2>4, RowsType
  <2>7. /\ codes[g].wrong \in Nat /\ codes[g].grants \in Nat
        /\ Guessable(codes[g].wrong + 1) \in BOOLEAN
    BY <2>6 DEF Codes, Guessable
  <2>8. worn \in Codes
    <3>1. codes[g].wrong + 1 \in Nat
      BY <2>7
    <3> QED
      BY <2>6, <2>7, <3>1 DEF Codes
  <2>9. /\ worn.grants = codes[g].grants /\ worn.purpose = codes[g].purpose
        /\ worn.wrong = codes[g].wrong + 1 /\ worn.created = codes[g].created
        /\ worn.live = Guessable(codes[g].wrong + 1)
    BY <2>6 DEF Codes
  <2> HIDE DEF worn
  <2>10. codes' \in Seq(Codes) /\ Len(codes') = Len(codes)
    BY <2>4, <2>5, <2>8 DEF TypeOK
  <2>11. codes'[g] = worn /\ \A i \in DOMAIN codes \ {g} : codes'[i] = codes[i]
    BY <2>4, <2>5
  <2>12. codes'[g].live => codes[g].wrong + 1 < CodeAttempts
    BY <2>9, <2>11 DEF Guessable
  <2>13. CodesGrow
    <3> SUFFICES ASSUME NEW i \in DOMAIN codes
                 PROVE  /\ codes'[i].purpose = codes[i].purpose
                        /\ codes'[i].live => codes[i].live
                        /\ codes'[i].grants >= codes[i].grants
      BY <2>10, RowsType DEF CodesGrow
    <3>1. codes[i].grants \in Nat
      BY RowsType DEF Codes
    <3>2. CASE i = g
      BY <2>4, <2>7, <2>9, <2>11, <3>2
    <3>3. CASE i # g
      BY <2>11, <3>1, <3>3
    <3> QED
      BY <3>2, <3>3
  <2> QED
    BY <2>4, <2>9, <2>10, <2>11, <2>12, <2>13
<1> QED
  BY <1>0, <1>1

\* Every other statement leaves the codes alone.
LEMMA CodesStay ==
  ASSUME Next
  PROVE  codes' = codes \/ \E c \in Clients : InsertCode(c) \/ AcceptCode(c) \/ RefuseCode(c)
  BY DEF Next, Arrive, Proceed, Register, Login, RequestCode, Guess, Refresh, Logout,
     SetPassword, Activate, Supersede, Issue, Rotate, Reread, SignOut, FindTokens,
     RevokeAll, Block, Stop

LEMMA CodesOnlyGrow ==
  ASSUME TypeOK, RequestsFit, CodesFit, [Next]_vars
  PROVE  CodesGrow
<1>1. CASE codes' = codes
  <2>1. \A i \in DOMAIN codes : codes[i].grants \in Nat
    BY RowsType DEF Codes
  <2> QED
    BY <1>1, <2>1, RowsType DEF CodesGrow, TypeOK
<1> QED
  BY <1>1, CodesStay, InsertGrows, AcceptGrows, RefuseGrows DEF vars

\* Codes stay as they have to be.
LEMMA CodesKeep ==
  ASSUME TypeOK, RequestsFit, CodesFit, [Next]_vars
  PROVE  CodesFit'
<1> USE AttemptsAssumption, RowsType
<1>0. \A i \in DOMAIN codes :
        codes[i].wrong \in Nat /\ codes[i].grants \in Nat /\ codes[i].created \in Nat
  BY DEF Codes
<1>1. CodesGrow
  BY CodesOnlyGrow
<1>2. DOMAIN codes' = 1 .. Len(codes')
  BY <1>1 DEF CodesGrow
<1>3. CASE codes' = codes
  BY <1>3 DEF CodesFit, CodeFits
<1>4. ASSUME NEW c \in Clients, InsertCode(c)
      PROVE  CodesFit'
  <2> SUFFICES ASSUME NEW i \in DOMAIN codes'
               PROVE  CodeFits(codes'[i], Len(codes'))
    BY DEF CodesFit, CodeFits
  <2>0. Len(codes') = Len(codes) + 1
    BY <1>4, InsertGrows
  <2>1. CASE i = Len(codes')
    <3>1. /\ codes'[i].wrong = 0 /\ codes'[i].grants = 0
          /\ codes'[i].created \in 1 .. Len(codes')
      BY <1>4, <2>1, InsertGrows
    <3> QED
      BY <3>1 DEF CodeFits
  <2>2. CASE i \in DOMAIN codes
    <3>1. /\ codes'[i].live => codes[i].live
          /\ codes'[i].wrong = codes[i].wrong /\ codes'[i].grants = codes[i].grants
          /\ codes'[i].created \in {codes[i].created, codes[i].created + 1}
      BY <1>4, <2>2, InsertGrows
    <3>2. CodeFits(codes[i], Len(codes))
      BY <2>2 DEF CodesFit
    <3> QED
      BY <1>0, <2>0, <2>2, <3>1, <3>2 DEF CodeFits
  <2> QED
    BY <1>2, <2>0, <2>1, <2>2
<1>5. ASSUME NEW c \in Clients, AcceptCode(c)
      PROVE  CodesFit'
  <2> SUFFICES ASSUME NEW i \in DOMAIN codes'
               PROVE  CodeFits(codes'[i], Len(codes'))
    BY DEF CodesFit, CodeFits
  <2>1. i \in DOMAIN codes /\ Len(codes') = Len(codes)
    BY <1>2, <1>5, AcceptGrows
  <2>2. CASE i = req[c].guess
    BY <1>0, <1>5, <2>1, <2>2, AcceptGrows DEF CodesFit, CodeFits
  <2>3. CASE i # req[c].guess
    BY <1>5, <2>1, <2>3, AcceptGrows DEF CodesFit, CodeFits
  <2> QED
    BY <2>2, <2>3
<1>6. ASSUME NEW c \in Clients, RefuseCode(c), codes' # codes
      PROVE  CodesFit'
  <2> SUFFICES ASSUME NEW i \in DOMAIN codes'
               PROVE  CodeFits(codes'[i], Len(codes'))
    BY DEF CodesFit, CodeFits
  <2>1. i \in DOMAIN codes /\ Len(codes') = Len(codes)
    BY <1>2, <1>6, RefuseGrows
  <2>2. PICK g \in DOMAIN codes :
          /\ codes[g].live
          /\ codes'[g].grants = codes[g].grants
          /\ codes'[g].live => codes[g].wrong + 1 < CodeAttempts
          /\ codes'[g].wrong = codes[g].wrong + 1
          /\ codes'[g].created = codes[g].created
          /\ \A k \in DOMAIN codes \ {g} : codes'[k] = codes[k]
    BY <1>6, RefuseGrows
  <2>3. CASE i = g
    BY <1>0, <2>1, <2>2, <2>3 DEF CodesFit, CodeFits
  <2>4. CASE i # g
    BY <2>1, <2>2, <2>4 DEF CodesFit, CodeFits
  <2> QED
    BY <2>3, <2>4
<1> QED
  BY <1>3, <1>4, <1>5, <1>6, CodesStay DEF vars
-------------------------------------------------------------------------------
\* What may become of a row of a session, besides being offered.
SameRow(i) ==
    /\ session'[i].parent = session[i].parent
    /\ session'[i].refresh = session[i].refresh
    /\ session'[i].access => session[i].access
    /\ session[i].offered => session'[i].offered

RotatedRow(i) ==
    /\ session'[i].parent = session[i].parent
    /\ session'[i].refresh = "rotated"
    /\ ~session'[i].access
    /\ session'[i].offered = session[i].offered

RevokedRow(i) ==
    /\ session'[i].parent = session[i].parent
    /\ session[i].refresh = "live" /\ session'[i].refresh = "revoked"
    /\ ~session'[i].access
    /\ session'[i].offered = session[i].offered

\* Rows that stay as they are.
LEMMA UnchangedRows ==
  ASSUME TypeOK, session' = session
  PROVE  /\ session' \in Seq(Sessions) /\ Len(session') = Len(session)
         /\ \A i \in DOMAIN session : SameRow(i)
  BY DEF SameRow, TypeOK

LEMMA IssueGrows ==
  ASSUME TypeOK, NEW c \in Clients, Issue(c)
  PROVE  /\ session' \in Seq(Sessions) /\ Len(session') = Len(session) + 1
         /\ \A i \in DOMAIN session : session'[i] = session[i] /\ SameRow(i)
         /\ session'[Len(session')].refresh = "live"
         /\ session'[Len(session')].parent = req[c].token
<1> DEFINE new == [refresh |-> "live", access |-> TRUE,
                   parent |-> req[c].token, offered |-> FALSE]
<1>1. new \in Sessions
  BY RequestType DEF Sessions
<1>2. session' = Append(session, new)
  BY DEF Issue
<1>3. /\ session' \in Seq(Sessions) /\ Len(session') = Len(session) + 1
      /\ session'[Len(session')] = new
      /\ \A i \in DOMAIN session : session'[i] = session[i]
  BY <1>1, <1>2, RowsType DEF TypeOK
<1> QED
  BY <1>3 DEF SameRow

LEMMA RefreshGrows ==
  ASSUME TypeOK, NEW c \in Clients, NEW k \in DOMAIN session, Refresh(c, k)
  PROVE  /\ session' \in Seq(Sessions) /\ Len(session') = Len(session)
         /\ \A i \in DOMAIN session : SameRow(i)
         /\ session'[k].offered
<1>1. session' = [session EXCEPT ![k] = [session[k] EXCEPT !.offered = TRUE]]
  BY DEF Refresh
<1>2. session[k] \in Sessions
  BY RowsType
<1>3. [session[k] EXCEPT !.offered = TRUE] \in Sessions
  BY <1>2 DEF Sessions
<1>4. session' \in Seq(Sessions) /\ Len(session') = Len(session)
  BY <1>1, <1>3 DEF TypeOK
<1>5. /\ session'[k] = [session[k] EXCEPT !.offered = TRUE]
      /\ \A i \in DOMAIN session \ {k} : session'[i] = session[i]
  BY <1>1
<1>6. /\ session'[k].offered = TRUE
      /\ session'[k].parent = session[k].parent
      /\ session'[k].refresh = session[k].refresh
      /\ session'[k].access = session[k].access
  BY <1>2, <1>5 DEF Sessions
<1> QED
  BY <1>4, <1>5, <1>6 DEF SameRow

LEMMA RotateGrows ==
  ASSUME TypeOK, RequestsFit, NEW c \in Clients, Rotate(c)
  PROVE  /\ session' \in Seq(Sessions) /\ Len(session') = Len(session)
         /\ req[c].token \in DOMAIN session
         /\ RotatedRow(req[c].token)
         /\ \A i \in DOMAIN session \ {req[c].token} :
              session'[i] = session[i] /\ SameRow(i)
<1> DEFINE k == req[c].token
<1>1. k \in DOMAIN session
  BY DEF Rotate, RequestsFit, Fits
<1>2. session' = [session EXCEPT ![k] = [session[k] EXCEPT !.refresh = "rotated",
                                                           !.access = FALSE]]
  BY DEF Rotate
<1>3. session[k] \in Sessions
  BY <1>1, RowsType
<1>4. [session[k] EXCEPT !.refresh = "rotated", !.access = FALSE] \in Sessions
  BY <1>3 DEF Sessions
<1>5. session' \in Seq(Sessions) /\ Len(session') = Len(session)
  BY <1>1, <1>2, <1>4 DEF TypeOK
<1>6. /\ session'[k] = [session[k] EXCEPT !.refresh = "rotated", !.access = FALSE]
      /\ \A i \in DOMAIN session \ {k} : session'[i] = session[i]
  BY <1>1, <1>2
<1>7. /\ session'[k].refresh = "rotated" /\ session'[k].access = FALSE
      /\ session'[k].parent = session[k].parent
      /\ session'[k].offered = session[k].offered
  BY <1>3, <1>6 DEF Sessions
<1> QED
  BY <1>1, <1>5, <1>6, <1>7 DEF SameRow, RotatedRow

\* A revocation, of one session or of all, takes no token away from the request that
\* exchanges it.
LEMMA SignOutGrows ==
  ASSUME TypeOK, NEW c \in Clients, SignOut(c)
  PROVE  /\ session' \in Seq(Sessions) /\ Len(session') = Len(session)
         /\ \A i \in DOMAIN session :
              SameRow(i) \/ (RevokedRow(i) /\ ~Locked(c, i))
<1> DEFINE k == req[c].token
           gone == [session[k] EXCEPT !.access = FALSE]
           out == [session[k] EXCEPT !.refresh = IF @ = "live" THEN "revoked" ELSE @,
                                     !.access = FALSE]
<1>1. CASE k \notin DOMAIN session
  <2>1. session' = session
    BY <1>1 DEF SignOut, TypeOK
  <2> QED
    BY <2>1, UnchangedRows
<1>2. CASE k \in DOMAIN session
  <2>1. session[k] \in Sessions
    BY <1>2, RowsType
  <2>2. /\ gone \in Sessions
        /\ gone.parent = session[k].parent /\ gone.refresh = session[k].refresh
        /\ gone.access = FALSE /\ gone.offered = session[k].offered
    BY <2>1 DEF Sessions
  <2>3. /\ out \in Sessions
        /\ out.parent = session[k].parent /\ out.access = FALSE
        /\ out.offered = session[k].offered
        /\ out.refresh = IF session[k].refresh = "live" THEN "revoked"
                         ELSE session[k].refresh
    BY <2>1 DEF Sessions
  <2>4. \/ session' = [session EXCEPT ![k] = gone]
        \/ ~Locked(c, k) /\ session' = [session EXCEPT ![k] = out]
    BY DEF SignOut
  <2> HIDE DEF gone, out
  <2>5. session' \in Seq(Sessions) /\ Len(session') = Len(session)
    BY <1>2, <2>2, <2>3, <2>4 DEF TypeOK
  <2>6. /\ session'[k] = gone \/ (~Locked(c, k) /\ session'[k] = out)
        /\ \A i \in DOMAIN session \ {k} : session'[i] = session[i]
    BY <1>2, <2>4
  <2>7. SameRow(k) \/ (RevokedRow(k) /\ ~Locked(c, k))
    BY <2>2, <2>3, <2>6 DEF SameRow, RevokedRow
  <2> QED
    BY <2>5, <2>6, <2>7 DEF SameRow
<1> QED
  BY <1>1, <1>2

LEMMA RevokeAllGrows ==
  ASSUME TypeOK, NEW c \in Clients, RevokeAll(c)
  PROVE  /\ session' \in Seq(Sessions) /\ Len(session') = Len(session)
         /\ \A i \in DOMAIN session :
              SameRow(i) \/ (RevokedRow(i) /\ ~Locked(c, i))
<1>1. session' = [i \in DOMAIN session |-> Revoked(i, req[c].seen)]
  BY DEF RevokeAll
<1>2. ASSUME NEW i \in DOMAIN session
      PROVE  /\ session'[i] \in Sessions
             /\ SameRow(i) \/ (RevokedRow(i) /\ ~Locked(c, i))
  <2>1. session[i] \in Sessions
    BY RowsType
  <2>2. /\ session'[i] = Revoked(i, req[c].seen)
        /\ Revoked(i, req[c].seen) \in Sessions
        /\ Revoked(i, req[c].seen).parent = session[i].parent
        /\ Revoked(i, req[c].seen).access = FALSE
        /\ Revoked(i, req[c].seen).offered = session[i].offered
        /\ Revoked(i, req[c].seen).refresh =
             IF i \in req[c].seen /\ session[i].refresh = "live" THEN "revoked"
             ELSE session[i].refresh
    BY <1>1, <2>1 DEF Revoked, Sessions
  <2>3. i \in req[c].seen => ~Locked(c, i)
    BY DEF RevokeAll
  <2> QED
    BY <2>2, <2>3 DEF SameRow, RevokedRow
<1>3. session' \in [1 .. Len(session) -> Sessions]
  BY <1>1, <1>2, RowsType
<1> QED
  BY <1>2, <1>3, RowsType, FunctionIsSeq

\* Every other statement leaves the sessions alone.
LEMMA SessionsStay ==
  ASSUME Next
  PROVE  \/ session' = session
         \/ \E c \in Clients :
              \/ Issue(c) \/ Rotate(c) \/ SignOut(c) \/ RevokeAll(c)
              \/ \E i \in DOMAIN session : Refresh(c, i)
  BY DEF Next, Arrive, Proceed, Register, Login, RequestCode, Guess, Logout,
     SetPassword, Activate, Supersede, InsertCode, AcceptCode, RefuseCode, Reread,
     FindTokens, Block, Stop

LEMMA SessionsOnlyGrow ==
  ASSUME TypeOK, RequestsFit, [Next]_vars
  PROVE  SessionsGrow
<1>1. session' \in Seq(Sessions) /\ Len(session) <= Len(session')
  BY RowsType, UnchangedRows, SessionsStay, IssueGrows, RefreshGrows, RotateGrows,
     SignOutGrows, RevokeAllGrows DEF vars
<1>2. ASSUME NEW i \in DOMAIN session
      PROVE  SameRow(i) \/ RotatedRow(i) \/ RevokedRow(i)
  BY UnchangedRows, SessionsStay, IssueGrows, RefreshGrows, RotateGrows,
     SignOutGrows, RevokeAllGrows DEF vars
<1> QED
  BY <1>1, <1>2 DEF SessionsGrow, SameRow, RotatedRow, RevokedRow
-------------------------------------------------------------------------------
(* What requests hold.                                                      *)

\* What a request holds it keeps while others go on.
LEMMA FitsStays ==
  ASSUME TypeOK, CodesGrow, SessionsGrow, NEW r, r.known \in Nat, Fits(r)
  PROVE  Fits(r)'
<1>1. /\ DOMAIN codes' = 1 .. Len(codes') /\ DOMAIN session' = 1 .. Len(session')
      /\ DOMAIN codes \subseteq DOMAIN codes' /\ DOMAIN session \subseteq DOMAIN session'
      /\ Len(codes') \in Nat /\ Len(codes) \in Nat
  BY RowsType DEF CodesGrow, SessionsGrow
<1>2. r.pc = "insert" =>
        /\ r.known <= Len(codes')
        /\ \A i \in 1 .. r.known :
             codes'[i].live /\ codes'[i].purpose = r.purpose => i \in r.seen
  <2> SUFFICES ASSUME r.pc = "insert"
               PROVE  /\ r.known <= Len(codes')
                      /\ \A i \in 1 .. r.known :
                           codes'[i].live /\ codes'[i].purpose = r.purpose => i \in r.seen
    OBVIOUS
  <2>1. r.known <= Len(codes)
    BY DEF Fits
  <2>2. 1 .. r.known \subseteq DOMAIN codes
    BY <1>1, <2>1, RowsType
  <2> QED
    BY <1>1, <2>1, <2>2 DEF Fits, CodesGrow
<1>3. r.pc = "consume" =>
        /\ r.op \in {"verify", "code", "reset"}
        /\ r.seen \subseteq DOMAIN codes'
        /\ \A i \in r.seen : codes'[i].purpose = PurposeOf(r.op)
  BY <1>1 DEF Fits, CodesGrow
<1>4. r.op = "refresh" => r.token \in DOMAIN session' /\ session'[r.token].offered
  BY <1>1 DEF Fits, SessionsGrow
<1> QED
  BY <1>2, <1>3, <1>4 DEF Fits, PurposeOf

\* How a request goes on unless it offers a refresh token: when it is about to store a
\* code it has just looked at those that are there; it has a token to exchange
\* only from the request it was, and an account known to be active only from what it
\* or that one read.
Leads(c, r) ==
    /\ r.pc # "rotate"
    /\ r.pc = "insert" => r.known = Len(codes)
    /\ r.pc = "reread" => Rotate(c)
    /\ r.pc \in {"activate", "issue"} /\ r.token # 0 =>
         req[c].token = r.token /\ req[c].pc \in {"reread", "activate"}
    /\ r.status = "active" => req[c].status = "active" \/ user.status = "active"
    /\ MustVerify /\ r.pc \in {"activate", "issue"} =>
         \/ user.status = "active" \/ req[c].status = "active" \/ req[c].pc = "activate"
         \/ AcceptCode(c) /\ req[c].op = "verify"

Moves(c, r) == Puts(c, r) /\ Fits(r) /\ Leads(c, r)

\* A code that was typed belongs to the purpose of the request.
LEMMA GuessIs ==
  ASSUME TypeOK, NEW c \in Clients, NEW op \in {"verify", "code", "reset"},
         NEW g \in Typed(PurposeOf(op)), NEW p \in Passwords \cup {None},
         Guess(c, op, g, p)
  PROVE  \E r : Moves(c, r)
<1> DEFINE r == [Idle EXCEPT !.pc = "consume", !.op = op, !.guess = g,
                             !.password = p, !.status = user.status,
                             !.seen = LiveCodes(PurposeOf(op))]
<1>1. g \in Nat /\ user.status \in Statuses /\ LiveCodes(PurposeOf(op)) \in SUBSET Nat
  BY RowsType DEF Typed, TypeOK, Users, LiveCodes
<1>2. r \in Requests
  BY <1>1 DEF Requests, Idle
<1>3. /\ r.pc = "consume" /\ r.op = op /\ r.status = user.status
      /\ r.seen = LiveCodes(PurposeOf(op))
      /\ req' = [req EXCEPT ![c] = r]
  BY DEF Guess, Start, Idle
<1>4. Fits(r)
  BY <1>3 DEF Fits, LiveCodes
<1> QED
  BY <1>2, <1>3, <1>4 DEF Moves, Puts, Leads

\* A session is granted on what the request knows of the account.
LEMMA GrantedMoves ==
  ASSUME TypeOK, NEW c \in Clients, NEW token \in Nat, NEW status \in Statuses,
         req' = [req EXCEPT ![c] = Granted(token, status)],
         token = 0 \/ (token = req[c].token /\ req[c].pc \in {"reread", "activate"}),
         status = "active" => \/ user.status = "active" \/ req[c].status = "active"
                              \/ req[c].pc = "activate"
  PROVE  \E r : Moves(c, r)
<1> DEFINE r == Granted(token, status)
<1>1. r \in Requests \cup {Idle} /\ Fits(r) /\ r.status = "none"
  BY GrantedIs
<1>2. r.pc # "rotate" /\ r.pc # "reread" /\ r.pc # "insert"
  BY GrantedIs, IdleIs
<1>3. r.pc \in {"activate", "issue"} => r.token = token /\ (MustVerify => status = "active")
  BY GrantedIs, IdleIs
<1> HIDE DEF r
<1>4. Leads(c, r)
  BY <1>1, <1>2, <1>3 DEF Leads
<1>5. Puts(c, r)
  BY <1>1 DEF Puts, r
<1> QED
  BY <1>1, <1>2, <1>4, <1>5 DEF Moves

\* What a handler does next is right for what it holds.
LEMMA RequestsMove ==
  ASSUME TypeOK, RequestsFit, Next
  PROVE  \/ req' = req
         \/ \E c \in Clients : \E r : Moves(c, r)
         \/ \E c \in Clients : \E i \in DOMAIN session : Refresh(c, i)
<1>0. /\ user.status \in Statuses /\ user.password \in Passwords \cup {None}
  BY DEF TypeOK, Users
<1>1. ASSUME NEW c \in Clients, NEW p \in Passwords, Register(c, p)
      PROVE  \E r : Moves(c, r)
  <2>1. CASE Start(c, SignedUp)
    BY <2>1, SignedUpIs DEF Start, Puts, Moves, Leads
  <2>2. CASE Start(c, [Idle EXCEPT !.pc = "password", !.op = "register", !.password = p])
    <3> DEFINE r == [Idle EXCEPT !.pc = "password", !.op = "register", !.password = p]
    <3>1. r \in Requests /\ r.pc = "password" /\ r.op = "register"
          /\ r.status = "none"
      BY DEF Idle, Requests, Statuses
    <3> QED
      BY <2>2, <3>1 DEF Start, Puts, Fits, Moves, Leads
  <2> QED
    BY <1>1, <2>1, <2>2 DEF Register
<1>2. ASSUME NEW c \in Clients, SetPassword(c)
      PROVE  \E r : Moves(c, r)
  <2>1. CASE req[c].op = "reset"
    <3> DEFINE r == [req[c] EXCEPT !.pc = "revoke", !.password = None]
    <3>1. req[c] \in Requests
      BY <1>2, RequestType DEF SetPassword
    <3>2. r \in Requests /\ r.pc = "revoke" /\ r.op = "reset"
          /\ r.status = req[c].status
      BY <2>1, <3>1 DEF Requests
    <3> QED
      BY <1>2, <2>1, <3>2 DEF SetPassword, Puts, Fits, Moves, Leads
  <2>2. CASE req[c].op # "reset"
    BY <1>2, <2>2, SignedUpIs DEF SetPassword, Puts, Moves, Leads
  <2> QED
    BY <2>1, <2>2
<1>3. ASSUME NEW c \in Clients, Activate(c)
      PROVE  \E r : Moves(c, r)
  BY <1>3, RequestType, SendingIs, GrantedIs DEF Activate, Puts, Moves, Leads, Purposes, Statuses
<1>4. ASSUME NEW c \in Clients, NEW p \in Purposes, RequestCode(c, p)
      PROVE  \E r : Moves(c, r)
  BY <1>4, SendingIs DEF RequestCode, Start, Puts, Moves, Leads, Purposes
<1>5. ASSUME NEW c \in Clients, Supersede(c)
      PROVE  \E r : Moves(c, r)
  <2> DEFINE r == [req[c] EXCEPT !.pc = "insert", !.seen = Superseded(req[c].purpose),
                                 !.known = Len(codes)]
  <2>1. req[c] \in Requests /\ req[c].purpose \in Purposes
    BY <1>5, RequestType DEF Supersede, RequestsFit, Fits
  <2>2. Superseded(req[c].purpose) \in SUBSET Nat /\ Len(codes) \in Nat
    BY RowsType DEF Superseded, LiveCodes
  <2>3. r \in Requests
    BY <2>1, <2>2 DEF Requests
  <2>4. /\ r.pc = "insert" /\ r.purpose = req[c].purpose /\ r.op = req[c].op
        /\ r.seen = Superseded(req[c].purpose) /\ r.known = Len(codes)
        /\ r.token = req[c].token /\ r.status = req[c].status
    BY <2>1 DEF Requests
  <2>5. Fits(r)
    BY <2>1, <2>4, RowsType DEF Fits, RequestsFit, Superseded, LiveCodes
  <2>6. Puts(c, r)
    BY <1>5, <2>3 DEF Supersede, Puts
  <2> QED
    BY <1>5, <2>3, <2>4, <2>5, <2>6 DEF Moves, Leads
<1>6. ASSUME NEW c \in Clients, NEW op \in {"verify", "code"},
             NEW g \in Typed(PurposeOf(op)), Guess(c, op, g, None)
      PROVE  \E r : Moves(c, r)
  BY <1>6, GuessIs
<1>7. ASSUME NEW c \in Clients, NEW p \in Passwords, NEW g \in Typed("password_reset"),
             Guess(c, "reset", g, p)
      PROVE  \E r : Moves(c, r)
  <2>1. PurposeOf("reset") = "password_reset"
    BY DEF PurposeOf
  <2> QED
    BY <1>7, <2>1, GuessIs
<1>8. ASSUME NEW c \in Clients, AcceptCode(c)
      PROVE  \E r : Moves(c, r)
  <2>1. req[c] \in Requests /\ req[c].op \in {"verify", "code", "reset"}
    BY <1>8, RequestType DEF AcceptCode, RequestsFit, Fits
  <2>2. CASE req[c].op = "verify"
    <3> DEFINE r == [Idle EXCEPT !.pc = "activate", !.op = "grant"]
    <3>1. r \in Requests /\ r.pc = "activate" /\ r.op = "grant"
          /\ r.status = "none" /\ r.token = 0
      BY DEF Idle, Requests, Statuses
    <3> QED
      BY <1>8, <2>2, <3>1 DEF AcceptCode, Puts, Fits, Moves, Leads
  <2>3. CASE req[c].op = "code"
    BY <1>8, <2>3, GrantedMoves, RequestType DEF AcceptCode
  <2>4. CASE req[c].op = "reset"
    <3> DEFINE r == [req[c] EXCEPT !.pc = "password", !.guess = 0, !.seen = {}]
    <3>1. r \in Requests /\ r.pc = "password" /\ r.op = "reset"
          /\ r.status = req[c].status
      BY <2>1, <2>4 DEF Requests
    <3> QED
      BY <1>8, <2>4, <3>1 DEF AcceptCode, Puts, Fits, Moves, Leads
  <2> QED
    BY <2>1, <2>2, <2>3, <2>4
<1>9. ASSUME NEW c \in Clients, Reply(c)
      PROVE  \E r : Moves(c, r)
  BY <1>9, IdleIs DEF Reply, Puts, Moves, Leads
<1>10. ASSUME NEW c \in Clients, NEW p \in Passwords, Login(c, p)
       PROVE  \E r : Moves(c, r)
  <2>1. CASE MustVerify /\ ~user.verified
    <3>1. req' = [req EXCEPT ![c] = Sending("verify_email")]
      BY <1>10, <2>1 DEF Login, Start
    <3> QED
      BY <3>1, SendingIs DEF Puts, Moves, Leads, Purposes
  <2>2. CASE ~(MustVerify /\ ~user.verified)
    BY <1>0, <1>10, <2>2, GrantedMoves DEF Login, Start
  <2> QED
    BY <2>1, <2>2
<1>11. ASSUME NEW c \in Clients, Rotate(c)
       PROVE  \E r : Moves(c, r)
  <2> DEFINE r == [req[c] EXCEPT !.pc = "reread"]
  <2>1. req[c] \in Requests /\ req[c].op = "refresh"
    BY <1>11, RequestType DEF Rotate, RequestsFit, Fits
  <2>2. r \in Requests /\ r.pc = "reread" /\ r.op = "refresh" /\ r.token = req[c].token
        /\ r.status = req[c].status
    BY <2>1 DEF Requests
  <2>3. Fits(r)
    BY <2>1, <2>2 DEF Fits, RequestsFit
  <2> QED
    BY <1>11, <2>2, <2>3 DEF Rotate, Go, Puts, Moves, Leads
<1>12. ASSUME NEW c \in Clients, Reread(c)
       PROVE  \E r : Moves(c, r)
  <2>1. req' = [req EXCEPT ![c] = Granted(req[c].token, user.status)]
    BY <1>12 DEF Reread
  <2> QED
    BY <1>0, <1>12, <2>1, GrantedMoves, RequestType DEF Reread
<1>13. ASSUME NEW c \in Clients, NEW i \in DOMAIN session, NEW op \in {"logout", "logoutAll"},
              Logout(c, i, op)
       PROVE  \E r : Moves(c, r)
  <2> DEFINE r == [Idle EXCEPT !.op = op, !.token = i,
                               !.pc = IF op = "logout" THEN "logout" ELSE "revoke"]
  <2>1. i \in Nat
    BY RowsType
  <2>2. r \in Requests /\ r.pc \in {"logout", "revoke"} /\ r.op = op
        /\ r.status = "none"
    BY <2>1 DEF Idle, Requests, Statuses
  <2> QED
    BY <1>13, <2>2 DEF Logout, Start, Puts, Fits, Moves, Leads
<1>14. ASSUME NEW c \in Clients, FindTokens(c)
       PROVE  \E r : Moves(c, r)
  <2> DEFINE r == [req[c] EXCEPT !.pc = "revoking", !.seen = LiveTokens]
  <2>1. req[c] \in Requests /\ LiveTokens \in SUBSET Nat
    BY <1>14, RequestType, RowsType DEF FindTokens, LiveTokens
  <2>2. r \in Requests /\ r.pc = "revoking" /\ r.op = req[c].op /\ r.token = req[c].token
        /\ r.status = req[c].status
    BY <2>1 DEF Requests
  <2>3. Fits(r)
    BY <2>2 DEF Fits, RequestsFit
  <2> QED
    BY <1>14, <2>2, <2>3 DEF FindTokens, Puts, Moves, Leads
<1>15. ASSUME NEW c \in Clients, RevokeAll(c)
       PROVE  \E r : Moves(c, r)
  <2> DEFINE r == IF req[c].op = "reset" THEN Granted(0, req[c].status) ELSE Idle
  <2>1. r \in Requests \cup {Idle} /\ Fits(r) /\ Leads(c, r) /\ r.pc # "reread"
    BY RequestType, GrantedIs, IdleIs DEF Leads
  <2>2. req' = [req EXCEPT ![c] = r]
    BY <1>15 DEF RevokeAll
  <2> HIDE DEF r
  <2> QED
    BY <2>1, <2>2 DEF Moves, Puts
<1>16. ASSUME NEW c \in Clients,
              InsertCode(c) \/ RefuseCode(c) \/ Issue(c) \/ SignOut(c) \/ Stop(c)
       PROVE  \E r : Moves(c, r)
  BY <1>9, <1>16 DEF InsertCode, RefuseCode, Issue, SignOut, Stop
<1>17. CASE Block
  BY <1>17 DEF Block
<1> QED
  BY <1>1, <1>2, <1>3, <1>4, <1>5, <1>6, <1>7, <1>8, <1>10, <1>11, <1>12, <1>13, <1>14,
     <1>15, <1>16, <1>17 DEF Next, Arrive, Proceed

\* A refresh token that is being exchanged or replayed was offered.
LEMMA RefreshIs ==
  ASSUME TypeOK, NEW c \in Clients, NEW k \in DOMAIN session, Refresh(c, k)
  PROVE  \E r \in Requests : /\ Puts(c, r)
                             /\ r.pc = IF Replayed(k) THEN "revoke" ELSE "rotate"
                             /\ r.op = "refresh" /\ r.token = k
                             /\ r.status = "none"
<1> DEFINE r == [Idle EXCEPT !.op = "refresh", !.token = k,
                             !.pc = IF Replayed(k) THEN "revoke" ELSE "rotate"]
<1>1. k \in Nat
  BY RowsType
<1>2. /\ r \in Requests
      /\ r.pc = IF Replayed(k) THEN "revoke" ELSE "rotate"
      /\ r.op = "refresh" /\ r.token = k /\ r.status = "none"
  BY <1>1 DEF Idle, Requests, Statuses
<1> QED
  BY <1>2 DEF Refresh, Start, Puts

\* The requests, their rows and the account keep their types.
LEMMA RequestsKeep ==
  ASSUME TypeOK, RequestsFit, CodesFit, [Next]_vars
  PROVE  RequestsFit' /\ req' \in [Clients -> Requests \cup {Idle}]
<1>1. CodesGrow /\ SessionsGrow
  BY CodesOnlyGrow, SessionsOnlyGrow
<1>2. \A r : r.known \in Nat /\ Fits(r) => Fits(r)'
  BY <1>1, FitsStays
<1>3. CASE req' = req
  BY <1>2, <1>3, RequestType DEF RequestsFit, Fits, TypeOK
<1>4. ASSUME NEW c \in Clients, NEW r, Moves(c, r)
      PROVE  RequestsFit' /\ req' \in [Clients -> Requests \cup {Idle}]
  <2>0. Puts(c, r) /\ Fits(r)
    BY <1>4 DEF Moves
  <2>1. r.known \in Nat
    BY <2>0 DEF Puts, Requests, Idle
  <2>2. Fits(r)'
    BY <1>2, <2>0, <2>1
  <2>3. \A d \in Clients : req'[d] = r \/ (req'[d] = req[d] /\ Fits(req[d]) /\ req[d].known \in Nat)
    BY <2>0, RequestType, PutsIs DEF RequestsFit
  <2>4. RequestsFit'
    BY <1>2, <2>2, <2>3 DEF RequestsFit, Fits
  <2> QED
    BY <2>0, <2>4, PutsIs
<1>5. ASSUME NEW c \in Clients, NEW k \in DOMAIN session, Refresh(c, k)
      PROVE  RequestsFit' /\ req' \in [Clients -> Requests \cup {Idle}]
  <2>1. PICK r \in Requests : /\ Puts(c, r)
                              /\ r.pc = IF Replayed(k) THEN "revoke" ELSE "rotate"
                              /\ r.op = "refresh" /\ r.token = k
    BY <1>5, RefreshIs
  <2>2. session'[k].offered /\ k \in DOMAIN session'
    BY <1>5, RefreshGrows, RowsType
  <2>3. Fits(r)'
    BY <2>1, <2>2 DEF Fits
  <2>4. \A d \in Clients : req'[d] = r \/ (req'[d] = req[d] /\ Fits(req[d]) /\ req[d].known \in Nat)
    BY <2>1, RequestType, PutsIs DEF RequestsFit
  <2>5. RequestsFit'
    BY <1>2, <2>3, <2>4 DEF RequestsFit, Fits
  <2> QED
    BY <2>1, <2>5, PutsIs
<1> QED
  BY <1>3, <1>4, <1>5, RequestsMove DEF vars, TypeOK

\* The account keeps its shape, and a blocked one stays blocked.
LEMMA UserKeeps ==
  ASSUME TypeOK, [Next]_vars
  PROVE  /\ user' \in Users /\ settings' = settings
         /\ user.status = "blocked" => user'.status = "blocked"
<1>1. user \in Users
  BY DEF TypeOK
<1>2. ASSUME NEW c \in Clients, NEW p \in Passwords, Register(c, p)
      PROVE  user' \in Users /\ (user.status = "blocked" => user'.status = "blocked")
  <2>1. CASE user' = [status |-> IF MustVerify THEN "pending" ELSE "active",
                      verified |-> FALSE, password |-> p] /\ user.status = "none"
    BY <2>1 DEF Users, Statuses
  <2>2. CASE user' = user
    BY <1>1, <2>2
  <2> QED
    BY <1>2, <2>1, <2>2 DEF Register
<1>3. ASSUME NEW c \in Clients, SetPassword(c)
      PROVE  user' \in Users /\ (user.status = "blocked" => user'.status = "blocked")
  BY <1>1, <1>3, RequestType DEF SetPassword, Users
<1>4. ASSUME NEW c \in Clients, Activate(c)
      PROVE  user' \in Users /\ (user.status = "blocked" => user'.status = "blocked")
  BY <1>1, <1>4 DEF Activate, Activated, Users, Statuses
<1>5. CASE Block
  BY <1>1, <1>5 DEF Block, Users, Statuses
<1>6. ASSUME user' = user
      PROVE  user' \in Users /\ (user.status = "blocked" => user'.status = "blocked")
  BY <1>1, <1>6
<1>7. Next => \/ user' = user \/ Block
              \/ \E c \in Clients : \/ SetPassword(c) \/ Activate(c)
                                    \/ \E p \in Passwords : Register(c, p)
  BY DEF Next, Arrive, Proceed, RequestCode, Guess, Refresh, Logout, Login, Supersede,
     InsertCode, AcceptCode, RefuseCode, Issue, Rotate, Reread, SignOut, FindTokens,
     RevokeAll, Stop
<1>8. settings' = settings
  BY DEF Next, Arrive, Proceed, Register, RequestCode, Guess, Refresh, Logout, Login,
     SetPassword, Activate, Supersede, InsertCode, AcceptCode, RefuseCode, Issue, Rotate,
     Reread, SignOut, FindTokens, RevokeAll, Stop, Block, vars
<1> QED
  BY <1>2, <1>3, <1>4, <1>5, <1>6, <1>7, <1>8 DEF vars

LEMMA TypeKeeps ==
  ASSUME TypeOK, RequestsFit, CodesFit, [Next]_vars
  PROVE  TypeOK' /\ RequestsFit' /\ CodesFit'
  BY RequestsKeep, UserKeeps, CodesKeep, CodesOnlyGrow, SessionsOnlyGrow
  DEF TypeOK, CodesGrow, SessionsGrow
-------------------------------------------------------------------------------
(* Sessions.                                                                *)

\* A step that spends no refresh token and issues none.
Quiet(c, r) ==
    /\ Puts(c, r)
    /\ r.pc \notin {"rotate", "reread"}
    /\ r.pc \in {"activate", "issue"} /\ r.token # 0 =>
         req[c].token = r.token /\ req[c].pc \in {"reread", "activate"}
    /\ session' \in Seq(Sessions) /\ Len(session') = Len(session)
    /\ \A i \in DOMAIN session : SameRow(i) \/ (RevokedRow(i) /\ ~Locked(c, i))

LEMMA QuietKeeps ==
  ASSUME TypeOK, RequestsFit, Exchanges, NEW c \in Clients, NEW r, Quiet(c, r)
  PROVE  Exchanges'
<1> USE DEF Exchanges
<1>1. /\ DOMAIN session' = DOMAIN session
      /\ \A i \in DOMAIN session :
           /\ session'[i].parent = session[i].parent
           /\ session'[i].refresh = "rotated" <=> session[i].refresh = "rotated"
           /\ session[i].offered => session'[i].offered
           /\ session'[i].access => session[i].access /\ SameRow(i)
  BY RowsType DEF Quiet, SameRow, RevokedRow
<1>2. ASSUME NEW d \in Clients, Rotating(d)'
      PROVE  d # c /\ req'[d] = req[d] /\ Rotating(d)
  BY <1>2, PutsIs DEF Quiet, Rotating
<1>3. ASSUME NEW d \in Clients, Exchanging(d)'
      PROVE  Exchanging(d) /\ req'[d].token = req[d].token
  <2>1. CASE d = c
    BY <1>3, <2>1, PutsIs DEF Quiet, Exchanging
  <2>2. CASE d # c
    BY <1>3, <2>2, PutsIs DEF Quiet, Exchanging
  <2> QED
    BY <2>1, <2>2
<1>4. RotatingAlone'
  <2>1. ASSUME NEW d \in Clients, Rotating(d)'
        PROVE  session'[req'[d].token].refresh = "live"
    <3>1. /\ d # c /\ req'[d] = req[d] /\ req[d].op = "refresh" /\ req[d].pc = "rotate"
          /\ req[d].token \in DOMAIN session
          /\ session[req[d].token].refresh = "live"
      BY <1>2, <2>1 DEF RequestsFit, Fits, Rotating, RotatingAlone
    <3>2. Locked(c, req[d].token)
      BY <3>1 DEF Locked
    <3> QED
      BY <3>1, <3>2 DEF Quiet, SameRow
  <2> QED
    BY <1>2, <2>1 DEF RotatingAlone, Rotating
<1>5. ExchangingAlone'
  <2>1. ASSUME NEW d \in Clients, Exchanging(d)'
        PROVE  /\ req'[d].token \in DOMAIN session'
               /\ session'[req'[d].token].refresh = "rotated"
               /\ \A i \in DOMAIN session' : session'[i].parent # req'[d].token
    BY <1>1, <1>3, <2>1 DEF ExchangingAlone
  <2>2. ASSUME NEW d \in Clients, NEW e \in Clients, Exchanging(d)', Exchanging(e)',
               req'[d].token = req'[e].token
        PROVE  d = e
    BY <1>3, <2>2 DEF ExchangingAlone
  <2> QED
    BY <2>1, <2>2 DEF ExchangingAlone, Exchanging
<1>6. ParentsAreSpent'
  BY <1>1 DEF ParentsAreSpent
<1>7. SpentWereOffered'
  BY <1>1 DEF SpentWereOffered
<1>8. NoOrphanedAccess'
  BY <1>1 DEF NoOrphanedAccess, SameRow
<1>9. ExchangedOnce'
  BY <1>1 DEF ExchangedOnce
<1> QED
  BY <1>4, <1>5, <1>6, <1>7, <1>8, <1>9

\* A new session is the only one its refresh token was exchanged for.
LEMMA IssueKeeps ==
  ASSUME TypeOK, RequestsFit, Exchanges, NEW c \in Clients, Issue(c)
  PROVE  Exchanges'
<1> USE DEF Exchanges
<1> DEFINE n == Len(session) + 1
           t == req[c].token
<1>1. /\ DOMAIN session' = DOMAIN session \cup {n} /\ n \notin DOMAIN session
      /\ \A i \in DOMAIN session : session'[i] = session[i]
      /\ session'[n].refresh = "live" /\ session'[n].parent = t
  <2>1. /\ session' \in Seq(Sessions) /\ Len(session') = n
        /\ \A i \in DOMAIN session : session'[i] = session[i]
        /\ session'[n].refresh = "live" /\ session'[n].parent = t
    BY IssueGrows
  <2>2. DOMAIN session' = 1 .. n
    BY <2>1
  <2>3. DOMAIN session = 1 .. Len(session) /\ Len(session) \in Nat
    BY RowsType
  <2> QED
    BY <2>1, <2>2, <2>3
<1>2. /\ req'[c] = Idle
      /\ \A d \in Clients \ {c} : req'[d] = req[d]
  BY PutsIs DEF Issue, Reply, Puts
<1>3. \A d \in Clients : Rotating(d)' => d # c /\ Rotating(d) /\ req'[d] = req[d]
  BY <1>2, IdleIs DEF Rotating
<1>4. \A d \in Clients : Exchanging(d)' => d # c /\ Exchanging(d) /\ req'[d] = req[d]
  BY <1>2, IdleIs DEF Exchanging
<1>5. t # 0 => Exchanging(c)
  BY DEF Issue, Exchanging
<1>6. RotatingAlone'
  <2>1. \A d \in Clients : Rotating(d) => req[d].token \in DOMAIN session
    BY DEF RequestsFit, Fits, Rotating
  <2> QED
    BY <1>1, <1>3, <2>1 DEF RotatingAlone, Rotating
<1>7. ExchangingAlone'
  <2>1. ASSUME NEW d \in Clients, Exchanging(d)'
        PROVE  /\ req'[d].token \in DOMAIN session'
               /\ session'[req'[d].token].refresh = "rotated"
               /\ \A i \in DOMAIN session' : session'[i].parent # req'[d].token
    <3>1. d # c /\ Exchanging(d) /\ req'[d].token = req[d].token
      BY <1>4, <2>1
    <3>2. t # req[d].token
      BY <1>5, <3>1 DEF ExchangingAlone, Exchanging
    <3> QED
      BY <1>1, <3>1, <3>2 DEF ExchangingAlone
  <2> QED
    BY <1>4, <2>1 DEF ExchangingAlone, Exchanging
<1>8. ParentsAreSpent'
  BY <1>1, <1>5 DEF ParentsAreSpent, ExchangingAlone
<1>9. SpentWereOffered'
  BY <1>1 DEF SpentWereOffered
<1>10. NoOrphanedAccess'
  BY <1>1 DEF NoOrphanedAccess
<1>11. ExchangedOnce'
  <2>1. ASSUME NEW i \in DOMAIN session, t # 0
        PROVE  session[i].parent # t
    BY <1>5, <2>1 DEF ExchangingAlone
  <2> QED
    BY <1>1, <2>1 DEF ExchangedOnce
<1> QED
  BY <1>6, <1>7, <1>8, <1>9, <1>10, <1>11

\* A token that is spent has no successor yet, and one request to get it.
LEMMA RotateKeeps ==
  ASSUME TypeOK, RequestsFit, Exchanges, NEW c \in Clients, Rotate(c)
  PROVE  Exchanges'
<1> USE DEF Exchanges
<1> DEFINE k == req[c].token
<1>1. /\ DOMAIN session' = DOMAIN session /\ k \in DOMAIN session /\ k # 0
      /\ RotatedRow(k)
      /\ \A i \in DOMAIN session \ {k} : session'[i] = session[i]
  BY RotateGrows, RowsType
<1>2. /\ req'[c] = [req[c] EXCEPT !.pc = "reread"]
      /\ \A d \in Clients \ {c} : req'[d] = req[d]
  BY DEF Rotate, Go, TypeOK
<1>3. req'[c].pc = "reread" /\ req'[c].token = k
  BY <1>2, RequestType DEF Rotate, Requests
<1>4. Rotating(c) /\ session[k].refresh = "live" /\ session[k].offered
  BY DEF Rotate, Rotating, RotatingAlone, RequestsFit, Fits
<1>5. \A d \in Clients : Rotating(d)' =>
        d # c /\ Rotating(d) /\ req'[d] = req[d] /\ req[d].token # k
              /\ req[d].token \in DOMAIN session
  BY <1>2, <1>3, <1>4 DEF Rotating, RotatingAlone, RequestsFit, Fits
<1>6. \A d \in Clients : Exchanging(d)' =>
        d = c \/ (Exchanging(d) /\ req'[d] = req[d] /\ req[d].token # k)
  BY <1>2, <1>4 DEF Exchanging, ExchangingAlone
<1>7. RotatingAlone'
  BY <1>1, <1>5 DEF RotatingAlone, Rotating
<1>8. ExchangingAlone'
  <2>1. ASSUME NEW d \in Clients, Exchanging(d)'
        PROVE  /\ req'[d].token \in DOMAIN session'
               /\ session'[req'[d].token].refresh = "rotated"
               /\ \A i \in DOMAIN session' : session'[i].parent # req'[d].token
    <3>1. \A i \in DOMAIN session : session'[i].parent = session[i].parent
      BY <1>1 DEF RotatedRow
    <3>2. CASE d = c
      BY <1>1, <1>3, <1>4, <3>1, <3>2 DEF RotatedRow, ParentsAreSpent
    <3>3. CASE d # c
      BY <1>1, <1>6, <2>1, <3>1, <3>3 DEF ExchangingAlone
    <3> QED
      BY <3>2, <3>3
  <2>2. ASSUME NEW d \in Clients, NEW e \in Clients, Exchanging(d)', Exchanging(e)',
               req'[d].token = req'[e].token
        PROVE  d = e
    BY <1>3, <1>6, <2>2 DEF ExchangingAlone
  <2> QED
    BY <2>1, <2>2 DEF ExchangingAlone, Exchanging
<1>9. ParentsAreSpent'
  BY <1>1 DEF ParentsAreSpent, RotatedRow
<1>10. SpentWereOffered'
  BY <1>1, <1>4 DEF SpentWereOffered, RotatedRow
<1>11. NoOrphanedAccess'
  BY <1>1 DEF NoOrphanedAccess, RotatedRow
<1>12. ExchangedOnce'
  BY <1>1 DEF ExchangedOnce, RotatedRow
<1> QED
  BY <1>7, <1>8, <1>9, <1>10, <1>11, <1>12

\* A token is locked by the request that is about to spend it.
LEMMA RefreshKeeps ==
  ASSUME TypeOK, RequestsFit, Exchanges, NEW c \in Clients, NEW k \in DOMAIN session,
         Refresh(c, k)
  PROVE  Exchanges'
<1> USE DEF Exchanges
<1>1. /\ DOMAIN session' = DOMAIN session
      /\ \A i \in DOMAIN session : SameRow(i)
  BY RefreshGrows, RowsType
<1>2. PICK r \in Requests : /\ Puts(c, r)
                            /\ r.pc = IF Replayed(k) THEN "revoke" ELSE "rotate"
                            /\ r.op = "refresh" /\ r.token = k
  BY RefreshIs
<1>3. req'[c] = r /\ \A d \in Clients \ {c} : req'[d] = req[d]
  BY <1>2, PutsIs
<1>4. ~Replayed(k) => session[k].refresh = "live"
  BY DEF Refresh
<1>5. ASSUME NEW d \in Clients \ {c}, Rotating(d)
      PROVE  req[d].token # k /\ req[d].token \in DOMAIN session
  <2>1. req[d].op = "refresh" /\ req[d].pc = "rotate" /\ req[d].token \in DOMAIN session
    BY <1>5 DEF Rotating, RequestsFit, Fits
  <2> QED
    BY <2>1 DEF Refresh, Locked
<1>6. \A d \in Clients : Exchanging(d)' => Exchanging(d) /\ req'[d] = req[d]
  BY <1>2, <1>3 DEF Exchanging
<1>7. RotatingAlone'
  <2>1. ASSUME NEW d \in Clients, Rotating(d)'
        PROVE  session'[req'[d].token].refresh = "live"
    <3>1. CASE d = c
      BY <1>1, <1>2, <1>3, <1>4, <2>1, <3>1 DEF Rotating, SameRow
    <3>2. CASE d # c
      BY <1>1, <1>3, <1>5, <2>1, <3>2 DEF Rotating, RotatingAlone, SameRow
    <3> QED
      BY <3>1, <3>2
  <2>2. ASSUME NEW d \in Clients, NEW e \in Clients, Rotating(d)', Rotating(e)',
               req'[d].token = req'[e].token
        PROVE  d = e
    BY <1>2, <1>3, <1>5, <2>2 DEF Rotating, RotatingAlone
  <2> QED
    BY <2>1, <2>2 DEF RotatingAlone, Rotating
<1>8. ExchangingAlone'
  <2>1. ASSUME NEW d \in Clients, Exchanging(d)'
        PROVE  /\ req'[d].token \in DOMAIN session'
               /\ session'[req'[d].token].refresh = "rotated"
               /\ \A i \in DOMAIN session' : session'[i].parent # req'[d].token
    BY <1>1, <1>6, <2>1 DEF ExchangingAlone, SameRow
  <2> QED
    BY <1>6, <2>1 DEF ExchangingAlone, Exchanging
<1>9. ParentsAreSpent'
  BY <1>1 DEF ParentsAreSpent, SameRow
<1>10. SpentWereOffered'
  BY <1>1 DEF SpentWereOffered, SameRow
<1>11. NoOrphanedAccess'
  BY <1>1 DEF NoOrphanedAccess, SameRow
<1>12. ExchangedOnce'
  BY <1>1 DEF ExchangedOnce, SameRow
<1> QED
  BY <1>7, <1>8, <1>9, <1>10, <1>11, <1>12

\* The sessions and their exchanges stay right.
LEMMA ExchangesKeep ==
  ASSUME TypeOK, RequestsFit, Exchanges, [Next]_vars
  PROVE  Exchanges'
<1>1. CASE UNCHANGED <<req, session>>
  BY <1>1 DEF Exchanges, RotatingAlone, Rotating, ExchangingAlone, Exchanging,
     ParentsAreSpent, SpentWereOffered, NoOrphanedAccess, ExchangedOnce
<1>2. ASSUME NEW c \in Clients, SignOut(c)
      PROVE  Exchanges'
  <2>1. Quiet(c, Idle)
    BY <1>2, SignOutGrows, IdleIs DEF SignOut, Reply, Puts, Quiet
  <2> QED
    BY <2>1, QuietKeeps
<1>3. ASSUME NEW c \in Clients, RevokeAll(c)
      PROVE  Exchanges'
  <2> DEFINE r == IF req[c].op = "reset" THEN Granted(0, req[c].status) ELSE Idle
  <2>1. /\ r \in Requests \cup {Idle}
        /\ r.pc \notin {"rotate", "reread"}
        /\ r.pc \in {"activate", "issue"} => r.token = 0
    BY RequestType, GrantedIs, IdleIs
  <2>2. req' = [req EXCEPT ![c] = r]
    BY <1>3 DEF RevokeAll
  <2>3. Quiet(c, r)
    BY <1>3, <2>1, <2>2, RevokeAllGrows DEF Puts, Quiet
  <2> QED
    BY <2>3, QuietKeeps
<1>4. ASSUME session' = session, NEW c \in Clients, NEW r, Moves(c, r), r.pc # "reread"
      PROVE  Exchanges'
  <2>1. Quiet(c, r)
    BY <1>4, UnchangedRows DEF Moves, Leads, Quiet
  <2> QED
    BY <2>1, QuietKeeps
<1>5. ASSUME session' = session, NEW c \in Clients, NEW r, Moves(c, r), r.pc = "reread"
      PROVE  Exchanges'
  BY <1>5, RotateKeeps DEF Moves, Leads
<1> QED
  BY <1>1, <1>2, <1>3, <1>4, <1>5, SessionsStay, RequestsMove, IssueKeeps, RotateKeeps,
     RefreshKeeps DEF vars
-------------------------------------------------------------------------------
(* Who was let in.                                                          *)

\* What came back from the address stays so.
LEMMA ConfirmedStays ==
  ASSUME TypeOK, CodesGrow, Confirmed
  PROVE  Confirmed'
<1>1. PICK i \in DOMAIN codes : codes[i].purpose = "verify_email" /\ codes[i].grants > 0
  BY DEF Confirmed
<1>2. DOMAIN codes' = 1 .. Len(codes') /\ Len(codes') \in Nat
  BY DEF CodesGrow
<1>3. i \in DOMAIN codes'
  BY <1>1, <1>2, RowsType DEF CodesGrow
<1>4. codes[i] \in Codes /\ codes'[i] \in Codes
  BY <1>2, <1>3, RowsType DEF CodesGrow
<1> QED
  BY <1>1, <1>3, <1>4 DEF CodesGrow, Confirmed, Codes

\* A code that is accepted for an address confirms it.
LEMMA VerifyConfirms ==
  ASSUME TypeOK, RequestsFit, CodesFit, NEW c \in Clients, AcceptCode(c),
         req[c].op = "verify"
  PROVE  Confirmed'
<1> DEFINE g == req[c].guess
<1>1. /\ CodesGrow /\ Len(codes') = Len(codes)
      /\ g \in DOMAIN codes /\ g \in req[c].seen
      /\ codes'[g].grants = codes[g].grants + 1
  BY AcceptGrows
<1>2. codes[g].purpose = "verify_email"
  BY <1>1 DEF AcceptCode, RequestsFit, Fits, PurposeOf
<1>3. codes[g].grants \in Nat
  BY <1>1, RowsType DEF Codes
<1>4. g \in DOMAIN codes'
  BY <1>1, RowsType DEF CodesGrow
<1> QED
  BY <1>1, <1>2, <1>3, <1>4 DEF CodesGrow, Confirmed

\* How the account becomes active or confirmed.
LEMMA UserMoves ==
  ASSUME TypeOK, [Next]_vars, user'.status = "active" \/ user'.verified
  PROVE  \/ user.status = "active" \/ user.verified
         \/ ~MustVerify
         \/ \E c \in Clients : req[c].pc = "activate"
<1>1. user \in Users
  BY DEF TypeOK
<1>2. ASSUME NEW c \in Clients, NEW p \in Passwords, Register(c, p), MustVerify
      PROVE  user.status = "active" \/ user.verified
  <2>1. CASE user' = [status |-> IF MustVerify THEN "pending" ELSE "active",
                      verified |-> FALSE, password |-> p]
    <3>1. user'.status = "pending" /\ user'.verified = FALSE
      BY <1>2, <2>1
    <3> QED
      BY <3>1
  <2>2. CASE user' = user
    BY <2>2
  <2> QED
    BY <1>2, <2>1, <2>2 DEF Register
<1>3. ASSUME NEW c \in Clients, SetPassword(c)
      PROVE  user.status = "active" \/ user.verified
  BY <1>1, <1>3 DEF SetPassword, Users
<1>4. ASSUME Block
      PROVE  user.status = "active" \/ user.verified
  BY <1>1, <1>4 DEF Block, Users
<1>5. Next => \/ user' = user \/ Block
              \/ \E c \in Clients : \/ SetPassword(c) \/ Activate(c)
                                    \/ \E p \in Passwords : Register(c, p)
  BY DEF Next, Arrive, Proceed, RequestCode, Guess, Refresh, Logout, Login, Supersede,
     InsertCode, AcceptCode, RefuseCode, Issue, Rotate, Reread, SignOut, FindTokens,
     RevokeAll, Stop
<1> QED
  BY <1>2, <1>3, <1>4, <1>5 DEF vars, Activate

\* Nothing leads to a session before the address is confirmed.
LEMMA ActiveKeeps ==
  ASSUME TypeOK, RequestsFit, CodesFit, ActiveIsConfirmed, [Next]_vars
  PROVE  ActiveIsConfirmed'
<1> SUFFICES ASSUME MustVerify
             PROVE  /\ user'.status = "active" \/ user'.verified => Confirmed'
                    /\ \A d \in Clients :
                         req'[d].status = "active" \/ req'[d].pc \in {"activate", "issue"}
                           => Confirmed'
  BY UserKeeps DEF ActiveIsConfirmed, MustVerify
<1>1. CodesGrow /\ (Confirmed => Confirmed')
  BY CodesOnlyGrow, ConfirmedStays
<1>2. /\ user.status = "active" \/ user.verified => Confirmed
      /\ \A d \in Clients :
           req[d].status = "active" \/ req[d].pc \in {"activate", "issue"} => Confirmed
  BY DEF ActiveIsConfirmed
<1>3. user'.status = "active" \/ user'.verified => Confirmed'
  BY <1>1, <1>2, UserMoves
<1>4. ASSUME NEW c \in Clients, NEW r, Moves(c, r),
             r.status = "active" \/ r.pc \in {"activate", "issue"}
      PROVE  Confirmed'
  BY <1>1, <1>2, <1>4, VerifyConfirms DEF Moves, Leads
<1>5. ASSUME NEW d \in Clients,
             req'[d].status = "active" \/ req'[d].pc \in {"activate", "issue"}
      PROVE  Confirmed'
  <2>1. CASE req' = req
    BY <1>1, <1>2, <1>5, <2>1
  <2>2. ASSUME NEW c \in Clients, NEW r, Moves(c, r)
        PROVE  Confirmed'
    <3>1. req'[d] = r \/ req'[d] = req[d]
      BY <2>2, PutsIs DEF Moves
    <3> QED
      BY <1>1, <1>2, <1>4, <1>5, <2>2, <3>1
  <2>3. ASSUME NEW c \in Clients, NEW k \in DOMAIN session, Refresh(c, k)
        PROVE  Confirmed'
    <3>1. PICK r \in Requests : /\ Puts(c, r)
                                /\ r.pc = IF Replayed(k) THEN "revoke" ELSE "rotate"
                                /\ r.status = "none"
      BY <2>3, RefreshIs
    <3>2. req'[d] = r \/ req'[d] = req[d]
      BY <3>1, PutsIs
    <3> QED
      BY <1>1, <1>2, <1>5, <3>1, <3>2
  <2> QED
    BY <2>1, <2>2, <2>3, RequestsMove DEF vars
<1> QED
  BY <1>3, <1>5

\* A session is issued to a request that has the account confirmed.
LEMMA ConfirmedKeeps ==
  ASSUME TypeOK, RequestsFit, CodesFit, ActiveIsConfirmed, ConfirmedBeforeSession,
         [Next]_vars
  PROVE  ConfirmedBeforeSession'
<1> SUFFICES ASSUME MustVerify, session' # <<>>
             PROVE  Confirmed'
  BY UserKeeps DEF ConfirmedBeforeSession, Confirmed, MustVerify
<1>1. Confirmed => Confirmed'
  BY CodesOnlyGrow, ConfirmedStays
<1>2. CASE session # <<>>
  BY <1>1, <1>2 DEF ConfirmedBeforeSession, Confirmed
<1>3. ASSUME NEW c \in Clients, Issue(c)
      PROVE  Confirmed'
  BY <1>1, <1>3 DEF Issue, ActiveIsConfirmed
<1>4. CASE session = <<>> /\ ~\E c \in Clients : Issue(c)
  <2>1. Len(session') = 0
    BY <1>4, RowsType, SessionsStay, RefreshGrows, RotateGrows, SignOutGrows,
       RevokeAllGrows DEF vars
  <2>2. session' \in Seq(Sessions)
    BY SessionsOnlyGrow DEF SessionsGrow
  <2> QED
    BY <2>1, <2>2
<1> QED
  BY <1>2, <1>3, <1>4
-------------------------------------------------------------------------------
(* Live codes.                                                              *)

LEMMA LiveFromFinite ==
  ASSUME TypeOK, NEW p, NEW i
  PROVE  IsFiniteSet(LiveFrom(p, i)) /\ LiveFrom(p, i) \subseteq 1 .. Len(codes)
<1>1. IsFiniteSet(1 .. Len(codes))
  BY RowsType, FS_Interval
<1>2. LiveFrom(p, i) \subseteq 1 .. Len(codes)
  BY RowsType DEF LiveFrom, LiveCodes
<1> QED
  BY <1>1, <1>2, FS_Subset

\* Fewer live codes and fewer that have not seen them keep the bound.
LEMMA FewerIsBounded ==
  ASSUME NEW L, NEW M, NEW V, NEW W, IsFiniteSet(L), M \subseteq L,
         V \subseteq W, W \subseteq Clients,
         Cardinality(L) <= Cardinality(Clients \ W)
  PROVE  Cardinality(M) <= Cardinality(Clients \ V)
<1>1. IsFiniteSet(Clients \ V) /\ Clients \ W \subseteq Clients \ V
  BY ClientsAssumption, FS_Subset
<1>2. Cardinality(Clients \ W) <= Cardinality(Clients \ V)
  BY <1>1, FS_Subset
<1>3. Cardinality(M) <= Cardinality(L)
  BY FS_Subset
<1>4. /\ Cardinality(M) \in Nat /\ Cardinality(L) \in Nat
      /\ Cardinality(Clients \ V) \in Nat /\ Cardinality(Clients \ W) \in Nat
  BY <1>1, FS_Subset, FS_CardinalityType
<1> QED
  BY <1>2, <1>3, <1>4

LEMMA NoneIsBounded ==
  ASSUME NEW V
  PROVE  Cardinality({}) <= Cardinality(Clients \ V)
<1>1. IsFiniteSet(Clients \ V)
  BY ClientsAssumption, FS_Subset
<1> QED
  BY <1>1, FS_CardinalityType, FS_EmptySet

\* Where no code is stored, who is about to store one has seen all that are there.
LEMMA QuietOverlaps ==
  ASSUME TypeOK, RequestsFit, OverlapsBounded, Next, CodesGrow,
         Len(codes') = Len(codes), NEW p \in Purposes, NEW i \in Nat
  PROVE  Cardinality(LiveFrom(p, i)') <= Cardinality(Clients \ Unaware(p, i)')
<1>1. DOMAIN codes' = DOMAIN codes /\ DOMAIN codes = 1 .. Len(codes)
  BY RowsType DEF CodesGrow
<1>2. LiveFrom(p, i)' \subseteq LiveFrom(p, i)
  BY <1>1 DEF LiveFrom, LiveCodes, CodesGrow
<1>3. CASE Len(codes) < i
  <2>1. LiveFrom(p, i)' = {}
    BY <1>1, <1>3, RowsType DEF LiveFrom, LiveCodes
  <2> QED
    BY <2>1, NoneIsBounded
<1>4. CASE i <= Len(codes)
  <2>1. ASSUME NEW d \in Clients, req'[d].pc = "insert", req'[d].known < i
        PROVE  req'[d] = req[d]
    <3>1. ASSUME NEW c \in Clients, NEW r, Moves(c, r), req'[d] # req[d]
          PROVE  FALSE
      <4>1. req'[d] = r
        BY <3>1, PutsIs DEF Moves
      <4>2. r.known = Len(codes)
        BY <2>1, <3>1, <4>1 DEF Moves, Leads
      <4> QED
        BY <1>4, <2>1, <4>1, <4>2, RowsType
    <3>2. ASSUME NEW c \in Clients, NEW k \in DOMAIN session, Refresh(c, k), req'[d] # req[d]
          PROVE  FALSE
      BY <2>1, <3>2, RefreshIs, PutsIs
    <3> QED
      BY <3>1, <3>2, RequestsMove
  <2>2. Unaware(p, i)' \subseteq Unaware(p, i)
    BY <2>1 DEF Unaware
  <2>3. Unaware(p, i) \subseteq Clients
    BY DEF Unaware
  <2> QED
    BY <1>2, <2>2, <2>3, LiveFromFinite, FewerIsBounded DEF OverlapsBounded
<1> QED
  BY <1>3, <1>4, RowsType

\* A code that is stored ends those of its purpose that its request had seen.
LEMMA InsertOverlaps ==
  ASSUME TypeOK, RequestsFit, OverlapsBounded, NEW c \in Clients, InsertCode(c),
         NEW p \in Purposes, NEW i \in Nat
  PROVE  Cardinality(LiveFrom(p, i)') <= Cardinality(Clients \ Unaware(p, i)')
<1> DEFINE n == Len(codes) + 1
           k == req[c].known
<1>1. /\ DOMAIN codes = 1 .. Len(codes) /\ Len(codes) \in Nat
      /\ DOMAIN codes' = 1 .. n /\ k \in Nat /\ k <= Len(codes)
      /\ codes'[n].purpose = req[c].purpose
  <2>1. DOMAIN codes = 1 .. Len(codes) /\ Len(codes) \in Nat /\ k \in Nat
    BY RowsType, RequestType
  <2>2. k <= Len(codes)
    BY DEF InsertCode, RequestsFit, Fits
  <2>3. codes' \in Seq(Codes) /\ Len(codes') = n /\ codes'[n].purpose = req[c].purpose
    BY InsertGrows DEF CodesGrow
  <2> QED
    BY <2>1, <2>2, <2>3
<1>2. \A j \in DOMAIN codes :
        /\ codes'[j].purpose = codes[j].purpose
        /\ codes'[j].live => codes[j].live /\ j \notin req[c].seen
  BY InsertGrows DEF CodesGrow
<1>3. /\ req'[c] = Idle /\ req[c].pc = "insert"
      /\ \A d \in Clients \ {c} : req'[d] = req[d]
  BY DEF InsertCode, Reply, TypeOK
<1>4. \A d \in Unaware(p, i)' : d # c /\ d \in Unaware(p, i)
  BY <1>3, IdleIs DEF Unaware
<1>5. CASE p # req[c].purpose
  <2>1. LiveFrom(p, i)' \subseteq LiveFrom(p, i)
    BY <1>1, <1>2, <1>5 DEF LiveFrom, LiveCodes
  <2>2. Unaware(p, i) \subseteq Clients
    BY DEF Unaware
  <2> QED
    BY <1>4, <2>1, <2>2, LiveFromFinite, FewerIsBounded DEF OverlapsBounded
<1>6. CASE p = req[c].purpose /\ n < i
  <2>1. LiveFrom(p, i)' = {}
    BY <1>1, <1>6 DEF LiveFrom, LiveCodes
  <2> QED
    BY <2>1, NoneIsBounded
<1>7. CASE p = req[c].purpose /\ i <= n
  <2> DEFINE m == IF i <= k THEN k + 1 ELSE i
  <2>1. m \in Nat /\ k < m /\ i <= m /\ \A j \in Nat : k < j /\ i <= j => m <= j
    BY <1>1
  <2> HIDE DEF m
  <2>2. LiveFrom(p, i)' \subseteq LiveFrom(p, m) \cup {n}
    <3> SUFFICES ASSUME NEW j \in LiveFrom(p, i)', j # n
                 PROVE  j \in LiveFrom(p, m)
      OBVIOUS
    <3>1. j \in DOMAIN codes /\ i <= j /\ codes'[j].live /\ codes'[j].purpose = p
      BY <1>1 DEF LiveFrom, LiveCodes
    <3>2. codes[j].live /\ codes[j].purpose = p /\ j \notin req[c].seen
      BY <1>2, <3>1
    <3>3. ~(j \in 1 .. k)
      BY <1>3, <1>7, <3>2 DEF RequestsFit, Fits
    <3>4. m <= j
      BY <1>1, <2>1, <3>1, <3>3
    <3> QED
      BY <3>1, <3>2, <3>4 DEF LiveFrom, LiveCodes
  <2>3. c \in Unaware(p, m) /\ Unaware(p, m) \subseteq Clients
    BY <1>3, <1>7, <2>1 DEF Unaware
  <2>4. Unaware(p, i) \subseteq Unaware(p, m)
    BY <2>1, RequestType DEF Unaware
  <2>5. Unaware(p, i)' \subseteq Unaware(p, m) \ {c}
    BY <1>4, <2>4
  <2>6. IsFiniteSet(LiveFrom(p, m)) /\ n \notin LiveFrom(p, m)
    BY <1>1, LiveFromFinite
  <2>7. Cardinality(LiveFrom(p, m)) <= Cardinality(Clients \ Unaware(p, m))
    BY <2>1 DEF OverlapsBounded
  <2> DEFINE others == Clients \ Unaware(p, m)
  <2>8. IsFiniteSet(others) /\ IsFiniteSet(Clients \ Unaware(p, i)')
    BY ClientsAssumption, FS_Subset
  <2>9. Cardinality(LiveFrom(p, m) \cup {n}) = Cardinality(LiveFrom(p, m)) + 1
        /\ IsFiniteSet(LiveFrom(p, m) \cup {n})
    BY <2>6, FS_AddElement
  <2>10. Cardinality(others \cup {c}) = Cardinality(others) + 1
    BY <2>3, <2>8, FS_AddElement
  <2>11. others \cup {c} \subseteq Clients \ Unaware(p, i)'
    BY <2>5
  <2>12. Cardinality(others \cup {c}) <= Cardinality(Clients \ Unaware(p, i)')
    BY <2>8, <2>11, FS_Subset
  <2>13. IsFiniteSet(LiveFrom(p, i)')
         /\ Cardinality(LiveFrom(p, i)') <= Cardinality(LiveFrom(p, m) \cup {n})
    BY <2>2, <2>9, FS_Subset
  <2>14. /\ Cardinality(LiveFrom(p, i)') \in Nat /\ Cardinality(LiveFrom(p, m)) \in Nat
         /\ Cardinality(others) \in Nat /\ Cardinality(Clients \ Unaware(p, i)') \in Nat
    BY <2>6, <2>8, <2>13, FS_CardinalityType
  <2> HIDE DEF n
  <2> QED
    BY <2>7, <2>9, <2>10, <2>12, <2>13, <2>14
<1> QED
  BY <1>1, <1>5, <1>6, <1>7

LEMMA OverlapsKeep ==
  ASSUME TypeOK, RequestsFit, CodesFit, OverlapsBounded, [Next]_vars
  PROVE  OverlapsBounded'
<1>1. CASE UNCHANGED vars
  BY <1>1 DEF OverlapsBounded, LiveFrom, LiveCodes, Unaware, vars
<1>2. CASE Next
  <2> SUFFICES ASSUME NEW p \in Purposes, NEW i \in Nat
               PROVE  Cardinality(LiveFrom(p, i)') <= Cardinality(Clients \ Unaware(p, i)')
    BY DEF OverlapsBounded
  <2>1. CodesGrow
    BY CodesOnlyGrow
  <2>2. Len(codes') = Len(codes) \/ \E c \in Clients : InsertCode(c)
    BY <1>2, CodesStay, AcceptGrows, RefuseGrows
  <2> QED
    BY <1>2, <2>1, <2>2, QuietOverlaps, InsertOverlaps
<1> QED
  BY <1>1, <1>2
-------------------------------------------------------------------------------
(* The theorems.                                                            *)

\* Before the first request there is nothing that could be wrong.
LEMMA InitHolds == Init => IInv
<1> SUFFICES ASSUME Init
             PROVE  IInv
  OBVIOUS
<1>1. /\ codes = <<>> /\ session = <<>>
      /\ \A c \in Clients : req[c] = Idle
      /\ user.status = "none" /\ user.verified = FALSE
  BY DEF Init
<1>2. TypeOK
  BY IdleIs DEF Init, TypeOK, Users, Statuses
<1>3. RequestsFit /\ CodesFit
  BY <1>1, IdleIs DEF RequestsFit, CodesFit, Fits
<1>4. Exchanges
  BY <1>1, IdleIs DEF Exchanges, RotatingAlone, Rotating, ExchangingAlone, Exchanging,
     ParentsAreSpent, SpentWereOffered, NoOrphanedAccess, ExchangedOnce
<1>5. ActiveIsConfirmed /\ ConfirmedBeforeSession
  BY <1>1, IdleIs DEF ActiveIsConfirmed, ConfirmedBeforeSession
<1>6. OverlapsBounded
  <2>1. \A p \in Purposes, i \in Nat : LiveFrom(p, i) = {}
    BY <1>1 DEF LiveFrom, LiveCodes
  <2> QED
    BY <2>1, NoneIsBounded DEF OverlapsBounded
<1> QED
  BY <1>2, <1>3, <1>4, <1>5, <1>6 DEF IInv

LEMMA StepHolds == IInv /\ [Next]_vars => IInv'
  BY TypeKeeps, OverlapsKeep, ExchangesKeep, ActiveKeeps, ConfirmedKeeps DEF IInv

\* In every state the requests, the codes, the sessions and the account fit together.
THEOREM Invariance == Spec => []IInv
  BY InitHolds, StepHolds, PTL DEF Spec

\* The rows and the requests keep their shape (service.go, store.go).
THEOREM TypeCorrect == Spec => []TypeOK
<1>1. IInv => TypeOK
  BY DEF IInv
<1> QED
  BY Invariance, <1>1, PTL

\* No access token outlives the refresh token it was issued with (revokeAll,
\* rotateRefresh).
THEOREM AccessEndsWithRefresh == Spec => []NoOrphanedAccess
<1>1. IInv => NoOrphanedAccess
  BY DEF IInv, Exchanges
<1> QED
  BY Invariance, <1>1, PTL

\* A refresh token is exchanged for one session at most (rotateRefresh, issueSession).
THEOREM ExchangedAtMostOnce == Spec => []ExchangedOnce
<1>1. IInv => ExchangedOnce
  BY DEF IInv, Exchanges
<1> QED
  BY Invariance, <1>1, PTL

\* A code lets one request through (consumeCode).
THEOREM CodesGrantOnce == Spec => []OneGrantPerCode
<1>1. IInv => OneGrantPerCode
  BY DEF IInv, OneGrantPerCode, CodesFit, CodeFits
<1> QED
  BY Invariance, <1>1, PTL

\* A code guessed wrong as often as the settings allow lets nobody through, however
\* many guesses had found it (consumeCode).
THEOREM ExhaustedCodesAreBurned == Spec => []ExhaustedIsBurned
<1>1. IInv => ExhaustedIsBurned
  <2> SUFFICES ASSUME IInv, NEW i \in DOMAIN codes, codes[i].wrong >= CodeAttempts
               PROVE  ~codes[i].live /\ codes[i].grants = 0 /\ codes[i].wrong = CodeAttempts
    BY DEF ExhaustedIsBurned
  <2>1. codes[i] \in Codes
    BY RowsType DEF IInv
  <2>2. codes[i].wrong \in Nat
    BY <2>1 DEF Codes
  <2> QED
    BY <2>2, AttemptsAssumption DEF IInv, CodesFit, CodeFits
<1> QED
  BY Invariance, <1>1, PTL

\* Where addresses have to be confirmed, sessions come after the confirmation (issue,
\* activate, Login).
THEOREM SessionsNeedConfirmation == Spec => []ConfirmedBeforeSession
<1>1. IInv => ConfirmedBeforeSession
  BY DEF IInv
<1> QED
  BY Invariance, <1>1, PTL

\* A blocked account stays blocked, whatever the requests that read it before do
\* (activate).
THEOREM BlockingLasts == Spec => BlockedStays
<1>1. IInv /\ [Next]_vars => [user.status = "blocked" => user'.status = "blocked"]_vars
  BY UserKeeps DEF IInv
<1> QED
  BY Invariance, <1>1, PTL DEF Spec, BlockedStays

\* Only a refresh token that was offered before is taken for a replay (rotateRefresh).
THEOREM ReplaysAreRepeats == Spec => NoRepeatNoReplay
<1> DEFINE A == \A c \in Clients : req'[c].op = "refresh" /\ req'[c].pc = "revoke"
                                     => session[req'[c].token].offered
<1>1. IInv /\ [Next]_vars => [A]_vars
  <2> SUFFICES ASSUME IInv, Next, NEW d \in Clients,
                      req'[d].op = "refresh", req'[d].pc = "revoke"
               PROVE  session[req'[d].token].offered
    BY DEF vars
  <2>1. TypeOK /\ RequestsFit /\ SpentWereOffered
    BY DEF IInv, Exchanges
  <2>2. CASE req'[d] = req[d]
    BY <2>1, <2>2 DEF RequestsFit, Fits
  <2>3. ASSUME NEW c \in Clients, NEW k \in DOMAIN session, Refresh(c, k), req'[d] # req[d]
        PROVE  session[req'[d].token].offered
    <3>1. PICK r \in Requests : /\ Puts(c, r)
                                /\ r.pc = IF Replayed(k) THEN "revoke" ELSE "rotate"
                                /\ r.op = "refresh" /\ r.token = k
      BY <2>1, <2>3, RefreshIs
    <3>2. req'[d] = r
      BY <2>1, <2>3, <3>1, PutsIs
    <3> QED
      BY <2>1, <3>1, <3>2 DEF Replayed, SpentWereOffered
  <2>4. ASSUME NEW c \in Clients, NEW r, Moves(c, r), req'[d] # req[d]
        PROVE  session[req'[d].token].offered
    <3>1. req'[d] = r
      BY <2>1, <2>4, PutsIs DEF Moves
    <3> QED
      BY <2>1, <2>4, <3>1 DEF Moves, Fits
  <2> QED
    BY <2>1, <2>2, <2>3, <2>4, RequestsMove
<1> QED
  BY Invariance, <1>1, PTL DEF Spec, NoRepeatNoReplay

\* No more codes of a purpose are live than there are connections (putCode).
THEOREM LiveCodesAreBounded == Spec => []LiveCodesBounded
<1>1. IInv => LiveCodesBounded
  <2> SUFFICES ASSUME IInv, NEW p \in Purposes
               PROVE  Cardinality(LiveCodes(p)) <= Cardinality(Clients)
    BY DEF LiveCodesBounded
  <2>1. TypeOK /\ OverlapsBounded
    BY DEF IInv
  <2>2. LiveFrom(p, 0) = LiveCodes(p)
    BY <2>1, RowsType DEF LiveFrom, LiveCodes
  <2>3. Unaware(p, 0) = {}
    BY <2>1, RequestType DEF Unaware
  <2> QED
    BY <2>1, <2>2, <2>3 DEF OverlapsBounded
<1> QED
  BY Invariance, <1>1, PTL
===============================================================================
