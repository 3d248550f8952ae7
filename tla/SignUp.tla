------------------------------- MODULE SignUp -------------------------------
(***************************************************************************)
(* Users who sign up with one name at clients of one server.               *)
(*                                                                         *)
(* toolDbSignUp looks for the name in the local store, makes the account,  *)
(* stores its record and sends it; half a second later it asks for the     *)
(* name once (toolDbCheckSignupConflicts), and the first put with the id   *)
(* of that question tells whether somebody was first.  The record of a     *)
(* name, a frozen key, is only ever replaced by an older one.              *)
(*                                                                         *)
(* A record is known by the client whose user it belongs to.  Handlers of  *)
(* puts do not overlap, and no two users sign up at the same instant:      *)
(* PutReplication is about the first, and its README about the second.     *)
(***************************************************************************)
EXTENDS Naturals, FiniteSetsExt

CONSTANTS
    Newcomer,   \* the clients
    TheServer,  \* the server they are connected to
    Nobody,     \* no record
    MaxLookups  \* bound: the calls of getData with the name

ASSUME SignUpAssumption ==
    /\ IsFiniteSet(Newcomer)
    /\ TheServer \notin Newcomer /\ Nobody \notin Newcomer /\ MaxLookups \in Nat

VARIABLES
    nameStore,  \* nameStore[n]: the record of the name in the store of n
    signedAt,   \* signedAt[c]: the timestamp of the record of c, 0 before it is made
    step,       \* step[c]: where toolDbSignUp is at c
    conflict,   \* the clients with a "signup-conflict-detected" event
    resolved,   \* those with a "username-conflict-resolved" for the other
    nameMail,   \* the puts and gets on their way
    nameHashes, \* nameHashes[n][m]: processedOutHashes[m] of n
    lookups,    \* the calls of getData so far
    \* History variables.
    warned,     \* warned[c]: what the server held when it was asked by c
    crossed     \* the clients that stored over a record that had come meanwhile

SignUpVars == <<nameStore, signedAt, step, conflict, resolved, nameMail, nameHashes,
                lookups, warned, crossed>>

Place == Newcomer \cup {TheServer}

\* A put or get; purpose tells its id: that of a record, or of a question.
NameMail == [type : {"put", "get"}, src : Place, dst : Place,
             purpose : {"signup", "check", "lookup"}, by : Newcomer,
             data : Newcomer \cup {Nobody}]

SignUpTypeOK ==
    /\ nameStore \in [Place -> Newcomer \cup {Nobody}]
    /\ signedAt \in [Newcomer -> 0..Cardinality(Newcomer)]
    /\ step \in [Newcomer -> {"idle", "free", "made", "stored", "asking", "done", "refused"}]
    /\ conflict \cup resolved \cup crossed \subseteq Newcomer
    /\ nameMail \subseteq NameMail
    /\ nameHashes \in [Place -> [Place -> SUBSET Newcomer]]
    /\ lookups \in 0..MaxLookups
    /\ warned \in [Newcomer -> Newcomer \cup {Nobody}]
    \* A record that is stored anywhere was made.
    /\ \A n \in Place : nameStore[n] # Nobody => signedAt[nameStore[n]] > 0

SignUpInit ==
    /\ nameStore = [n \in Place |-> Nobody]
    /\ signedAt = [c \in Newcomer |-> 0]
    /\ step = [c \in Newcomer |-> "idle"]
    /\ conflict = {} /\ resolved = {} /\ nameMail = {} /\ crossed = {}
    /\ nameHashes = [n \in Place |-> [m \in Place |-> {}]]
    /\ lookups = 0
    /\ warned = [c \in Newcomer |-> Nobody]

eventVars == <<conflict, resolved>>

-----------------------------------------------------------------------------
\* sendToAll or sendToClientId with a put: once for a hash.
SendRecord(n, M, purpose, by, r) ==
    LET new == {m \in M : r \notin nameHashes[n][m]}
    IN  /\ nameMail' = nameMail \cup {[type |-> "put", src |-> n, dst |-> m,
                purpose |-> purpose, by |-> by, data |-> r] : m \in new}
        /\ nameHashes' = [nameHashes EXCEPT ![n] =
                            [m \in Place |-> IF m \in new THEN @[m] \cup {r} ELSE @[m]]]

Ask(c, purpose) ==
    nameMail' = nameMail \cup {[type |-> "get", src |-> c, dst |-> TheServer,
                                purpose |-> purpose, by |-> c, data |-> Nobody]}

\* toolDbSignUp, the look at the local store.
CheckLocal(c) ==
    /\ step[c] = "idle"
    /\ step' = [step EXCEPT ![c] = IF nameStore[c] = Nobody THEN "free" ELSE "refused"]
    /\ UNCHANGED <<nameStore, signedAt, eventVars, nameMail, nameHashes, lookups, warned, crossed>>

\* The account is made and encrypted, and the timestamp taken.
MakeAccount(c) ==
    /\ step[c] = "free"
    /\ step' = [step EXCEPT ![c] = "made"]
    /\ \E t \in 1..Cardinality(Newcomer) :
        /\ \A d \in Newcomer : signedAt[d] # t
        /\ signedAt' = [signedAt EXCEPT ![c] = t]
    /\ UNCHANGED <<nameStore, eventVars, nameMail, nameHashes, lookups, warned, crossed>>

\* Signed: store the record, whatever is stored meanwhile, and send it.
StoreSignUp(c) ==
    /\ step[c] = "made"
    /\ step' = [step EXCEPT ![c] = "stored"]
    /\ nameStore' = [nameStore EXCEPT ![c] = c]
    /\ crossed' = IF nameStore[c] = Nobody THEN crossed ELSE crossed \cup {c}
    /\ SendRecord(c, {TheServer}, "signup", c, c)
    /\ UNCHANGED <<signedAt, eventVars, lookups, warned>>

\* toolDbCheckSignupConflicts, half a second later.
CheckSignupConflicts(c) ==
    /\ step[c] = "stored"
    /\ step' = [step EXCEPT ![c] = "asking"]
    /\ Ask(c, "check")
    /\ UNCHANGED <<nameStore, signedAt, eventVars, nameHashes, lookups, warned, crossed>>

\* No answer in two seconds: no conflict.
CheckTimesOut(c) ==
    /\ step[c] = "asking"
    /\ step' = [step EXCEPT ![c] = "done"]
    /\ UNCHANGED <<nameStore, signedAt, eventVars, nameMail, nameHashes, lookups, warned, crossed>>

\* The application asks for the name, to show whether it is free.
Lookup(c) ==
    /\ lookups < MaxLookups
    /\ lookups' = lookups + 1
    /\ Ask(c, "lookup")
    /\ UNCHANGED <<nameStore, signedAt, step, eventVars, nameHashes, warned, crossed>>

-----------------------------------------------------------------------------
Older(r, s) == s = Nobody \/ signedAt[r] < signedAt[s]

\* Mutant of HandleName: a newer record replaces an older one.
HandleNameNewest(n, r) ==
    nameStore' = [nameStore EXCEPT ![n] = IF @ = Nobody \/ Older(@, r) THEN r ELSE @]

\* verifyMessage and handlePut of a record of the name.
HandleName(n, r) ==
    nameStore' = [nameStore EXCEPT ![n] = IF Older(r, @) THEN r ELSE @]

\* A put of the name at the server; it has no server to relay to.
ServerStores(x) ==
    /\ x.type = "put" /\ x.dst = TheServer
    /\ nameMail' = nameMail \ {x}
    /\ HandleName(TheServer, x.data)
    /\ UNCHANGED <<signedAt, step, eventVars, nameHashes, lookups, warned, crossed>>

(***************************************************************************)
(* handleGet at the server: answer, or ask the other clients, which answer *)
(* the server.                                                             *)
(***************************************************************************)
ServerAnswers(x) ==
    /\ x.type = "get" /\ x.dst = TheServer
    /\ warned' = IF x.purpose = "check" THEN [warned EXCEPT ![x.by] = nameStore[TheServer]]
                 ELSE warned
    /\ IF nameStore[TheServer] # Nobody
       THEN LET new == {c \in {x.src} : nameStore[TheServer] \notin nameHashes[TheServer][c]}
                rest == nameMail \ {x}
            IN  /\ nameMail' = rest \cup {[type |-> "put", src |-> TheServer, dst |-> c,
                        purpose |-> x.purpose, by |-> x.by, data |-> nameStore[TheServer]] : c \in new}
                /\ nameHashes' = [nameHashes EXCEPT ![TheServer][x.src] = @ \cup {nameStore[TheServer]}]
       ELSE /\ nameMail' = (nameMail \ {x}) \cup
                 {[x EXCEPT !.src = TheServer, !.dst = c] : c \in Newcomer \ {x.src}}
            /\ UNCHANGED nameHashes
    /\ UNCHANGED <<nameStore, signedAt, step, eventVars, lookups, crossed>>

\* handleGet at another client, of a question the server relayed.
ClientAnswers(x) ==
    /\ x.type = "get" /\ x.dst # TheServer
    /\ LET r == nameStore[x.dst]
           sent == r = Nobody \/ r \in nameHashes[x.dst][TheServer]
       IN  /\ nameMail' = (nameMail \ {x}) \cup
                (IF sent THEN {} ELSE {[x EXCEPT !.type = "put", !.src = x.dst,
                                                 !.dst = TheServer, !.data = r]})
           /\ nameHashes' = IF sent THEN nameHashes
                            ELSE [nameHashes EXCEPT ![x.dst][TheServer] = @ \cup {r}]
    /\ UNCHANGED <<nameStore, signedAt, step, eventVars, lookups, warned, crossed>>

(***************************************************************************)
(* An answer at a client: the listener of the check compares it with the   *)
(* user's own record, then handlePut stores it if it is older.             *)
(***************************************************************************)
ClientHears(x) ==
    /\ x.type = "put" /\ x.dst # TheServer
    /\ nameMail' = nameMail \ {x}
    /\ LET c == x.dst
           listens == x.purpose = "check" /\ step[c] = "asking"
           replaced == nameStore[c] \notin {Nobody, x.data} /\ Older(x.data, nameStore[c])
       IN  /\ step' = IF listens THEN [step EXCEPT ![c] = "done"] ELSE step
           /\ conflict' = IF listens /\ signedAt[x.data] < signedAt[c]
                          THEN conflict \cup {c} ELSE conflict
           /\ resolved' = IF replaced THEN resolved \cup {c} ELSE resolved
           /\ HandleName(c, x.data)
    /\ UNCHANGED <<signedAt, nameHashes, lookups, warned, crossed>>

SignUpNext ==
    \/ \E c \in Newcomer :
        \/ CheckLocal(c) \/ MakeAccount(c) \/ StoreSignUp(c)
        \/ CheckSignupConflicts(c) \/ CheckTimesOut(c) \/ Lookup(c)
    \/ \E x \in nameMail :
        \/ ServerStores(x) \/ ServerAnswers(x) \/ ClientAnswers(x) \/ ClientHears(x)

SignUpSpec == SignUpInit /\ [][SignUpNext]_SignUpVars

-----------------------------------------------------------------------------
(***************************************************************************)
(* The first to sign up owns the name: when nothing is on its way, the     *)
(* server holds the oldest record that was sent, and a client whose check  *)
(* the server met with an older one holds no record of its own any more    *)
(* and was told (toolDbCheckSignupConflicts, handlePut), unless it stored  *)
(* its record over one that came while it was signing up.                  *)
(***************************************************************************)
OneOwner ==
    nameMail = {} =>
        /\ \A c \in Newcomer :
              step[c] \in {"stored", "asking", "done"} =>
                  signedAt[nameStore[TheServer]] <= signedAt[c]
        /\ \A c \in Newcomer \ crossed :
              warned[c] # Nobody /\ Older(warned[c], c) =>
                  nameStore[c] # c /\ c \in conflict \cup resolved
=============================================================================
