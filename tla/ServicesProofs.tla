--------------------------- MODULE ServicesProofs ---------------------------
(***************************************************************************)
(* Proofs about the services of a peer, each for any values of its         *)
(* constants.  The accounts of a peer: it comes back as the peer it was,   *)
(* and a put that no sign-in crosses is hashed, signed and sent with one   *)
(* account.  Signing up: who is first owns the name, and who is not is     *)
(* told.  A query settles with the keys of its own store and of the        *)
(* answers that came in time, whatever else is asked meanwhile and         *)
(* whatever is lost.  The exchange of servers lists no other peer twice,   *)
(* however many verifications are under way at once.  A client that        *)
(* subscribed gets what was due then, and its listeners are shown what it  *)
(* holds and did not put itself.                                           *)
(***************************************************************************)
EXTENDS MCServices, SequenceTheorems, FiniteSetTheorems, TLAPS

Waiting == Nat \X {"nobody", "opening", "call"}

AccountTables ==
    /\ keys = [r \in Role |-> keys[r]]
    /\ address = [r \in Role |-> address[r]]
    /\ generating \in [Role -> Seq(Waiting)]
    /\ generated \in Nat
    /\ \A s \in setting :
          s = [call |-> s.call, role |-> s.role, account |-> s.account, stage |-> s.stage]
    /\ opening \in {"reading", "peer", "saving", "user", "ready"}

\* The sign-in of the peer.
Restoring == {s \in setting : s.role = "peer"}

\* The keys that the constructor generates for nobody may still come.
Unasked(q) == q = <<>> \/ \E a : q = <<<<a, "nobody">>>>

\* The peer's keys were asked for, perhaps after those for nobody.
Asked(q) ==
    \E b : q = <<<<b, "opening">>>> \/ \E a : q = <<<<a, "nobody">>, <<b, "opening">>>>

Fresh == savedPeer = NoAccount /\ Restoring = {} /\ Asked(generating["peer"])

Restored ==
    /\ Unasked(generating["peer"])
    /\ \E s : /\ Restoring = {s}
              /\ s.account = savedPeer
              /\ s.stage # "asked" => generating["peer"] = <<>>
              /\ s.stage = "addressing" => keys["peer"] = savedPeer

\* Where the peer is while its accounts are initialised.
Initialising ==
    /\ opening = "reading" => Unasked(generating["peer"]) /\ Restoring = {}
    /\ opening = "peer" => Fresh \/ Restored
    /\ opening = "saving" => /\ generating["peer"] = <<>> /\ Restoring = {}
                             /\ savedPeer = NoAccount /\ keys["peer"] = address["peer"]
    /\ opening \in {"user", "ready"} =>
          /\ generating["peer"] = <<>> /\ Restoring = {}
          /\ savedPeer # NoAccount => keys["peer"] = savedPeer /\ address["peer"] = savedPeer
    \* The keys for nobody come before all others.
    /\ generating["peer"] # <<>> /\ generating["peer"][1][2] = "nobody" =>
          keys["peer"] = NoAccount
    \* Those of the user are asked for last.
    /\ opening \in {"reading", "peer", "saving"} =>
          \A i \in DOMAIN generating["user"] : generating["user"][i][2] # "opening"

AccountsInv == AccountTables /\ (~late => Initialising)

-----------------------------------------------------------------------------
\* RemoveAt shortens a sequence by one and keeps the order of the others.
LEMMA Removed ==
    ASSUME NEW S, NEW q \in Seq(S), NEW i \in DOMAIN q
    PROVE  /\ RemoveAt(q, i) \in Seq(S) /\ Len(RemoveAt(q, i)) = Len(q) - 1
           /\ \A j \in 1..(Len(q) - 1) :
                 RemoveAt(q, i)[j] = IF j < i THEN q[j] ELSE q[j + 1]
<1>1. i \in 1..Len(q) /\ Len(q) \in Nat
  OBVIOUS
<1> DEFINE a == SubSeq(q, 1, i - 1)
           b == SubSeq(q, i + 1, Len(q))
<1>2. a \in Seq(S) /\ Len(a) = i - 1 /\ \A j \in 1..(i - 1) : a[j] = q[j]
  BY <1>1
<1>3. b \in Seq(S) /\ Len(b) = Len(q) - i /\ \A j \in 1..(Len(q) - i) : b[j] = q[i + j]
  BY <1>1
<1>4. RemoveAt(q, i) = a \o b
  BY DEF RemoveAt
<1> HIDE DEF a, b
<1>5. a \o b \in Seq(S) /\ Len(a \o b) = Len(q) - 1
  BY <1>1, <1>2, <1>3
<1>6. ASSUME NEW j \in 1..(Len(q) - 1)
      PROVE  (a \o b)[j] = IF j < i THEN q[j] ELSE q[j + 1]
  <2>1. CASE j < i
    BY <1>1, <1>2, <1>3, <2>1
  <2>2. CASE ~(j < i)
    <3> DEFINE k == j - (i - 1)
    <3>1. k \in 1..(Len(q) - i) /\ i + k = j + 1 /\ j \in 1..(Len(a) + Len(b)) /\ ~(j <= Len(a))
          /\ k = j - Len(a)
      BY <1>1, <1>2, <1>3, <2>2, SMTT(30)
    <3>2. (a \o b)[j] = b[k]
      BY <1>2, <1>3, <3>1
    <3> HIDE DEF k
    <3>3. b[k] = q[j + 1]
      BY <1>3, <3>1
    <3> QED BY <2>2, <3>2, <3>3
  <2> QED BY <2>1, <2>2
<1> QED BY <1>4, <1>5, <1>6

\* The first of the keys of the peer are there.
LEMMA FirstRemoved ==
    /\ \A x : RemoveAt(<<x>>, 1) = <<>>
    /\ \A x, y : RemoveAt(<<x, y>>, 1) = <<y>>
<1>1. ASSUME NEW x PROVE RemoveAt(<<x>>, 1) = <<>>
  <2> DEFINE q == <<x>>
             S == {x}
  <2>1. q \in Seq(S) /\ 1 \in DOMAIN q /\ Len(q) = 1
    OBVIOUS
  <2> HIDE DEF q, S
  <2>2. RemoveAt(q, 1) \in Seq(S) /\ Len(RemoveAt(q, 1)) = Len(q) - 1
    BY <2>1, Removed
  <2>3. RemoveAt(q, 1) = <<>>
    BY <2>1, <2>2
  <2> QED BY <2>3 DEF q
<1>2. ASSUME NEW x, NEW y PROVE RemoveAt(<<x, y>>, 1) = <<y>>
  <2> DEFINE q == <<x, y>>
             S == {x, y}
  <2>1. q \in Seq(S) /\ 1 \in DOMAIN q /\ Len(q) = 2 /\ q[2] = y
    OBVIOUS
  <2> HIDE DEF q, S
  <2>2. /\ RemoveAt(q, 1) \in Seq(S) /\ Len(RemoveAt(q, 1)) = Len(q) - 1
        /\ \A j \in 1..(Len(q) - 1) : RemoveAt(q, 1)[j] = IF j < 1 THEN q[j] ELSE q[j + 1]
    BY <2>1, Removed
  <2>3. RemoveAt(q, 1) \in Seq(S) /\ Len(RemoveAt(q, 1)) = 1 /\ RemoveAt(q, 1)[1] = y
    BY <2>1, <2>2
  <2>4. RemoveAt(q, 1) = <<y>>
    BY <2>3
  <2> QED BY <2>4 DEF q
<1> QED BY <1>1, <1>2

\* A short sequence is known by its elements.
LEMMA ByElements ==
    \A S : \A q \in Seq(S) : /\ Len(q) = 1 => q = <<q[1]>>
                             /\ Len(q) = 2 => q = <<q[1], q[2]>>
OBVIOUS

\* Keys are asked for after those on their way.
LEMMA Grown ==
    /\ \A x : Append(<<>>, x) = <<x>>
    /\ \A x, y : Append(<<x>>, y) = <<x, y>>
<1>1. ASSUME NEW x PROVE Append(<<>>, x) = <<x>>
  <2> DEFINE q == <<>>
             S == {x}
  <2>1. q \in Seq(S) /\ Len(q) = 0 /\ x \in S
    OBVIOUS
  <2> HIDE DEF q, S
  <2>2. Append(q, x) \in Seq(S) /\ Len(Append(q, x)) = 1 /\ Append(q, x)[1] = x
    BY <2>1
  <2>3. Append(q, x) = <<x>>
    BY <2>2, ByElements, Zenon
  <2> QED BY <2>3 DEF q
<1>2. ASSUME NEW x, NEW y PROVE Append(<<x>>, y) = <<x, y>>
  <2> DEFINE q == <<x>>
             S == {x, y}
  <2>1. q \in Seq(S) /\ Len(q) = 1 /\ q[1] = x /\ y \in S
    OBVIOUS
  <2> HIDE DEF q, S
  <2>2. Append(q, y) \in Seq(S) /\ Len(Append(q, y)) = 2
    BY <2>1
  <2>3. Append(q, y)[1] = x
    BY <2>1
  <2>4. Append(q, y)[2] = y
    <3>1. Append(q, y)[Len(q) + 1] = y
      BY <2>1, AppendProperties
    <3>2. Len(q) + 1 = 2
      BY <2>1
    <3> QED BY <3>1, <3>2, Zenon
  <2>5. Append(q, y) = <<x, y>>
    BY <2>2, <2>3, <2>4, ByElements, Zenon
  <2> QED BY <2>5 DEF q
<1> QED BY <1>1, <1>2

-----------------------------------------------------------------------------
\* The constructor begins with keys that nobody waits for.
LEMMA AccountsInvInit == AccountsInit => AccountsInv
<1> SUFFICES ASSUME AccountsInit PROVE AccountsInv
  OBVIOUS
<1>1. /\ generating["peer"] = <<<<1, "nobody">>>> /\ generating["user"] = <<<<2, "nobody">>>>
      /\ generating \in [Role -> Seq(Waiting)]
  BY DEF AccountsInit, Constructed, Role, Waiting
<1> QED
  BY <1>1 DEF AccountsInit, AccountsInv, AccountTables, Initialising, Unasked, Restoring, Role

\* Puts change nothing here.
LEMMA AccountsKept ==
    ASSUME AccountsInv,
           UNCHANGED <<keys, address, generating, setting, opening, savedPeer, generated, late>>
    PROVE  AccountsInv'
BY DEF AccountsInv, AccountTables, Initialising, Fresh, Restored, Restoring

\* anonUser.
LEMMA AnonAsked ==
    ASSUME AccountTables, NEW r \in Role, NEW waiter \in {"nobody", "opening", "call"},
           AnonUser(r, waiter)
    PROVE  /\ generating' \in [Role -> Seq(Waiting)] /\ generated' \in Nat
           /\ generating'[r] = Append(generating[r], <<generated + 1, waiter>>)
           /\ \A q \in Role \ {r} : generating'[q] = generating[q]
<1>1. <<generated + 1, waiter>> \in Waiting
  BY DEF AccountTables, Waiting
<1>2. Append(generating[r], <<generated + 1, waiter>>) \in Seq(Waiting)
  BY <1>1 DEF AccountTables
<1> QED BY <1>2 DEF AccountTables, AnonUser

\* A step of a sign-in changes its stage only.
LEMMA Proceeded ==
    ASSUME AccountTables, NEW s \in setting, NEW to, Proceed(s, to)
    PROVE  /\ \A t \in setting' : t = [call |-> t.call, role |-> t.role,
                                       account |-> t.account, stage |-> t.stage]
           /\ s.role # "peer" => Restoring' = Restoring
           /\ s.role = "peer" /\ Restoring = {s} =>
                \E t : /\ Restoring' = {t}
                       /\ t.account = s.account /\ t.stage = to
<1> DEFINE t == [s EXCEPT !.stage = to]
<1>1. setting' = (setting \ {s}) \cup {t}
  BY DEF Proceed
<1>2. s = [call |-> s.call, role |-> s.role, account |-> s.account, stage |-> s.stage]
  BY DEF AccountTables
<1>3. t = [call |-> s.call, role |-> s.role, account |-> s.account, stage |-> to]
  BY <1>2
<1> HIDE DEF t
<1>4. t.role = s.role /\ t.account = s.account /\ t.stage = to /\ t.call = s.call
  BY <1>3
<1> QED BY <1>1, <1>3, <1>4 DEF AccountTables, Restoring

(***************************************************************************)
(* Keys come: in order, those for nobody are followed by those asked for.  *)
(***************************************************************************)
LEMMA KeysGeneratedStep ==
    ASSUME AccountsInv, NEW r \in Role, NEW i \in DOMAIN generating[r], KeysGenerated(r, i)
    PROVE  AccountsInv'
<1> DEFINE account == generating[r][i][1]
           waiter == generating[r][i][2]
<1>1. /\ keys' = [keys EXCEPT ![r] = account] /\ address' = [address EXCEPT ![r] = account]
      /\ generating' = [generating EXCEPT ![r] = RemoveAt(generating[r], i)]
      /\ late' = (late \/ i > 1)
      /\ opening' = IF waiter # "opening" THEN opening
                    ELSE IF r = "peer" THEN "saving" ELSE "ready"
      /\ UNCHANGED <<setting, savedPeer, generated>>
  BY DEF KeysGenerated
<1>2. generating[r] \in Seq(Waiting) /\ i \in 1..Len(generating[r])
  BY DEF AccountsInv, AccountTables
<1>3. /\ RemoveAt(generating[r], i) \in Seq(Waiting)
      /\ Len(RemoveAt(generating[r], i)) = Len(generating[r]) - 1
      /\ \A j \in 1..(Len(generating[r]) - 1) :
            RemoveAt(generating[r], i)[j] = IF j < i THEN generating[r][j] ELSE generating[r][j + 1]
  BY <1>2, Removed
<1>4. /\ generating' \in [Role -> Seq(Waiting)]
      /\ generating'[r] = RemoveAt(generating[r], i)
      /\ \A q \in Role \ {r} : generating'[q] = generating[q]
  BY <1>1, <1>3 DEF AccountsInv, AccountTables
<1>5. /\ keys' = [q \in Role |-> keys'[q]] /\ keys'[r] = account
      /\ \A q \in Role \ {r} : keys'[q] = keys[q]
      /\ address' = [q \in Role |-> address'[q]] /\ address'[r] = account
      /\ \A q \in Role \ {r} : address'[q] = address[q]
  BY <1>1 DEF AccountsInv, AccountTables
<1>6. AccountTables'
  BY <1>1, <1>4, <1>5 DEF AccountsInv, AccountTables
<1>7. ASSUME ~late' PROVE Initialising'
  <2>1. ~late /\ i = 1 /\ Initialising
    <3>1. ~late /\ ~(i > 1)
      BY <1>1, <1>7, Zenon
    <3> QED BY <1>2, <3>1 DEF AccountsInv
  <2>2. Restoring' = Restoring
    BY <1>1 DEF Restoring
  <2>3. CASE r = "peer"
    <3>1. generating'["user"] = generating["user"]
      BY <1>4, <2>3 DEF Role
    <3>2. generating["peer"] # <<>>
      BY <1>2, <2>3
    <3>3. CASE \E a : generating["peer"] = <<<<a, "nobody">>>>
      <4>1. /\ generating'["peer"] = <<>> /\ opening' = opening
        BY <1>1, <1>4, <2>1, <2>3, <3>3, FirstRemoved
      <4>2. opening \in {"reading", "peer"} /\ (opening = "peer" => Restored)
        BY <2>1, <3>2, <3>3 DEF Initialising, Fresh, Asked, AccountsInv, AccountTables
      <4>3. opening = "peer" => Restored'
        <5>1. SUFFICES ASSUME opening = "peer" PROVE Restored'
          OBVIOUS
        <5>2. PICK s : /\ Restoring = {s} /\ s.account = savedPeer
                       /\ s.stage # "asked" => generating["peer"] = <<>>
          BY <4>2, <5>1 DEF Restored
        <5>3. s.stage = "asked"
          BY <3>2, <5>2
        <5> QED BY <1>1, <2>2, <4>1, <5>2, <5>3 DEF Restored, Unasked
      <4> QED BY <1>1, <2>1, <2>2, <3>1, <4>1, <4>2, <4>3 DEF Initialising, Unasked
    <3>4. CASE \E b : generating["peer"] = <<<<b, "opening">>>>
      <4>1. generating'["peer"] = <<>> /\ opening' = "saving"
        BY <1>1, <1>4, <2>1, <2>3, <3>4, FirstRemoved
      <4>2. opening = "peer" /\ Fresh
        BY <2>1, <3>2, <3>4 DEF Initialising, Unasked, Restored, AccountsInv, AccountTables
      <4> QED BY <1>1, <1>5, <2>1, <2>2, <2>3, <3>1, <4>1, <4>2 DEF Initialising, Fresh
    <3>5. CASE \E a, b : generating["peer"] = <<<<a, "nobody">>, <<b, "opening">>>>
      <4>1. PICK a, b : generating["peer"] = <<<<a, "nobody">>, <<b, "opening">>>>
        BY <3>5
      <4>2. generating'["peer"] = <<<<b, "opening">>>> /\ opening' = opening
        BY <1>1, <1>4, <2>1, <2>3, <4>1, FirstRemoved
      <4>3. opening = "peer" /\ Fresh
        BY <2>1, <3>2, <4>1 DEF Initialising, Unasked, Restored, AccountsInv, AccountTables
      <4> QED BY <1>1, <2>1, <2>2, <3>1, <4>2, <4>3 DEF Initialising, Fresh, Asked
    <3> QED
      BY <2>1, <3>2, <3>3, <3>4, <3>5
      DEF AccountsInv, AccountTables, Initialising, Fresh, Asked, Restored, Unasked
  <2>4. CASE r = "user"
    <3>1. /\ generating'["peer"] = generating["peer"]
          /\ keys'["peer"] = keys["peer"] /\ address'["peer"] = address["peer"]
      BY <1>4, <1>5, <2>4 DEF Role
    <3>2. opening' = opening \/ (opening \in {"user", "ready"} /\ opening' = "ready")
      BY <1>1, <1>2, <2>1, <2>4 DEF AccountsInv, AccountTables, Initialising
    <3>3. ASSUME NEW j \in DOMAIN generating'["user"]
          PROVE  \E k \in DOMAIN generating["user"] : generating'["user"][j] = generating["user"][k]
      BY <1>2, <1>3, <1>4, <2>1, <2>4
    <3> QED BY <1>1, <2>1, <2>2, <3>1, <3>2, <3>3
        DEF Initialising, Fresh, Restored, AccountsInv, AccountTables
  <2> QED BY <2>3, <2>4 DEF Role
<1> QED BY <1>6, <1>7 DEF AccountsInv

(***************************************************************************)
(* The initialisation of the accounts.                                     *)
(***************************************************************************)
LEMMA OpenPeerStep == ASSUME AccountsInv, OpenPeer PROVE AccountsInv'
<1>1. /\ opening = "reading" /\ opening' = "peer"
      /\ UNCHANGED <<keys, address, savedPeer, late>>
  BY DEF OpenPeer
<1>2. CASE savedPeer = NoAccount
  <2>1. AnonUser("peer", "opening") /\ UNCHANGED setting
    BY <1>2 DEF OpenPeer
  <2>2. /\ generating' \in [Role -> Seq(Waiting)] /\ generated' \in Nat
        /\ generating'["peer"] = Append(generating["peer"], <<generated + 1, "opening">>)
        /\ generating'["user"] = generating["user"]
    BY <2>1, AnonAsked DEF AccountsInv, Role
  <2>3. AccountTables'
    BY <1>1, <2>1, <2>2 DEF AccountsInv, AccountTables
  <2>4. ASSUME ~late PROVE Initialising'
    <3>1. Unasked(generating["peer"]) /\ Restoring' = {}
      BY <1>1, <2>1, <2>4 DEF AccountsInv, Initialising, Restoring
    <3>2. CASE generating["peer"] = <<>>
      <4>1. generating'["peer"] = <<<<generated + 1, "opening">>>>
        BY <2>2, <3>2, Grown, Zenon
      <4>2. Asked(generating'["peer"]) /\ generating'["peer"][1][2] = "opening"
        BY <4>1 DEF Asked
      <4> QED BY <1>1, <1>2, <2>2, <2>4, <3>1, <4>2
          DEF AccountsInv, Initialising, Fresh
    <3>3. CASE \E a : generating["peer"] = <<<<a, "nobody">>>>
      <4>1. PICK a : generating["peer"] = <<<<a, "nobody">>>>
        BY <3>3
      <4>2. generating'["peer"] = <<<<a, "nobody">>, <<generated + 1, "opening">>>>
        BY <2>2, <4>1, Grown, Zenon
      <4>3. keys["peer"] = NoAccount
        BY <2>4, <4>1 DEF AccountsInv, Initialising
      <4> QED BY <1>1, <1>2, <2>2, <2>4, <3>1, <4>2, <4>3
          DEF AccountsInv, Initialising, Fresh, Asked
    <3> QED BY <3>1, <3>2, <3>3 DEF Unasked
  <2> QED BY <1>1, <2>3, <2>4 DEF AccountsInv
<1>3. CASE savedPeer # NoAccount
  <2> DEFINE s == [call |-> 0, role |-> "peer", account |-> savedPeer, stage |-> "asked"]
  <2>1. setting' = {s} /\ UNCHANGED <<generating, generated>>
    BY <1>3 DEF OpenPeer
  <2>2. s.role = "peer" /\ s.account = savedPeer /\ s.stage = "asked"
    OBVIOUS
  <2>3. AccountTables'
    BY <1>1, <2>1 DEF AccountsInv, AccountTables
  <2> HIDE DEF s
  <2>4. ~late => Initialising'
    BY <1>1, <2>1, <2>2 DEF AccountsInv, Initialising, Restored, Restoring
  <2> QED BY <1>1, <2>3, <2>4 DEF AccountsInv
<1> QED BY <1>2, <1>3

\* The keys saved are those of the account that was waited for.
LEMMA SavePeerStep == ASSUME AccountsInv, SavePeer PROVE AccountsInv'
<1>1. /\ opening = "saving" /\ opening' = "user" /\ savedPeer' \in {savedPeer, keys["peer"]}
      /\ AnonUser("user", "opening")
      /\ UNCHANGED <<keys, address, setting, late>>
  BY DEF SavePeer
<1>2. /\ generating' \in [Role -> Seq(Waiting)] /\ generated' \in Nat
      /\ generating'["peer"] = generating["peer"]
  BY <1>1, AnonAsked DEF AccountsInv, Role
<1>3. AccountTables'
  BY <1>1, <1>2 DEF AccountsInv, AccountTables
<1>4. ~late => Initialising'
  BY <1>1, <1>2 DEF AccountsInv, Initialising, Restoring
<1> QED BY <1>1, <1>3, <1>4 DEF AccountsInv

(***************************************************************************)
(* Signing in, of the user and of the peer.                                *)
(***************************************************************************)
LEMMA SignInStep ==
    ASSUME AccountsInv, NEW c, NEW u, SignIn(c, u) PROVE AccountsInv'
<1> DEFINE s == [call |-> c, role |-> "user", account |-> u, stage |-> "asked"]
<1>1. /\ setting' = setting \cup {s}
      /\ UNCHANGED <<keys, address, generating, opening, savedPeer, generated, late>>
  BY DEF SignIn
<1>2. s.role = "user"
  OBVIOUS
<1>3. AccountTables'
  BY <1>1 DEF AccountsInv, AccountTables
<1> HIDE DEF s
<1>4. Restoring' = Restoring
  BY <1>1, <1>2 DEF Restoring
<1> QED BY <1>1, <1>3, <1>4 DEF AccountsInv, Initialising, Fresh, Restored

\* anonSignIn concerns the user's keys only.
LEMMA AnonSignInStep == ASSUME AccountsInv, AnonSignIn PROVE AccountsInv'
<1>1. /\ opening = "ready" /\ AnonUser("user", "call")
      /\ UNCHANGED <<keys, address, setting, opening, savedPeer, late>>
  BY DEF AnonSignIn
<1>2. /\ generating' \in [Role -> Seq(Waiting)] /\ generated' \in Nat
      /\ generating'["peer"] = generating["peer"]
  BY <1>1, AnonAsked DEF AccountsInv, Role
<1>3. AccountTables'
  BY <1>1, <1>2 DEF AccountsInv, AccountTables
<1>4. ~late => Initialising'
  BY <1>1, <1>2 DEF AccountsInv, Initialising, Restoring
<1> QED BY <1>1, <1>3, <1>4 DEF AccountsInv

\* A sign-in that can decrypt finds keys of the constructor.
LEMMA DecryptStep ==
    ASSUME AccountsInv, NEW s \in setting, DecryptAccount(s) PROVE AccountsInv'
<1>1. /\ s.stage = "asked" /\ keys[s.role] # NoAccount /\ Proceed(s, "importing")
      /\ UNCHANGED <<keys, address, generating, opening, savedPeer, generated, late>>
  BY DEF DecryptAccount
<1>2. AccountTables'
  BY <1>1, Proceeded DEF AccountsInv, AccountTables
<1>3. ASSUME ~late, s.role # "peer" PROVE Initialising'
  <2>1. Restoring' = Restoring
    BY <1>1, <1>3, Proceeded DEF AccountsInv
  <2> QED BY <1>1, <1>3, <2>1 DEF AccountsInv, Initialising, Fresh, Restored
<1>4. ASSUME ~late, s.role = "peer" PROVE Initialising'
  <2>1. s \in Restoring
    BY <1>4 DEF Restoring
  <2>2. /\ opening = "peer" /\ Restoring = {s} /\ s.account = savedPeer
        /\ Unasked(generating["peer"])
    BY <1>4, <2>1 DEF AccountsInv, AccountTables, Initialising, Fresh, Restored
  <2>3. generating["peer"] = <<>>
    BY <1>1, <1>4, <2>2 DEF AccountsInv, Initialising, Unasked
  <2>4. PICK t : Restoring' = {t} /\ t.account = s.account /\ t.stage = "importing"
    BY <1>1, <1>4, <2>2, Proceeded DEF AccountsInv
  <2>5. Restored'
    BY <1>1, <2>2, <2>3, <2>4 DEF Restored
  <2> QED BY <1>1, <1>4, <2>2, <2>3, <2>5 DEF AccountsInv, Initialising
<1> QED BY <1>1, <1>2, <1>3, <1>4 DEF AccountsInv

\* Only sign-ins of users are rejected.
LEMMA RejectedStep ==
    ASSUME AccountsInv, NEW s \in setting, SignInRejected(s) PROVE AccountsInv'
<1>1. /\ s.role = "user" /\ setting' = setting \ {s}
      /\ UNCHANGED <<keys, address, generating, opening, savedPeer, generated, late>>
  BY DEF SignInRejected
<1>2. Restoring' = Restoring
  BY <1>1 DEF Restoring
<1> QED BY <1>1, <1>2 DEF AccountsInv, AccountTables, Initialising, Fresh, Restored

\* setUser replaces the keys; the address is still the one before.
LEMMA SetKeysStep ==
    ASSUME AccountsInv, NEW s \in setting, SetKeys(s) PROVE AccountsInv'
<1>1. /\ s.stage = "importing" /\ keys' = [keys EXCEPT ![s.role] = s.account]
      /\ Proceed(s, "addressing")
      /\ UNCHANGED <<address, generating, opening, savedPeer, generated, late>>
  BY DEF SetKeys
<1>2. AccountTables'
  BY <1>1, Proceeded DEF AccountsInv, AccountTables
<1>3. ASSUME ~late, s.role # "peer" PROVE Initialising'
  <2>1. Restoring' = Restoring /\ keys'["peer"] = keys["peer"]
    BY <1>1, <1>3, Proceeded DEF AccountsInv, AccountTables, Role
  <2> QED BY <1>1, <1>3, <2>1 DEF AccountsInv, Initialising, Fresh, Restored
<1>4. ASSUME ~late, s.role = "peer" PROVE Initialising'
  <2>1. s \in Restoring
    BY <1>4 DEF Restoring
  <2>2. /\ opening = "peer" /\ Restoring = {s} /\ s.account = savedPeer
        /\ generating["peer"] = <<>>
    BY <1>1, <1>4, <2>1 DEF AccountsInv, AccountTables, Initialising, Fresh, Restored
  <2>3. keys'["peer"] = savedPeer
    BY <1>1, <1>4, <2>2 DEF AccountsInv, AccountTables, Role
  <2>4. PICK t : Restoring' = {t} /\ t.account = s.account /\ t.stage = "addressing"
    BY <1>1, <1>4, <2>2, Proceeded DEF AccountsInv
  <2>5. Restored'
    BY <1>1, <2>2, <2>3, <2>4 DEF Restored, Unasked
  <2> QED BY <1>1, <1>4, <2>2, <2>5 DEF AccountsInv, Initialising
<1> QED BY <1>1, <1>2, <1>3, <1>4 DEF AccountsInv

\* The peer is restored when setUser ends.
LEMMA SetAddressStep ==
    ASSUME AccountsInv, NEW s \in setting, SetAddress(s) PROVE AccountsInv'
<1>1. /\ s.stage = "addressing" /\ address' = [address EXCEPT ![s.role] = s.account]
      /\ setting' = setting \ {s}
      /\ UNCHANGED <<keys, savedPeer, late>>
  BY DEF SetAddress
<1>2. CASE s.role # "peer"
  <2>1. UNCHANGED <<opening, generating, generated>>
    BY <1>2 DEF SetAddress
  <2>2. Restoring' = Restoring /\ address'["peer"] = address["peer"]
    BY <1>1, <1>2 DEF Restoring, AccountsInv, AccountTables, Role
  <2>3. AccountTables'
    BY <1>1, <2>1 DEF AccountsInv, AccountTables
  <2> QED BY <1>1, <2>1, <2>2, <2>3 DEF AccountsInv, Initialising, Fresh, Restored
<1>3. CASE s.role = "peer"
  <2>1. opening' = "user" /\ AnonUser("user", "opening")
    BY <1>3 DEF SetAddress
  <2>2. /\ generating' \in [Role -> Seq(Waiting)] /\ generated' \in Nat
        /\ generating'["peer"] = generating["peer"]
    BY <2>1, AnonAsked DEF AccountsInv, Role
  <2>3. AccountTables'
    BY <1>1, <2>1, <2>2 DEF AccountsInv, AccountTables
  <2>4. ASSUME ~late PROVE Initialising'
    <3>1. s \in Restoring
      BY <1>3 DEF Restoring
    <3>2. /\ Restoring = {s} /\ s.account = savedPeer
          /\ generating["peer"] = <<>> /\ keys["peer"] = savedPeer
      BY <1>1, <2>4, <3>1 DEF AccountsInv, AccountTables, Initialising, Fresh, Restored
    <3>3. address'["peer"] = savedPeer /\ Restoring' = {}
      BY <1>1, <1>3, <3>2 DEF AccountsInv, AccountTables, Role, Restoring
    <3> QED BY <1>1, <2>1, <2>2, <3>2, <3>3 DEF Initialising
  <2> QED BY <1>1, <2>3, <2>4 DEF AccountsInv
<1> QED BY <1>2, <1>3

\* A restart keeps savedPeer and begins as the constructor does.
LEMMA RestartStep == ASSUME AccountsInv, RestartAccounts PROVE AccountsInv'
<1>1. /\ keys' = [r \in Role |-> NoAccount] /\ address' = [r \in Role |-> NoAccount]
      /\ generated' = generated + 2 /\ setting' = {} /\ opening' = "reading"
  BY DEF RestartAccounts
<1>2. /\ generating'["peer"] = <<<<generated + 1, "nobody">>>>
      /\ generating'["user"] = <<<<generated + 2, "nobody">>>>
      /\ generating' \in [Role -> Seq(Waiting)]
  BY DEF RestartAccounts, Constructed, Role, Waiting, AccountsInv, AccountTables
<1>3. AccountTables'
  BY <1>1, <1>2 DEF AccountsInv, AccountTables
<1>4. Initialising'
  BY <1>1, <1>2 DEF Initialising, Unasked, Restoring, Role
<1> QED BY <1>3, <1>4 DEF AccountsInv

\* Every step keeps the invariant.
LEMMA AccountsStep == ASSUME AccountsInv, [AccountsNext]_AccountVars PROVE AccountsInv'
<1>1. CASE UNCHANGED AccountVars
  BY <1>1, AccountsKept DEF AccountVars
<1>2. CASE HashPost \/ \E i \in DOMAIN posts : SignPost(i) \/ SendPost(i)
  BY <1>2, AccountsKept DEF HashPost, SignPost, SendPost
<1>3. CASE OpenPeer \/ SavePeer \/ AnonSignIn \/ RestartAccounts
  BY <1>3, OpenPeerStep, SavePeerStep, AnonSignInStep, RestartStep
<1>4. ASSUME NEW r \in Role, NEW i \in DOMAIN generating[r], KeysGenerated(r, i)
      PROVE  AccountsInv'
  BY <1>4, KeysGeneratedStep
<1>5. ASSUME NEW c, NEW u, SignIn(c, u) PROVE AccountsInv'
  BY <1>5, SignInStep
<1>6. ASSUME NEW s \in setting,
             DecryptAccount(s) \/ SignInRejected(s) \/ SetKeys(s) \/ SetAddress(s)
      PROVE  AccountsInv'
  BY <1>6, DecryptStep, RejectedStep, SetKeysStep, SetAddressStep
<1> QED BY <1>1, <1>2, <1>3, <1>4, <1>5, <1>6 DEF AccountsNext

-----------------------------------------------------------------------------
(***************************************************************************)
(* A peer that saved its account has it again after every restart.         *)
(***************************************************************************)
THEOREM SamePeer == AccountsSpec => []PeerComesBack
<1>1. AccountsInv /\ [AccountsNext]_AccountVars => AccountsInv'
  BY AccountsStep
<1>2. AccountsInv => PeerComesBack
  BY DEF AccountsInv, Initialising, PeerComesBack
<1> QED BY AccountsInvInit, <1>1, <1>2, PTL DEF AccountsSpec

-----------------------------------------------------------------------------
(***************************************************************************)
(* Types.                                                                  *)
(***************************************************************************)
\* RemoveAt keeps the type.
LEMMA RemovedType ==
    ASSUME NEW S, NEW q \in Seq(S), NEW i \in DOMAIN q
    PROVE  RemoveAt(q, i) \in Seq(S) /\ q[i] \in S
<1>1. RemoveAt(q, i) \in Seq(S)
  BY Removed
<1>2. q[i] \in S
  OBVIOUS
<1> QED BY <1>1, <1>2

\* anonUser counts a generated account.
LEMMA AnonType ==
    ASSUME AccountsTypeOK, NEW r \in Role, NEW w \in {"nobody", "opening", "call"},
           AnonUser(r, w)
    PROVE  generated' \in 0..MaxGenerated /\ generating' \in [Role -> Seq(Calling)]
<1>1. generated + 1 \in 1..MaxGenerated /\ generated' = generated + 1
  BY AccountsAssumption DEF AccountsTypeOK, AnonUser
<1>2. <<generated + 1, w>> \in Calling
  BY <1>1 DEF Calling, Account
<1>3. generating \in [Role -> Seq(Calling)]
  BY DEF AccountsTypeOK
<1>4. Append(generating[r], <<generated + 1, w>>) \in Seq(Calling)
  BY <1>2, <1>3
<1> QED BY <1>1, <1>3, <1>4 DEF AnonUser

\* Every account may be one that keys and addresses are of.
LEMMA MaybeAccount == Account \subseteq Maybe /\ NoAccount \in Maybe
BY DEF Maybe

\* Posts that are marked as crossed keep their type.
LEMMA CrossedType ==
    ASSUME AccountsTypeOK,
           posts' = [i \in DOMAIN posts |->
                        [posts[i] EXCEPT !.crossed = @ \/ posts[i].stage # "sent"]]
    PROVE  posts' \in Seq(Post) /\ Len(posts') = Len(posts)
<1>1. posts \in Seq(Post)
  BY DEF AccountsTypeOK
<1>2. ASSUME NEW i \in DOMAIN posts
      PROVE  [posts[i] EXCEPT !.crossed = @ \/ posts[i].stage # "sent"] \in Post
  <2>1. posts[i] \in Post
    BY <1>1
  <2>2. (posts[i].crossed \/ posts[i].stage # "sent") \in BOOLEAN
    BY <2>1 DEF Post
  <2> QED BY <2>1, <2>2 DEF Post
<1>3. DOMAIN posts = 1..Len(posts) /\ Len(posts) \in Nat
  BY <1>1
<1>4. posts' \in [1..Len(posts) -> Post]
  BY <1>2, <1>3
<1> QED BY <1>3, <1>4

\* Every step keeps the types.
LEMMA AccountsTypeStep ==
    ASSUME AccountsTypeOK, [AccountsNext]_AccountVars PROVE AccountsTypeOK'
<1>0. /\ keys \in [Role -> Maybe] /\ address \in [Role -> Maybe]
      /\ generating \in [Role -> Seq(Calling)] /\ setting \subseteq Setting
      /\ opening \in {"reading", "peer", "saving", "user", "ready"}
      /\ savedPeer \in Maybe /\ user \in Maybe /\ generated \in 0..MaxGenerated
      /\ posts \in Seq(Post) /\ Len(posts) <= MaxPosts
      /\ mixed \in BOOLEAN /\ late \in BOOLEAN
  BY DEF AccountsTypeOK
<1>1. CASE UNCHANGED AccountVars
  BY <1>1 DEF AccountsTypeOK, AccountVars
<1>2. ASSUME NEW r \in Role, NEW i \in DOMAIN generating[r], KeysGenerated(r, i)
      PROVE  AccountsTypeOK'
  <2>1. RemoveAt(generating[r], i) \in Seq(Calling) /\ generating[r][i] \in Calling
    BY <1>0, RemovedType
  <2>2. generating[r][i][1] \in Account /\ generating[r][i][1] \in Maybe
    BY <2>1, MaybeAccount DEF Calling
  <2>3. /\ keys' \in [Role -> Maybe] /\ address' \in [Role -> Maybe]
        /\ generating' \in [Role -> Seq(Calling)]
    BY <1>0, <1>2, <2>1, <2>2 DEF KeysGenerated
  <2>4. /\ opening' \in {"reading", "peer", "saving", "user", "ready"}
        /\ user' \in Maybe
    BY <1>0, <1>2, <2>2 DEF KeysGenerated
  <2>5. late' \in BOOLEAN
    BY <1>0, <1>2 DEF KeysGenerated
  <2>6. UNCHANGED <<setting, savedPeer, generated, posts, mixed>>
    BY <1>2 DEF KeysGenerated
  <2> QED BY <1>0, <2>3, <2>4, <2>5, <2>6 DEF AccountsTypeOK
<1>3. CASE OpenPeer
  <2>1. CASE savedPeer = NoAccount
    <3>1. AnonUser("peer", "opening") /\ UNCHANGED setting
      BY <1>3, <2>1 DEF OpenPeer
    <3>2. generated' \in 0..MaxGenerated /\ generating' \in [Role -> Seq(Calling)]
      BY <3>1, AnonType DEF Role
    <3> QED BY <1>0, <1>3, <3>1, <3>2 DEF OpenPeer, AccountsTypeOK
  <2>2. CASE savedPeer # NoAccount
    <3>1. setting' = {[call |-> 0, role |-> "peer", account |-> savedPeer, stage |-> "asked"]}
      BY <1>3, <2>2 DEF OpenPeer
    <3>2. savedPeer \in Account
      BY <1>0, <2>2 DEF Maybe
    <3>3. setting' \subseteq Setting
      BY <3>1, <3>2 DEF Setting, Role
    <3>4. UNCHANGED <<generating, generated>>
      BY <1>3, <2>2 DEF OpenPeer
    <3> QED BY <1>0, <1>3, <3>3, <3>4 DEF OpenPeer, AccountsTypeOK
  <2> QED BY <2>1, <2>2
<1>4. CASE SavePeer
  <2>1. savedPeer' \in Maybe
    BY <1>0, <1>4 DEF SavePeer, Role
  <2>2. generated' \in 0..MaxGenerated /\ generating' \in [Role -> Seq(Calling)]
    BY <1>4, AnonType DEF SavePeer, Role
  <2> QED BY <1>0, <1>4, <2>1, <2>2 DEF SavePeer, AccountsTypeOK
<1>5. ASSUME NEW c \in 1..MaxSignIns, NEW u \in User, SignIn(c, u) PROVE AccountsTypeOK'
  <2>1. setting' \subseteq Setting
    BY <1>0, <1>5 DEF SignIn, Setting, Role, Account
  <2>2. posts' \in Seq(Post) /\ Len(posts') = Len(posts)
    BY <1>5, CrossedType DEF SignIn
  <2>3. mixed' \in BOOLEAN
    BY <1>0, <1>5 DEF SignIn, Busy
  <2>4. UNCHANGED <<keys, address, generating, opening, savedPeer, generated, user, late>>
    BY <1>5 DEF SignIn
  <2> QED BY <1>0, <2>1, <2>2, <2>3, <2>4 DEF AccountsTypeOK
<1>6. CASE AnonSignIn
  <2>1. generated' \in 0..MaxGenerated /\ generating' \in [Role -> Seq(Calling)]
    BY <1>6, AnonType DEF AnonSignIn, Role
  <2>2. posts' \in Seq(Post) /\ Len(posts') = Len(posts)
    BY <1>6, CrossedType DEF AnonSignIn
  <2>3. mixed' \in BOOLEAN
    BY <1>0, <1>6 DEF AnonSignIn, Busy
  <2>4. UNCHANGED <<keys, address, setting, opening, savedPeer, user, late>>
    BY <1>6 DEF AnonSignIn
  <2> QED BY <1>0, <2>1, <2>2, <2>3, <2>4 DEF AccountsTypeOK
<1>7. ASSUME NEW s \in setting,
             DecryptAccount(s) \/ SignInRejected(s) \/ SetKeys(s) \/ SetAddress(s)
      PROVE  AccountsTypeOK'
  <2>1. s \in Setting /\ s.role \in Role /\ s.account \in Account /\ s.account \in Maybe
    BY <1>0, MaybeAccount DEF Setting
  <2>2. ASSUME NEW to \in {"asked", "importing", "addressing"}, Proceed(s, to)
        PROVE  setting' \subseteq Setting
    <3>1. [s EXCEPT !.stage = to] \in Setting
      BY <2>1 DEF Setting
    <3> QED BY <1>0, <2>2, <3>1 DEF Proceed
  <2>3. CASE DecryptAccount(s)
    BY <1>0, <2>2, <2>3 DEF DecryptAccount, AccountsTypeOK
  <2>4. CASE SignInRejected(s)
    BY <1>0, <2>4 DEF SignInRejected, AccountsTypeOK
  <2>5. CASE SetKeys(s)
    <3>1. keys' \in [Role -> Maybe]
      BY <1>0, <2>1, <2>5 DEF SetKeys
    <3> QED BY <1>0, <2>2, <2>5, <3>1 DEF SetKeys, AccountsTypeOK
  <2>6. CASE SetAddress(s)
    <3>1. address' \in [Role -> Maybe] /\ setting' \subseteq Setting
      BY <1>0, <2>1, <2>6 DEF SetAddress
    <3>2. CASE s.role = "peer"
      <4>1. opening' = "user" /\ AnonUser("user", "opening") /\ UNCHANGED user
        BY <2>6, <3>2 DEF SetAddress
      <4>2. generated' \in 0..MaxGenerated /\ generating' \in [Role -> Seq(Calling)]
        BY <4>1, AnonType DEF Role
      <4> QED BY <1>0, <2>6, <3>1, <4>1, <4>2 DEF SetAddress, AccountsTypeOK
    <3>3. CASE s.role # "peer"
      BY <1>0, <2>1, <2>6, <3>1, <3>3 DEF SetAddress, AccountsTypeOK
    <3> QED BY <3>2, <3>3
  <2> QED BY <1>7, <2>3, <2>4, <2>5, <2>6
<1>8. CASE HashPost
  <2> DEFINE p == [stage |-> "hashing", hash |-> address["user"], sig |-> NoAccount,
                   by |-> NoAccount, user |-> user, crossed |-> Busy \/ mixed]
  <2>1. posts' = Append(posts, p) /\ Len(posts) < MaxPosts
    BY <1>8 DEF HashPost
  <2>2. address["user"] \in Maybe /\ (Busy \/ mixed) \in BOOLEAN
    BY <1>0 DEF Role, Busy
  <2>3. p \in Post
    BY <1>0, <2>2, MaybeAccount DEF Post
  <2> HIDE DEF p
  <2>4. posts' \in Seq(Post) /\ Len(posts') <= MaxPosts
    BY <1>0, <2>1, <2>3, AccountsAssumption
  <2> QED BY <1>0, <1>8, <2>4 DEF HashPost, AccountsTypeOK
<1>9. ASSUME NEW i \in DOMAIN posts, SignPost(i) \/ SendPost(i) PROVE AccountsTypeOK'
  <2>1. posts[i] \in Post /\ keys["user"] \in Maybe /\ address["user"] \in Maybe
    BY <1>0 DEF Role
  <2>2. \/ posts' = [posts EXCEPT ![i] = [posts[i] EXCEPT !.stage = "signing", !.sig = keys["user"]]]
        \/ posts' = [posts EXCEPT ![i] = [posts[i] EXCEPT !.stage = "sent", !.by = address["user"]]]
    BY <1>0, <1>9 DEF SignPost, SendPost
  <2>3. /\ [posts[i] EXCEPT !.stage = "signing", !.sig = keys["user"]] \in Post
        /\ [posts[i] EXCEPT !.stage = "sent", !.by = address["user"]] \in Post
    BY <2>1 DEF Post
  <2>4. posts \in [1..Len(posts) -> Post] /\ Len(posts) \in Nat
    BY <1>0
  <2>5. posts' \in [1..Len(posts) -> Post]
    BY <2>2, <2>3, <2>4
  <2>6. posts' \in Seq(Post) /\ Len(posts') = Len(posts)
    BY <2>4, <2>5
  <2> QED BY <1>0, <1>9, <2>6 DEF SignPost, SendPost, AccountsTypeOK
<1>10. CASE RestartAccounts
  <2>1. generated' = generated + 2 /\ generated' \in 0..MaxGenerated
    BY <1>0, <1>10, AccountsAssumption DEF RestartAccounts
  <2>2. <<generated + 1, "nobody">> \in Calling /\ <<generated + 2, "nobody">> \in Calling
    BY <1>0, <2>1, AccountsAssumption DEF Calling, Account
  <2>3. generating' \in [Role -> Seq(Calling)]
    BY <1>10, <2>2 DEF RestartAccounts, Constructed
  <2>4. posts' \in Seq(Post) /\ Len(posts') <= MaxPosts
    BY <1>10, AccountsAssumption DEF RestartAccounts
  <2> QED BY <1>0, <1>10, <2>1, <2>3, <2>4, MaybeAccount DEF RestartAccounts, AccountsTypeOK
<1> QED BY <1>1, <1>2, <1>3, <1>4, <1>5, <1>6, <1>7, <1>8, <1>9, <1>10 DEF AccountsNext

(***************************************************************************)
(* The accounts, the calls that wait and the posts keep their types.       *)
(***************************************************************************)
THEOREM AccountsTyped == AccountsSpec => []AccountsTypeOK
<1>1. AccountsInit => AccountsTypeOK
  <2> SUFFICES ASSUME AccountsInit PROVE AccountsTypeOK
    OBVIOUS
  <2>1. <<1, "nobody">> \in Calling /\ <<2, "nobody">> \in Calling
    BY AccountsAssumption DEF Calling, Account
  <2>2. generating \in [Role -> Seq(Calling)]
    BY <2>1 DEF AccountsInit, Constructed
  <2>3. posts \in Seq(Post) /\ Len(posts) <= MaxPosts /\ generated \in 0..MaxGenerated
    BY AccountsAssumption DEF AccountsInit
  <2> QED BY <2>2, <2>3, MaybeAccount DEF AccountsInit, AccountsTypeOK
<1> QED BY <1>1, AccountsTypeStep, PTL DEF AccountsSpec

-----------------------------------------------------------------------------
(***************************************************************************)
(* The user's account.                                                     *)
(***************************************************************************)
\* Who waits for the keys of the user: only the constructor, or no longer it.
ForNobody == \A i \in DOMAIN generating["user"] : generating["user"][i][2] = "nobody"
ForCalls == \A i \in DOMAIN generating["user"] : generating["user"][i][2] = "call"

\* Those that initialising waits for are asked for last.
ForOpening ==
    LET q == generating["user"]
    IN  /\ q # <<>> /\ q[Len(q)][2] = "opening"
        /\ \A i \in DOMAIN q : i < Len(q) => q[i][2] = "nobody"

\* The account is that of the last sign-in that ended.
HasKeys == keys["user"] = user /\ address["user"] = user

\* One sign-in at most is under way.
OneSignIn ==
    \/ SigningIn = {} /\ Len(generating["user"]) <= 1 /\ HasKeys
    \/ /\ generating["user"] = <<>>
       /\ \E s \in setting : /\ SigningIn = {s}
                             /\ IF s.stage = "addressing" THEN keys["user"] = s.account
                                ELSE HasKeys

\* A put that no sign-in crossed has what the user's account is.
PostOfUser(p) ==
    IF p.stage = "sent" THEN {p.hash, p.sig, p.by} = {p.user}
    ELSE /\ opening = "ready" /\ ~Busy /\ ~mixed
         /\ p.hash = user /\ p.user = user
         /\ p.stage = "signing" => p.sig = user

UserInv ==
    /\ opening \in {"reading", "peer", "saving"} => ForNobody /\ SigningIn = {} /\ posts = <<>>
    /\ opening = "user" => ForOpening /\ SigningIn = {} /\ posts = <<>>
    /\ opening = "ready" => ForCalls /\ (~mixed => OneSignIn)
    /\ \A i \in DOMAIN posts : ~posts[i].crossed => PostOfUser(posts[i])

UserLate == ~late => UserInv

-----------------------------------------------------------------------------
\* Steps that leave the account of the user and the puts alone.
LEMMA UserKept ==
    ASSUME UserInv,
           UNCHANGED <<user, mixed, posts, opening, SigningIn>>,
           generating'["user"] = generating["user"],
           keys'["user"] = keys["user"], address'["user"] = address["user"]
    PROVE  UserInv'
<1>1. /\ ForNobody' = ForNobody /\ ForCalls' = ForCalls /\ ForOpening' = ForOpening
      /\ HasKeys' = HasKeys /\ Busy' = Busy
  BY DEF ForNobody, ForCalls, ForOpening, HasKeys, Busy, AnonSigningIn
<1>2. OneSignIn => OneSignIn'
  <2>1. ASSUME NEW s \in setting, SigningIn = {s} PROVE s \in setting'
    BY <2>1 DEF SigningIn
  <2> QED BY <1>1, <2>1 DEF OneSignIn
<1>3. \A p : PostOfUser(p) => PostOfUser(p)'
  BY <1>1 DEF PostOfUser
<1> QED BY <1>1, <1>2, <1>3 DEF UserInv

\* Who waits is known of every entry.
LEMMA Waiters ==
    ASSUME AccountsTypeOK
    PROVE  /\ generating["user"] \in Seq(Calling) /\ Len(generating["user"]) \in Nat
           /\ DOMAIN generating["user"] = 1..Len(generating["user"])
           /\ generating["user"] = <<>> <=> Len(generating["user"]) = 0
BY DEF AccountsTypeOK, Role

\* A call of anonUser is the last in the queue.
LEMMA LastAsked ==
    ASSUME AccountsTypeOK, NEW w \in {"nobody", "opening", "call"}, AnonUser("user", w)
    PROVE  /\ Len(generating'["user"]) = Len(generating["user"]) + 1
           /\ generating'["user"] # <<>>
           /\ DOMAIN generating'["user"] = 1..(Len(generating["user"]) + 1)
           /\ generating'["user"][Len(generating["user"]) + 1][2] = w
           /\ \A i \in 1..Len(generating["user"]) :
                 generating'["user"][i] = generating["user"][i]
<1> DEFINE q == generating["user"]
           x == <<generated + 1, w>>
<1>1. generating' = [generating EXCEPT !["user"] = Append(q, x)]
  BY DEF AnonUser
<1>2. generating'["user"] = Append(q, x)
  BY <1>1 DEF AccountsTypeOK, Role
<1>3. x[2] = w /\ x \in Calling
  BY AccountsAssumption DEF AccountsTypeOK, AnonUser, Calling, Account
<1>4. q \in Seq(Calling)
  BY Waiters
<1> HIDE DEF q, x
<1>5. /\ Len(Append(q, x)) = Len(q) + 1 /\ Append(q, x)[Len(q) + 1] = x
      /\ \A i \in 1..Len(q) : Append(q, x)[i] = q[i]
      /\ Append(q, x) \in Seq(Calling)
  BY <1>3, <1>4, AppendProperties
<1>6. Append(q, x) # <<>> /\ DOMAIN Append(q, x) = 1..(Len(q) + 1)
  BY <1>4, <1>5
<1> QED BY <1>2, <1>3, <1>5, <1>6 DEF q

\* What the initialisation of the accounts says while keys come in order.
LEMMA PeerReady ==
    ASSUME AccountsInv, ~late
    PROVE  /\ opening \in {"user", "ready"} => generating["peer"] = <<>>
           /\ opening # "peer" => \A s \in setting : s.role # "peer"
           /\ \A s \in setting : s.role = "peer" => opening = "peer"
<1>1. Initialising
  BY DEF AccountsInv
<1>2. opening \in {"user", "ready"} => generating["peer"] = <<>>
  BY <1>1 DEF Initialising
<1>3. opening # "peer" => Restoring = {}
  BY <1>1 DEF Initialising, AccountsInv, AccountTables
<1> QED BY <1>2, <1>3 DEF Restoring

\* The keys of the user come, first those asked for first.
LEMMA KeysGeneratedUser ==
    ASSUME AccountsTypeOK, AccountsInv, UserInv, ~late',
           NEW r \in Role, NEW i \in DOMAIN generating[r], KeysGenerated(r, i)
    PROVE  UserInv'
<1> DEFINE account == generating[r][i][1]
           waiter == generating[r][i][2]
           q == generating["user"]
<1>1. /\ keys' = [keys EXCEPT ![r] = account] /\ address' = [address EXCEPT ![r] = account]
      /\ generating' = [generating EXCEPT ![r] = RemoveAt(generating[r], i)]
      /\ opening' = IF waiter # "opening" THEN opening
                    ELSE IF r = "peer" THEN "saving" ELSE "ready"
      /\ user' = IF r = "user" /\ waiter # "nobody" THEN account ELSE user
      /\ UNCHANGED <<setting, posts, mixed>>
      /\ ~late /\ ~(i > 1)
  BY DEF KeysGenerated
<1>2. generating \in [Role -> Seq(Calling)] /\ keys \in [Role -> Maybe] /\ address \in [Role -> Maybe]
  BY DEF AccountsTypeOK
<1>3. i = 1 /\ 1 \in DOMAIN generating[r]
  BY <1>1, <1>2
<1>4. SigningIn' = SigningIn
  BY <1>1 DEF SigningIn
<1>5. CASE r = "peer"
  <2>1. generating["peer"] # <<>>
    BY <1>2, <1>5
  <2>2. opening \in {"reading", "peer", "saving"}
    BY <1>1, <2>1, PeerReady DEF AccountsTypeOK
  <2>3. opening' \in {"reading", "peer", "saving"} /\ generating'["user"] = generating["user"]
    BY <1>1, <1>2, <1>5, <2>2 DEF Role
  <2> QED BY <1>1, <1>4, <2>2, <2>3 DEF UserInv, ForNobody
<1>6. CASE r = "user"
  <2>1. /\ q \in Seq(Calling) /\ Len(q) \in Nat /\ Len(q) >= 1 /\ DOMAIN q = 1..Len(q)
        /\ 1 \in DOMAIN q
    BY <1>3, <1>6, Waiters
  <2>2. /\ generating'["user"] = RemoveAt(q, 1)
        /\ keys'["user"] = q[1][1] /\ address'["user"] = q[1][1]
    BY <1>1, <1>2, <1>3, <1>6
  <2>3. /\ RemoveAt(q, 1) \in Seq(Calling) /\ Len(RemoveAt(q, 1)) = Len(q) - 1
        /\ \A j \in 1..(Len(q) - 1) : RemoveAt(q, 1)[j] = q[j + 1]
    <3> HIDE DEF q
    <3>1. \A j \in 1..(Len(q) - 1) : RemoveAt(q, 1)[j] = IF j < 1 THEN q[j] ELSE q[j + 1]
      BY <2>1, Removed, Zenon
    <3>2. RemoveAt(q, 1) \in Seq(Calling) /\ Len(RemoveAt(q, 1)) = Len(q) - 1
      BY <2>1, Removed, Zenon
    <3>3. \A j \in 1..(Len(q) - 1) : ~(j < 1)
      BY <2>1
    <3> QED BY <3>1, <3>2, <3>3
  <2>4. waiter = q[1][2] /\ account = q[1][1]
    BY <1>3, <1>6
  <2>5. DOMAIN RemoveAt(q, 1) = 1..(Len(q) - 1)
    BY <2>1, <2>3
  <2>6. CASE opening \in {"reading", "peer", "saving"}
    <3>1. q[1][2] = "nobody" /\ ForNobody /\ SigningIn = {} /\ posts = <<>>
      BY <2>1, <2>6 DEF UserInv, ForNobody
    <3>2. opening' = opening
      BY <1>1, <2>4, <3>1
    <3>3. ForNobody'
      <4> HIDE DEF q
      <4>1. \A j \in 1..Len(q) : q[j][2] = "nobody"
        BY <2>1, <3>1 DEF ForNobody, q
      <4>2. \A j \in 1..(Len(q) - 1) : RemoveAt(q, 1)[j][2] = "nobody"
        BY <2>1, <2>3, <4>1
      <4> QED BY <2>2, <2>5, <4>2 DEF ForNobody
    <3> QED BY <1>1, <1>4, <2>6, <3>1, <3>2, <3>3 DEF UserInv
  <2>7. CASE opening = "user"
    <3>1. ForOpening /\ SigningIn = {} /\ posts = <<>>
      BY <2>7 DEF UserInv
    <3>2. CASE Len(q) = 1
      <4>1. q[1][2] = "opening"
        BY <3>1, <3>2 DEF ForOpening
      <4>2. opening' = "ready" /\ user' = q[1][1]
        BY <1>1, <1>6, <2>4, <4>1
      <4>3. Len(RemoveAt(q, 1)) = 0 /\ DOMAIN RemoveAt(q, 1) = {}
        BY <2>3, <2>5, <3>2
      <4>4. ForCalls'
        BY <2>2, <4>3 DEF ForCalls
      <4>5. OneSignIn'
        BY <1>4, <2>2, <3>1, <4>2, <4>3 DEF OneSignIn, HasKeys
      <4> QED BY <1>1, <3>1, <4>2, <4>4, <4>5 DEF UserInv
    <3>3. CASE Len(q) # 1
      <4>1. q[1][2] = "nobody"
        <5>1. \A j \in DOMAIN q : j < Len(q) => q[j][2] = "nobody"
          BY <3>1, Zenon DEF ForOpening
        <5> HIDE DEF q
        <5>2. 1 < Len(q)
          BY <2>1, <3>3
        <5> QED BY <2>1, <5>1, <5>2
      <4>2. opening' = opening
        BY <1>1, <2>4, <4>1
      <4>3. ForOpening'
        <5> HIDE DEF q
        <5>1. q[Len(q)][2] = "opening" /\ \A j \in 1..Len(q) : j < Len(q) => q[j][2] = "nobody"
          BY <2>1, <3>1 DEF ForOpening, q
        <5> DEFINE p == RemoveAt(q, 1)
        <5>2. Len(p) = Len(q) - 1 /\ Len(p) \in Nat /\ Len(p) >= 1 /\ p \in Seq(Calling)
          <6>1. Len(q) \in Nat /\ Len(q) >= 1 /\ Len(p) = Len(q) - 1 /\ p \in Seq(Calling)
            BY <2>1, <2>3, Zenon
          <6> HIDE DEF p
          <6> QED BY <3>3, <6>1
        <5>3. p[Len(p)][2] = "opening"
          BY <2>1, <2>3, <5>1, <5>2
        <5>4. \A j \in 1..Len(p) : j < Len(p) => p[j][2] = "nobody"
          BY <2>1, <2>3, <5>1, <5>2
        <5>5. p # <<>> /\ DOMAIN p = 1..Len(p)
          BY <5>2
        <5> HIDE DEF p
        <5>6. generating'["user"] = p
          BY <2>2 DEF p
        <5> QED BY <5>3, <5>4, <5>5, <5>6 DEF ForOpening
      <4> QED BY <1>1, <1>4, <2>7, <3>1, <4>2, <4>3 DEF UserInv
    <3> QED BY <3>2, <3>3
  <2>8. CASE opening = "ready"
    <3>1. ForCalls /\ (~mixed => OneSignIn)
      BY <2>8 DEF UserInv
    <3>2. q[1][2] = "call" /\ Busy
      BY <2>1, <3>1 DEF ForCalls, Busy, AnonSigningIn
    <3>3. opening' = "ready" /\ user' = q[1][1]
      BY <1>1, <1>6, <2>4, <2>8, <3>2
    <3>4. ForCalls'
      <4> HIDE DEF q
      <4>1. \A j \in 1..Len(q) : q[j][2] = "call"
        BY <2>1, <3>1 DEF ForCalls, q
      <4>2. \A j \in 1..(Len(q) - 1) : RemoveAt(q, 1)[j][2] = "call"
        BY <2>1, <2>3, <4>1
      <4> QED BY <2>2, <2>5, <4>2 DEF ForCalls
    <3>5. ~mixed => OneSignIn'
      <4>1. SUFFICES ASSUME ~mixed PROVE OneSignIn'
        OBVIOUS
      <4>2. SigningIn = {} /\ Len(q) = 1
        <5>1. q # <<>>
          BY <2>1
        <5>2. SigningIn = {} /\ Len(q) <= 1
          BY <3>1, <4>1, <5>1, Zenon DEF OneSignIn
        <5> HIDE DEF q
        <5> QED BY <2>1, <5>2
      <4> QED BY <1>4, <2>2, <2>3, <3>3, <4>2 DEF OneSignIn, HasKeys
    <3>6. ASSUME NEW j \in DOMAIN posts, ~posts[j].crossed PROVE PostOfUser(posts[j])'
      <4>1. PostOfUser(posts[j])
        BY <3>6 DEF UserInv
      <4>2. posts[j].stage = "sent"
        BY <3>2, <4>1 DEF PostOfUser
      <4> QED BY <1>1, <4>1, <4>2 DEF PostOfUser
    <3> QED BY <1>1, <3>3, <3>4, <3>5, <3>6 DEF UserInv
  <2> QED BY <2>6, <2>7, <2>8 DEF AccountsTypeOK
<1> QED BY <1>5, <1>6 DEF Role

\* Initialising asks for keys of the user when the peer has its account.
LEMMA OpeningUser ==
    ASSUME AccountsTypeOK, UserInv, opening \in {"reading", "peer", "saving"},
           AnonUser("user", "opening"), opening' = "user", SigningIn' = SigningIn,
           UNCHANGED posts
    PROVE  UserInv'
<1>1. ForNobody /\ SigningIn = {} /\ posts = <<>>
  BY DEF UserInv
<1> DEFINE n == Len(generating["user"])
           q == generating'["user"]
<1>2. /\ n \in Nat /\ DOMAIN generating["user"] = 1..n
      /\ Len(q) = n + 1 /\ q # <<>> /\ DOMAIN q = 1..(n + 1) /\ q[n + 1][2] = "opening"
      /\ \A i \in 1..n : q[i] = generating["user"][i]
  BY Waiters, LastAsked
<1>3. \A i \in 1..n : generating["user"][i][2] = "nobody"
  BY <1>1, <1>2 DEF ForNobody
<1>4. ForOpening'
  <2>1. q[Len(q)][2] = "opening"
    BY <1>2
  <2>2. \A i \in DOMAIN q : i < Len(q) => q[i][2] = "nobody"
    <3> HIDE DEF n, q
    <3>1. \A i \in DOMAIN q : i < Len(q) => i \in 1..n
      BY <1>2
    <3> QED BY <1>2, <1>3, <3>1 DEF n
  <2> QED BY <1>2, <2>1, <2>2 DEF ForOpening
<1> QED BY <1>1, <1>4 DEF UserInv

\* The peer is opened and saved.
LEMMA OpenPeerUser ==
    ASSUME AccountsTypeOK, UserInv, OpenPeer PROVE UserInv'
<1>1. /\ opening = "reading" /\ opening' = "peer" /\ UNCHANGED posts
  BY DEF OpenPeer
<1>2. generating'["user"] = generating["user"]
  BY DEF OpenPeer, AnonUser, AccountsTypeOK, Role
<1>3. ForNobody /\ SigningIn = {} /\ posts = <<>>
  BY <1>1 DEF UserInv
<1>4. SigningIn' = {}
  BY <1>3 DEF OpenPeer, SigningIn
<1> QED BY <1>1, <1>2, <1>3, <1>4 DEF UserInv, ForNobody

LEMMA SavePeerUser ==
    ASSUME AccountsTypeOK, UserInv, SavePeer PROVE UserInv'
<1>1. SigningIn' = SigningIn
  BY DEF SavePeer, SigningIn
<1> QED BY <1>1, OpeningUser DEF SavePeer

\* A put that is on its way is crossed by the sign-in that begins.
LEMMA AllCrossed ==
    ASSUME AccountsTypeOK, UserInv,
           posts' = [i \in DOMAIN posts |->
                        [posts[i] EXCEPT !.crossed = @ \/ posts[i].stage # "sent"]]
    PROVE  (\A i \in DOMAIN posts : ~posts[i].crossed => PostOfUser(posts[i]))'
<1> SUFFICES ASSUME NEW i \in DOMAIN posts', ~posts'[i].crossed PROVE PostOfUser(posts[i])'
  OBVIOUS
<1>1. i \in DOMAIN posts /\ posts \in Seq(Post)
  BY DEF AccountsTypeOK
<1>2. posts[i] \in Post
  BY <1>1
<1>3. posts'[i] = [posts[i] EXCEPT !.crossed = posts[i].crossed \/ posts[i].stage # "sent"]
  BY <1>1
<1>4. posts'[i].crossed = (posts[i].crossed \/ posts[i].stage # "sent")
  BY <1>2, <1>3 DEF Post
<1>5. posts'[i].stage = "sent" /\ ~posts[i].crossed /\ posts[i].stage = "sent"
  BY <1>2, <1>3, <1>4 DEF Post
<1>6. /\ posts'[i].hash = posts[i].hash /\ posts'[i].sig = posts[i].sig
      /\ posts'[i].by = posts[i].by /\ posts'[i].user = posts[i].user
  BY <1>2, <1>3 DEF Post
<1>7. PostOfUser(posts[i])
  BY <1>1, <1>5 DEF UserInv
<1> QED BY <1>5, <1>6, <1>7 DEF PostOfUser

\* A sign-in with a name or with keys.
LEMMA SignInUser ==
    ASSUME AccountsTypeOK, UserInv, NEW c, NEW u, SignIn(c, u) PROVE UserInv'
<1> DEFINE s == [call |-> c, role |-> "user", account |-> u, stage |-> "asked"]
<1>1. /\ opening = "ready" /\ setting' = setting \cup {s} /\ mixed' = (mixed \/ Busy)
      /\ UNCHANGED <<keys, address, generating, opening, user>>
  BY DEF SignIn
<1>2. ForCalls' /\ (~mixed => OneSignIn)
  BY <1>1 DEF UserInv, ForCalls
<1>3. s.role = "user" /\ s.stage = "asked"
  OBVIOUS
<1> HIDE DEF s
<1>4. SigningIn' = SigningIn \cup {s}
  BY <1>1, <1>3 DEF SigningIn
<1>5. ~mixed' => OneSignIn'
  <2>1. SUFFICES ASSUME ~mixed' PROVE OneSignIn'
    OBVIOUS
  <2>2. ~mixed /\ ~Busy
    BY <1>1, <2>1, Zenon
  <2>3. SigningIn = {} /\ OneSignIn
    BY <1>2, <2>2 DEF Busy
  <2>4. HasKeys /\ generating["user"] = <<>>
    <3>1. HasKeys
      <4>1. \A t \in setting : SigningIn # {t}
        BY <2>3
      <4> QED BY <2>3, <4>1, Zenon DEF OneSignIn
    <3>2. ForCalls
      BY <1>1 DEF UserInv
    <3>3. DOMAIN generating["user"] = {}
      BY <2>2, <3>2 DEF ForCalls, Busy, AnonSigningIn
    <3>4. Len(generating["user"]) = 0
      <4> DEFINE n == Len(generating["user"])
      <4>1. n \in Nat /\ 1..n = {}
        BY <3>3, Waiters
      <4> HIDE DEF n
      <4>2. n = 0
        BY <4>1
      <4> QED BY <4>2 DEF n
    <3> QED BY <3>1, <3>4, Waiters
  <2>5. SigningIn' = {s} /\ s \in setting'
    BY <1>1, <1>4, <2>3
  <2> QED BY <1>1, <1>3, <2>4, <2>5 DEF OneSignIn, HasKeys
<1>6. (\A i \in DOMAIN posts : ~posts[i].crossed => PostOfUser(posts[i]))'
  BY AllCrossed DEF SignIn
<1> QED BY <1>1, <1>2, <1>5, <1>6 DEF UserInv

\* An anonymous sign-in.
LEMMA AnonSignInUser ==
    ASSUME AccountsTypeOK, UserInv, AnonSignIn PROVE UserInv'
<1>1. /\ opening = "ready" /\ mixed' = (mixed \/ Busy) /\ AnonUser("user", "call")
      /\ UNCHANGED <<keys, address, setting, opening, user>>
  BY DEF AnonSignIn
<1> DEFINE n == Len(generating["user"])
           q == generating'["user"]
<1>2. /\ n \in Nat /\ DOMAIN generating["user"] = 1..n
      /\ Len(q) = n + 1 /\ DOMAIN q = 1..(n + 1) /\ q[n + 1][2] = "call"
      /\ \A i \in 1..n : q[i] = generating["user"][i]
  BY <1>1, Waiters, LastAsked
<1>3. ForCalls /\ (~mixed => OneSignIn)
  BY <1>1 DEF UserInv
<1>4. ForCalls'
  <2>1. \A i \in 1..n : q[i][2] = "call"
    BY <1>2, <1>3 DEF ForCalls
  <2> HIDE DEF n, q
  <2>2. \A i \in 1..(n + 1) : q[i][2] = "call"
    BY <1>2, <2>1
  <2> QED BY <1>2, <2>2 DEF ForCalls, q
<1>5. SigningIn' = SigningIn
  BY <1>1 DEF SigningIn
<1>6. ~mixed' => OneSignIn'
  <2>1. SUFFICES ASSUME ~mixed' PROVE OneSignIn'
    OBVIOUS
  <2>2. ~mixed /\ ~Busy
    BY <1>1, <2>1, Zenon
  <2>3. SigningIn = {} /\ OneSignIn /\ DOMAIN generating["user"] = {}
    BY <1>3, <2>2 DEF Busy, AnonSigningIn, ForCalls
  <2>4. HasKeys
    <3>1. \A s \in setting : SigningIn # {s}
      BY <2>3
    <3> QED BY <2>3, <3>1, Zenon DEF OneSignIn
  <2>5. n = 0 /\ Len(q) <= 1
    BY <1>2, <2>3
  <2> QED BY <1>1, <1>5, <2>3, <2>4, <2>5 DEF OneSignIn, HasKeys
<1>7. (\A i \in DOMAIN posts : ~posts[i].crossed => PostOfUser(posts[i]))'
  BY AllCrossed DEF AnonSignIn
<1> QED BY <1>1, <1>4, <1>6, <1>7 DEF UserInv

\* A sign-in of the user is under way only when initialising has ended.
LEMMA SigningReady ==
    ASSUME AccountsTypeOK, UserInv, NEW s \in SigningIn
    PROVE  /\ opening = "ready" /\ ForCalls /\ Busy
           /\ ~mixed => /\ generating["user"] = <<>> /\ SigningIn = {s}
                        /\ IF s.stage = "addressing" THEN keys["user"] = s.account ELSE HasKeys
           /\ \A i \in DOMAIN posts : ~posts[i].crossed => posts[i].stage = "sent"
<1>1. opening = "ready" /\ Busy
  BY DEF UserInv, AccountsTypeOK, Busy
<1>2. ForCalls /\ (~mixed => OneSignIn)
  BY <1>1 DEF UserInv
<1>3. ASSUME ~mixed
      PROVE  /\ generating["user"] = <<>> /\ SigningIn = {s}
             /\ IF s.stage = "addressing" THEN keys["user"] = s.account ELSE HasKeys
  <2>1. SigningIn # {}
    OBVIOUS
  <2>2. PICK t \in setting : /\ SigningIn = {t}
                            /\ IF t.stage = "addressing" THEN keys["user"] = t.account
                               ELSE HasKeys
    BY <1>2, <1>3, <2>1, Zenon DEF OneSignIn
  <2>3. s = t
    BY <2>2
  <2> QED BY <1>2, <1>3, <2>1, <2>2, <2>3, Zenon DEF OneSignIn
<1>4. ASSUME NEW i \in DOMAIN posts, ~posts[i].crossed PROVE posts[i].stage = "sent"
  BY <1>1, <1>4, Zenon DEF UserInv, PostOfUser
<1> QED BY <1>1, <1>2, <1>3, <1>4

\* Puts whose message is made are left as they are.
LEMMA SentKept ==
    ASSUME AccountsTypeOK, UNCHANGED posts,
           \A i \in DOMAIN posts : ~posts[i].crossed =>
              posts[i].stage = "sent" /\ PostOfUser(posts[i])
    PROVE  (\A i \in DOMAIN posts : ~posts[i].crossed => PostOfUser(posts[i]))'
<1> SUFFICES ASSUME NEW i \in DOMAIN posts', ~posts'[i].crossed PROVE PostOfUser(posts[i])'
  OBVIOUS
<1>1. posts[i].stage = "sent" /\ PostOfUser(posts[i]) /\ posts' = posts
  OBVIOUS
<1> QED BY <1>1, Zenon DEF PostOfUser

\* The steps of a sign-in of the peer do not touch the user.
LEMMA PeerSignInUser ==
    ASSUME AccountsTypeOK, AccountsInv, UserInv, ~late,
           NEW s \in setting, s.role = "peer",
           DecryptAccount(s) \/ SetKeys(s) \/ SetAddress(s)
    PROVE  UserInv'
<1>1. opening = "peer"
  BY PeerReady
<1>2. ForNobody /\ SigningIn = {} /\ posts = <<>>
  BY <1>1 DEF UserInv
<1>3. s \in Setting
  BY DEF AccountsTypeOK
<1>4. ASSUME NEW to, Proceed(s, to) PROVE SigningIn' = {}
  <2>1. [s EXCEPT !.stage = to].role = "peer"
    BY <1>3 DEF Setting
  <2> QED BY <1>2, <1>4, <2>1 DEF SigningIn, Proceed
<1>5. CASE DecryptAccount(s)
  BY <1>1, <1>2, <1>4, <1>5 DEF DecryptAccount, UserInv, ForNobody
<1>6. CASE SetKeys(s)
  BY <1>1, <1>2, <1>4, <1>6 DEF SetKeys, UserInv, ForNobody
<1>7. CASE SetAddress(s)
  <2>1. SigningIn' = SigningIn
    BY <1>2, <1>7 DEF SetAddress, SigningIn
  <2>2. opening' = "user" /\ AnonUser("user", "opening") /\ UNCHANGED posts
    BY <1>7 DEF SetAddress
  <2> QED BY <1>1, <2>1, <2>2, OpeningUser
<1> QED BY <1>5, <1>6, <1>7

\* Those of the user.
LEMMA UserSignInUser ==
    ASSUME AccountsTypeOK, UserInv, NEW s \in SigningIn,
           DecryptAccount(s) \/ SignInRejected(s) \/ SetKeys(s) \/ SetAddress(s)
    PROVE  UserInv'
<1>1. /\ s \in setting /\ s.role = "user" /\ s \in Setting
      /\ opening = "ready" /\ ForCalls
      /\ ~mixed => /\ generating["user"] = <<>> /\ SigningIn = {s}
                   /\ IF s.stage = "addressing" THEN keys["user"] = s.account ELSE HasKeys
  BY SigningReady DEF SigningIn, AccountsTypeOK
<1>2. UNCHANGED <<opening, generating, mixed, posts>>
  BY <1>1 DEF DecryptAccount, SignInRejected, SetKeys, SetAddress
<1>3. \A i \in DOMAIN posts : ~posts[i].crossed => posts[i].stage = "sent" /\ PostOfUser(posts[i])
  BY SigningReady DEF UserInv
<1>4. (\A i \in DOMAIN posts : ~posts[i].crossed => PostOfUser(posts[i]))'
  BY <1>2, <1>3, SentKept
<1>5. ForCalls'
  BY <1>1, <1>2 DEF ForCalls
<1>6. SUFFICES ASSUME ~mixed PROVE OneSignIn'
  BY <1>1, <1>2, <1>4, <1>5 DEF UserInv
<1>7. ASSUME NEW to, Proceed(s, to)
      PROVE  \E t \in setting' : SigningIn' = {t} /\ t.stage = to /\ t.account = s.account
  <2> DEFINE t == [s EXCEPT !.stage = to]
  <2>1. t.role = "user" /\ t.stage = to /\ t.account = s.account
    BY <1>1 DEF Setting
  <2> HIDE DEF t
  <2>2. setting' = (setting \ {s}) \cup {t}
    BY <1>7 DEF Proceed, t
  <2>3. SigningIn' = {t} /\ t \in setting'
    BY <1>1, <1>6, <2>1, <2>2 DEF SigningIn
  <2> QED BY <2>1, <2>3
<1>8. CASE DecryptAccount(s)
  <2>1. s.stage = "asked" /\ Proceed(s, "importing") /\ UNCHANGED <<keys, address, user>>
    BY <1>8 DEF DecryptAccount
  <2>2. HasKeys /\ HasKeys'
    BY <1>1, <1>6, <2>1 DEF HasKeys
  <2>3. PICK t \in setting' : SigningIn' = {t} /\ t.stage = "importing"
    BY <1>7, <2>1
  <2> QED BY <1>1, <1>2, <1>6, <2>2, <2>3 DEF OneSignIn
<1>9. CASE SignInRejected(s)
  <2>1. s.stage = "asked" /\ setting' = setting \ {s} /\ UNCHANGED <<keys, address, user>>
    BY <1>9 DEF SignInRejected
  <2>2. HasKeys /\ HasKeys' /\ SigningIn' = {}
    BY <1>1, <1>6, <2>1 DEF HasKeys, SigningIn
  <2>3. generating'["user"] = <<>> /\ Len(generating'["user"]) <= 1
    BY <1>1, <1>2, <1>6
  <2> QED BY <2>2, <2>3 DEF OneSignIn
<1>10. CASE SetKeys(s)
  <2>1. Proceed(s, "addressing") /\ keys' = [keys EXCEPT !["user"] = s.account]
    BY <1>1, <1>10 DEF SetKeys
  <2>2. keys'["user"] = s.account
    BY <2>1 DEF AccountsTypeOK, Role
  <2>3. PICK t \in setting' : SigningIn' = {t} /\ t.stage = "addressing" /\ t.account = s.account
    BY <1>7, <2>1
  <2> QED BY <1>1, <1>2, <1>6, <2>2, <2>3 DEF OneSignIn
<1>11. CASE SetAddress(s)
  <2>1. /\ s.stage = "addressing" /\ setting' = setting \ {s} /\ user' = s.account
        /\ address' = [address EXCEPT !["user"] = s.account] /\ keys' = keys
    BY <1>1, <1>11 DEF SetAddress
  <2>2. keys'["user"] = user' /\ address'["user"] = user'
    BY <1>1, <1>6, <2>1 DEF AccountsTypeOK, Role
  <2>3. SigningIn' = {}
    BY <1>1, <1>6, <2>1 DEF SigningIn
  <2>4. generating'["user"] = <<>> /\ Len(generating'["user"]) <= 1
    BY <1>1, <1>2, <1>6
  <2> QED BY <2>2, <2>3, <2>4 DEF OneSignIn, HasKeys
<1> QED BY <1>8, <1>9, <1>10, <1>11

\* A put is hashed.
LEMMA HashPostUser == ASSUME AccountsTypeOK, UserInv, HashPost PROVE UserInv'
<1> DEFINE p == [stage |-> "hashing", hash |-> address["user"], sig |-> NoAccount,
                 by |-> NoAccount, user |-> user, crossed |-> Busy \/ mixed]
<1>1. /\ opening = "ready" /\ posts' = Append(posts, p)
      /\ UNCHANGED <<keys, address, generating, setting, opening, user, mixed>>
  BY DEF HashPost
<1>2. /\ p.stage = "hashing" /\ p.hash = address["user"] /\ p.user = user
      /\ p.crossed = (Busy \/ mixed)
  OBVIOUS
<1> HIDE DEF p
<1>3. /\ ForCalls' = ForCalls /\ Busy' = Busy /\ HasKeys' = HasKeys /\ SigningIn' = SigningIn
      /\ OneSignIn' = OneSignIn
  BY <1>1 DEF ForCalls, Busy, AnonSigningIn, HasKeys, SigningIn, OneSignIn
<1>4. ASSUME NEW i \in DOMAIN posts', ~posts'[i].crossed PROVE PostOfUser(posts[i])'
  <2>1. posts \in Seq(Post)
    BY DEF AccountsTypeOK
  <2>2. (i \in DOMAIN posts /\ posts'[i] = posts[i]) \/ posts'[i] = p
    BY <1>1, <2>1
  <2>3. CASE i \in DOMAIN posts /\ posts'[i] = posts[i]
    <3>1. PostOfUser(posts[i])
      BY <1>4, <2>3 DEF UserInv
    <3> QED BY <1>1, <1>3, <2>3, <3>1, Zenon DEF PostOfUser
  <2>4. CASE posts'[i] = p
    <3>1. ~Busy /\ ~mixed
      BY <1>2, <1>4, <2>4, Zenon
    <3>2. SigningIn = {} /\ OneSignIn
      BY <1>1, <3>1 DEF Busy, UserInv
    <3>3. \A t \in setting : SigningIn # {t}
      BY <3>2
    <3>4. HasKeys
      BY <3>2, <3>3, Zenon DEF OneSignIn
    <3> QED BY <1>1, <1>2, <1>3, <2>4, <3>1, <3>4 DEF PostOfUser, HasKeys
  <2> QED BY <2>2, <2>3, <2>4
<1> QED BY <1>1, <1>3, <1>4 DEF UserInv

\* A put is signed, or its message made.
LEMMA NextPostUser ==
    ASSUME AccountsTypeOK, UserInv, NEW i \in DOMAIN posts, SignPost(i) \/ SendPost(i)
    PROVE  UserInv'
<1>1. UNCHANGED <<keys, address, generating, setting, opening, user, mixed>>
  BY DEF SignPost, SendPost
<1>2. /\ ForCalls' = ForCalls /\ Busy' = Busy /\ HasKeys' = HasKeys /\ SigningIn' = SigningIn
      /\ OneSignIn' = OneSignIn
  BY <1>1 DEF ForCalls, Busy, AnonSigningIn, HasKeys, SigningIn, OneSignIn
<1>3. posts \in Seq(Post) /\ posts[i] \in Post
  BY DEF AccountsTypeOK
<1>4. opening = "ready" /\ ForCalls /\ (~mixed => OneSignIn)
  <2>1. posts # <<>>
    BY <1>3
  <2> QED BY <2>1 DEF UserInv, AccountsTypeOK
<1>5. /\ DOMAIN posts' = DOMAIN posts
      /\ \A j \in DOMAIN posts : j # i => posts'[j] = posts[j]
      /\ \/ posts[i].stage = "hashing"
            /\ posts'[i] = [posts[i] EXCEPT !.stage = "signing", !.sig = keys["user"]]
         \/ posts[i].stage = "signing"
            /\ posts'[i] = [posts[i] EXCEPT !.stage = "sent", !.by = address["user"]]
  BY <1>3 DEF SignPost, SendPost
<1>6. ASSUME NEW j \in DOMAIN posts', ~posts'[j].crossed PROVE PostOfUser(posts[j])'
  <2>1. CASE j # i
    <3>1. PostOfUser(posts[j]) /\ posts'[j] = posts[j]
      BY <1>5, <1>6, <2>1 DEF UserInv
    <3> QED BY <1>1, <1>2, <3>1, Zenon DEF PostOfUser
  <2>2. CASE j = i
    <3>1. /\ posts'[i].crossed = posts[i].crossed /\ posts'[i].hash = posts[i].hash
          /\ posts'[i].user = posts[i].user
      BY <1>3, <1>5 DEF Post
    <3>2. PostOfUser(posts[i]) /\ posts[i].stage # "sent"
      BY <1>5, <1>6, <2>2, <3>1 DEF UserInv
    <3>3. /\ ~Busy /\ ~mixed /\ posts[i].hash = user /\ posts[i].user = user
          /\ posts[i].stage = "signing" => posts[i].sig = user
      BY <3>2, Zenon DEF PostOfUser
    <3>4. HasKeys
      <4>1. SigningIn = {} /\ OneSignIn
        BY <1>4, <3>3 DEF Busy
      <4>2. \A t \in setting : SigningIn # {t}
        BY <4>1
      <4> QED BY <4>1, <4>2, Zenon DEF OneSignIn
    <3>5. CASE posts[i].stage = "hashing"
      <4>1. posts'[i].stage = "signing" /\ posts'[i].sig = user
        BY <1>3, <1>5, <3>4, <3>5 DEF Post, HasKeys
      <4> QED BY <1>1, <1>2, <1>4, <2>2, <3>1, <3>3, <4>1 DEF PostOfUser
    <3>6. CASE posts[i].stage = "signing"
      <4>1. posts'[i].stage = "sent" /\ posts'[i].sig = user /\ posts'[i].by = user
        BY <1>3, <1>5, <3>3, <3>4, <3>6 DEF Post, HasKeys
      <4>2. {posts'[i].hash, posts'[i].sig, posts'[i].by} = {posts'[i].user}
        BY <3>1, <3>3, <4>1
      <4> QED BY <2>2, <4>1, <4>2, Zenon DEF PostOfUser
    <3> QED BY <1>5, <3>5, <3>6
  <2> QED BY <2>1, <2>2
<1> QED BY <1>1, <1>2, <1>4, <1>6 DEF UserInv

\* A restart begins anew.
LEMMA RestartUser == ASSUME AccountsTypeOK, RestartAccounts PROVE UserInv'
<1>1. /\ opening' = "reading" /\ setting' = {} /\ posts' = <<>>
      /\ generating'["user"] = <<<<generated + 2, "nobody">>>>
  BY DEF RestartAccounts, Constructed, Role
<1>2. ForNobody' /\ SigningIn' = {}
  BY <1>1 DEF ForNobody, SigningIn
<1> QED BY <1>1, <1>2 DEF UserInv

\* Every step keeps the invariant while keys come in order.
LEMMA UserStep ==
    ASSUME AccountsTypeOK, AccountsInv, ~late => UserInv,
           [AccountsNext]_AccountVars, ~late'
    PROVE  UserInv'
<1>1. CASE RestartAccounts
  BY <1>1, RestartUser
<1>2. CASE ~RestartAccounts
  <2>1. ~late
    BY <1>2 DEF AccountsNext, AccountVars, OpenPeer, SavePeer, AnonSignIn, HashPost,
                KeysGenerated, SignIn, DecryptAccount, SignInRejected, SetKeys, SetAddress,
                SignPost, SendPost
  <2>2. UserInv
    BY <2>1
  <2>3. CASE UNCHANGED AccountVars
    BY <2>2, <2>3, UserKept DEF AccountVars, SigningIn
  <2>4. CASE OpenPeer \/ SavePeer \/ AnonSignIn \/ HashPost
    BY <2>2, <2>4, OpenPeerUser, SavePeerUser, AnonSignInUser, HashPostUser
  <2>5. ASSUME NEW r \in Role, NEW i \in DOMAIN generating[r], KeysGenerated(r, i)
        PROVE  UserInv'
    BY <2>2, <2>5, KeysGeneratedUser
  <2>6. ASSUME NEW c, NEW u, SignIn(c, u) PROVE UserInv'
    BY <2>2, <2>6, SignInUser
  <2>7. ASSUME NEW s \in setting,
               DecryptAccount(s) \/ SignInRejected(s) \/ SetKeys(s) \/ SetAddress(s)
        PROVE  UserInv'
    <3>1. s.role \in Role
      BY DEF AccountsTypeOK, Setting
    <3>2. CASE s.role = "user"
      BY <2>2, <2>7, <3>2, UserSignInUser DEF SigningIn
    <3>3. CASE s.role = "peer"
      BY <2>1, <2>2, <2>7, <3>3, PeerSignInUser DEF SignInRejected
    <3> QED BY <3>1, <3>2, <3>3 DEF Role
  <2>8. ASSUME NEW i \in DOMAIN posts, SignPost(i) \/ SendPost(i) PROVE UserInv'
    BY <2>2, <2>8, NextPostUser
  <2> QED BY <1>2, <2>3, <2>4, <2>5, <2>6, <2>7, <2>8 DEF AccountsNext
<1> QED BY <1>1, <1>2

(***************************************************************************)
(* A put is hashed, signed and sent with one account unless a sign-in      *)
(* crosses it or keys of the peer were generated out of order, for any     *)
(* users and any number of sign-ins and puts.                              *)
(***************************************************************************)
THEOREM OneAccountPerPut == AccountsSpec => []PutsAreTheUsers
<1>1. AccountsInit => (~late => UserInv)
  <2> SUFFICES ASSUME AccountsInit PROVE UserInv
    OBVIOUS
  <2>1. /\ opening = "reading" /\ setting = {} /\ posts = <<>>
        /\ generating["user"] = <<<<2, "nobody">>>>
    BY DEF AccountsInit, Constructed, Role
  <2>2. ForNobody /\ SigningIn = {}
    BY <2>1 DEF ForNobody, SigningIn
  <2> QED BY <2>1, <2>2 DEF UserInv
<1>2. AccountsTypeOK /\ AccountsInv /\ (~late => UserInv) /\ [AccountsNext]_AccountVars
        => (~late => UserInv)'
  BY UserStep
<1>3. (~late => UserInv) => PutsAreTheUsers
  BY DEF UserInv, PostOfUser, PutsAreTheUsers
<1>4. AccountsInv /\ [AccountsNext]_AccountVars => AccountsInv'
  BY AccountsStep
<1> QED BY AccountsTyped, AccountsInvInit, <1>1, <1>2, <1>3, <1>4, PTL DEF AccountsSpec

-----------------------------------------------------------------------------
(***************************************************************************)
(* Signing up.                                                             *)
(***************************************************************************)
\* The records that were stored and sent.
Published(c) == step[c] \in {"stored", "asking", "done"}

\* A record r, or an older one, is what n holds.
Holds(n, r) == nameStore[n] # Nobody /\ signedAt[nameStore[n]] <= signedAt[r]

OnItsWay(r, n) == \E x \in nameMail : x.type = "put" /\ x.dst = n /\ x.data = r

\* A record is signed before it is stored, and stored before it is anywhere.
RecordsPublished ==
    /\ \A c \in Newcomer : step[c] = "made" \/ Published(c) => signedAt[c] > 0
    /\ \A n \in Place : nameStore[n] # Nobody => Published(nameStore[n])
    /\ \A n, m \in Place : \A r \in nameHashes[n][m] : Published(r)
    /\ \A x \in nameMail : x.type = "put" => x.data \in Newcomer /\ Published(x.data)

\* Who asks the server is who the question is of, after signing up.
QuestionsAsked ==
    \A x \in nameMail : x.type = "get" /\ x.dst = TheServer =>
        x.src = x.by /\ (x.purpose = "check" => Published(x.by))

\* A record that was sent is on its way, or an older one is held.
SentArrives ==
    /\ \A c \in Newcomer : Published(c) => OnItsWay(c, TheServer) \/ Holds(TheServer, c)
    /\ \A c \in Newcomer \ crossed : \A r \in nameHashes[TheServer][c] :
          OnItsWay(r, c) \/ Holds(c, r)

\* Whoever lost its record was told, and whoever was warned was sent the other.
LosersTold ==
    /\ \A c \in Newcomer : Published(c) /\ nameStore[c] # c => c \in resolved
    /\ \A c \in Newcomer : warned[c] # Nobody =>
          Published(c) /\ warned[c] \in nameHashes[TheServer][c]

SignUpInv == RecordsPublished /\ QuestionsAsked /\ SentArrives /\ LosersTold

\* The times of records are numbers.
LEMMA SignedAtNat ==
    ASSUME SignUpTypeOK
    PROVE  \A c \in Newcomer : signedAt[c] \in Nat
<1>1. Cardinality(Newcomer) \in Nat
  BY SignUpAssumption, FS_CardinalityType
<1> QED BY <1>1 DEF SignUpTypeOK

\* What HandleName stores is the older of what it has and what it is given.
LEMMA NameHandled ==
    ASSUME SignUpTypeOK, NEW n \in Place, NEW r \in Newcomer, HandleName(n, r),
           UNCHANGED signedAt
    PROVE  /\ nameStore' \in [Place -> Newcomer \cup {Nobody}]
           /\ \A m \in Place : m # n => nameStore'[m] = nameStore[m]
           /\ Holds(n, r)'
           /\ \A q \in Newcomer : Holds(n, q) => Holds(n, q)'
           /\ \/ nameStore'[n] = nameStore[n]
              \/ nameStore'[n] = r /\ Older(r, nameStore[n]) /\ r # nameStore[n]
<1>1. /\ nameStore \in [Place -> Newcomer \cup {Nobody}]
      /\ nameStore' = [nameStore EXCEPT ![n] = IF Older(r, nameStore[n]) THEN r ELSE nameStore[n]]
  BY DEF HandleName, SignUpTypeOK
<1>2. /\ nameStore' \in [Place -> Newcomer \cup {Nobody}]
      /\ \A m \in Place : m # n => nameStore'[m] = nameStore[m]
      /\ nameStore'[n] = IF Older(r, nameStore[n]) THEN r ELSE nameStore[n]
  BY <1>1
<1>3. signedAt[r] \in Nat /\ r # Nobody /\ signedAt' = signedAt
  BY SignedAtNat, SignUpAssumption
<1>4. nameStore[n] # Nobody => nameStore[n] \in Newcomer /\ signedAt[nameStore[n]] \in Nat
  BY <1>1, SignedAtNat
<1>5. CASE Older(r, nameStore[n])
  <2>1. nameStore'[n] = r
    BY <1>2, <1>5
  <2>2. Holds(n, r)'
    BY <1>3, <2>1 DEF Holds
  <2>3. ASSUME NEW q \in Newcomer, Holds(n, q) PROVE Holds(n, q)'
    BY <1>3, <1>4, <1>5, <2>1, <2>3, SignedAtNat DEF Holds, Older
  <2>4. r # nameStore[n]
    BY <1>3, <1>5 DEF Older
  <2> QED BY <1>2, <1>5, <2>1, <2>2, <2>3, <2>4
<1>6. CASE ~Older(r, nameStore[n])
  <2>1. nameStore'[n] = nameStore[n]
    BY <1>2, <1>6
  <2>2. Holds(n, r)'
    BY <1>3, <1>4, <1>6, <2>1 DEF Holds, Older
  <2>3. ASSUME NEW q \in Newcomer, Holds(n, q) PROVE Holds(n, q)'
    BY <1>3, <2>1, <2>3 DEF Holds
  <2> QED BY <1>2, <2>1, <2>2, <2>3
<1> QED BY <1>5, <1>6

\* Steps that leave the stores and what was sent alone, and may ask the server.
LEMMA SignUpKept ==
    ASSUME SignUpTypeOK, SignUpInv,
           UNCHANGED <<nameStore, nameHashes, resolved, warned, crossed>>,
           nameMail \subseteq nameMail',
           \A x \in nameMail' \ nameMail :
              x.type = "get" /\ x.src = x.by /\ (x.purpose = "check" => Published(x.by)'),
           \A c \in Newcomer : Published(c)' = Published(c),
           \A c \in Newcomer : Published(c) => signedAt'[c] = signedAt[c],
           \A c \in Newcomer : step'[c] = "made" => signedAt'[c] > 0
    PROVE  SignUpInv'
<1>1. /\ \A n \in Place : nameStore[n] \in Newcomer \cup {Nobody}
      /\ \A n, m \in Place : nameHashes[n][m] \subseteq Newcomer
      /\ \A c \in Newcomer : warned[c] \in Newcomer \cup {Nobody}
      /\ \A x \in nameMail : x.by \in Newcomer
      /\ Newcomer \subseteq Place /\ TheServer \in Place
  BY DEF SignUpTypeOK, NameMail, Place
<1>2. \A x \in nameMail' : x.type # "get" => x \in nameMail
  OBVIOUS
<1>3. RecordsPublished'
  BY <1>1, <1>2 DEF SignUpInv, RecordsPublished, Published
<1>4. QuestionsAsked'
  BY <1>1 DEF SignUpInv, QuestionsAsked
<1>5. /\ \A r \in Newcomer : \A n \in Place : OnItsWay(r, n) => OnItsWay(r, n)'
      /\ \A r \in Newcomer : \A n \in Place : Published(r) /\ Holds(n, r) => Holds(n, r)'
  <2>1. ASSUME NEW r \in Newcomer, NEW n \in Place, Published(r), Holds(n, r) PROVE Holds(n, r)'
    <3>1. nameStore[n] \in Newcomer /\ Published(nameStore[n])
      BY <1>1, <2>1 DEF Holds, SignUpInv, RecordsPublished
    <3> QED BY <2>1, <3>1 DEF Holds
  <2> QED BY <2>1 DEF OnItsWay
<1>6. SentArrives'
  <2>1. ASSUME NEW c \in Newcomer, Published(c)' PROVE OnItsWay(c, TheServer)' \/ Holds(TheServer, c)'
    BY <1>1, <1>5, <2>1 DEF SignUpInv, SentArrives
  <2>2. ASSUME NEW c \in Newcomer \ crossed', NEW r \in nameHashes'[TheServer][c]
        PROVE  OnItsWay(r, c)' \/ Holds(c, r)'
    <3>1. r \in Newcomer /\ Published(r)
      BY <1>1, <2>2 DEF SignUpInv, RecordsPublished
    <3> QED BY <1>1, <1>5, <2>2, <3>1 DEF SignUpInv, SentArrives
  <2> QED BY <2>1, <2>2 DEF SentArrives
<1>7. LosersTold'
  BY <1>1 DEF SignUpInv, LosersTold
<1> QED BY <1>3, <1>4, <1>6, <1>7 DEF SignUpInv

\* The look at the store, the account, the question and its timeout.
LEMMA QuietSignUp ==
    ASSUME SignUpTypeOK, SignUpInv, NEW c \in Newcomer,
           \/ CheckLocal(c) \/ MakeAccount(c) \/ CheckSignupConflicts(c)
           \/ CheckTimesOut(c) \/ Lookup(c)
    PROVE  SignUpInv'
<1> DEFINE y(purpose) == [type |-> "get", src |-> c, dst |-> TheServer, purpose |-> purpose,
                          by |-> c, data |-> Nobody]
<1>1. /\ step \in [Newcomer -> {"idle", "free", "made", "stored", "asking", "done", "refused"}]
      /\ signedAt \in [Newcomer -> 0..Cardinality(Newcomer)]
      /\ \A d \in Newcomer : step[d] = "made" => signedAt[d] > 0
  BY DEF SignUpTypeOK, SignUpInv, RecordsPublished
<1>2. ASSUME NEW purpose
      PROVE  y(purpose).type = "get" /\ y(purpose).src = y(purpose).by
             /\ y(purpose).purpose = purpose /\ y(purpose).by = c
  OBVIOUS
<1> HIDE DEF y
<1>3. CASE CheckLocal(c)
  <2>1. /\ \A d \in Newcomer : Published(d)' = Published(d)
        /\ \A d \in Newcomer : step'[d] = "made" => step[d] = "made"
    BY <1>1, <1>3 DEF CheckLocal, Published
  <2> QED BY <1>1, <1>3, <2>1, SignUpKept DEF CheckLocal, eventVars
<1>4. CASE MakeAccount(c)
  <2>1. /\ \A d \in Newcomer : Published(d)' = Published(d)
        /\ \A d \in Newcomer : step'[d] = "made" => step[d] = "made" \/ d = c
    BY <1>1, <1>4 DEF MakeAccount, Published
  <2>2. PICK t \in 1..Cardinality(Newcomer) : signedAt' = [signedAt EXCEPT ![c] = t]
    BY <1>4 DEF MakeAccount
  <2>3. ~Published(c) /\ signedAt'[c] > 0 /\ \A d \in Newcomer : d # c => signedAt'[d] = signedAt[d]
    BY <1>1, <1>4, <2>2 DEF MakeAccount, Published
  <2>4. \A d \in Newcomer : step'[d] = "made" => signedAt'[d] > 0
    BY <1>1, <2>1, <2>3
  <2>5. \A d \in Newcomer : Published(d) => signedAt'[d] = signedAt[d]
    BY <2>3
  <2> QED BY <1>4, <2>1, <2>4, <2>5, SignUpKept DEF MakeAccount, eventVars
<1>5. CASE CheckSignupConflicts(c)
  <2>1. /\ \A d \in Newcomer : Published(d)' = Published(d)
        /\ \A d \in Newcomer : step'[d] = "made" => step[d] = "made"
        /\ Published(c)'
    BY <1>1, <1>5 DEF CheckSignupConflicts, Published
  <2>2. nameMail' = nameMail \cup {y("check")}
    BY <1>5 DEF CheckSignupConflicts, Ask, y
  <2>3. \A x \in nameMail' \ nameMail :
           x.type = "get" /\ x.src = x.by /\ (x.purpose = "check" => Published(x.by)')
    BY <1>2, <2>1, <2>2
  <2> QED BY <1>1, <1>5, <2>1, <2>2, <2>3, SignUpKept DEF CheckSignupConflicts, eventVars
<1>6. CASE CheckTimesOut(c)
  <2>1. /\ \A d \in Newcomer : Published(d)' = Published(d)
        /\ \A d \in Newcomer : step'[d] = "made" => step[d] = "made"
    BY <1>1, <1>6 DEF CheckTimesOut, Published
  <2> QED BY <1>1, <1>6, <2>1, SignUpKept DEF CheckTimesOut, eventVars
<1>7. CASE Lookup(c)
  <2>1. nameMail' = nameMail \cup {y("lookup")}
    BY <1>7 DEF Lookup, Ask, y
  <2>2. \A x \in nameMail' \ nameMail :
           x.type = "get" /\ x.src = x.by /\ (x.purpose = "check" => Published(x.by)')
    BY <1>2, <2>1
  <2> QED BY <1>1, <1>7, <2>1, <2>2, SignUpKept DEF Lookup, eventVars, Published
<1> QED BY <1>3, <1>4, <1>5, <1>6, <1>7

\* A record is stored by its author and sent to the server.
LEMMA StoreSignUpStep ==
    ASSUME SignUpTypeOK, SignUpInv, NEW c \in Newcomer, StoreSignUp(c) PROVE SignUpInv'
<1> DEFINE y == [type |-> "put", src |-> c, dst |-> TheServer, purpose |-> "signup",
                 by |-> c, data |-> c]
<1>1. /\ step \in [Newcomer -> {"idle", "free", "made", "stored", "asking", "done", "refused"}]
      /\ nameStore \in [Place -> Newcomer \cup {Nobody}]
      /\ nameHashes \in [Place -> [Place -> SUBSET Newcomer]]
      /\ warned \in [Newcomer -> Newcomer \cup {Nobody}]
      /\ nameMail \subseteq NameMail
      /\ c \in Place /\ TheServer \in Place /\ c # TheServer /\ Newcomer \subseteq Place
      /\ Nobody \notin Newcomer
  BY SignUpAssumption DEF SignUpTypeOK, Place
<1>2. /\ step[c] = "made" /\ step' = [step EXCEPT ![c] = "stored"]
      /\ nameStore' = [nameStore EXCEPT ![c] = c]
      /\ crossed' = IF nameStore[c] = Nobody THEN crossed ELSE crossed \cup {c}
      /\ UNCHANGED <<signedAt, resolved, warned>>
  BY DEF StoreSignUp, eventVars
<1>3. ~Published(c) /\ signedAt[c] > 0
  BY <1>2 DEF Published, SignUpInv, RecordsPublished
<1>4. c \notin nameHashes[c][TheServer]
  BY <1>1, <1>3 DEF SignUpInv, RecordsPublished
<1>5. nameMail' = nameMail \cup {y}
  BY <1>4 DEF StoreSignUp, SendRecord
<1>6. /\ \A n, m \in Place : \A r \in nameHashes'[n][m] : r \in nameHashes[n][m] \/ r = c
      /\ \A m \in Place : nameHashes'[TheServer][m] = nameHashes[TheServer][m]
  <2>1. nameHashes' = [nameHashes EXCEPT ![c] = [m \in Place |->
            IF m \in {TheServer} THEN nameHashes[c][m] \cup {c} ELSE nameHashes[c][m]]]
    BY <1>1, <1>4 DEF StoreSignUp, SendRecord
  <2> QED BY <1>1, <2>1
<1>7. /\ y.type = "put" /\ y.data = c /\ y.dst = TheServer
  OBVIOUS
<1> HIDE DEF y
<1>8. /\ \A d \in Newcomer : Published(d) => Published(d)'
      /\ \A d \in Newcomer : Published(d)' => Published(d) \/ d = c
      /\ Published(c)'
      /\ \A d \in Newcomer : step'[d] = "made" => step[d] = "made"
  BY <1>1, <1>2 DEF Published
<1>9. nameStore'[c] = c /\ \A n \in Place : n # c => nameStore'[n] = nameStore[n]
  BY <1>1, <1>2
<1>10. RecordsPublished'
  BY <1>1, <1>2, <1>3, <1>5, <1>6, <1>7, <1>8, <1>9 DEF SignUpInv, RecordsPublished
<1>11. QuestionsAsked'
  <2>1. \A x \in nameMail : x.by \in Newcomer
    BY <1>1 DEF NameMail
  <2> QED BY <1>5, <1>7, <1>8, <2>1 DEF SignUpInv, QuestionsAsked
<1>12. /\ OnItsWay(c, TheServer)'
       /\ \A r, n : OnItsWay(r, n) => OnItsWay(r, n)'
       /\ \A r, n : n \in Place /\ n # c /\ Holds(n, r) => Holds(n, r)'
  BY <1>2, <1>5, <1>7, <1>9 DEF OnItsWay, Holds
<1>13. SentArrives'
  <2>1. ASSUME NEW d \in Newcomer, Published(d)' PROVE OnItsWay(d, TheServer)' \/ Holds(TheServer, d)'
    BY <1>1, <1>8, <1>12, <2>1 DEF SignUpInv, SentArrives
  <2>2. ASSUME NEW d \in Newcomer \ crossed', NEW r \in nameHashes'[TheServer][d]
        PROVE  OnItsWay(r, d)' \/ Holds(d, r)'
    <3>1. r \in nameHashes[TheServer][d] /\ d \notin crossed
      BY <1>1, <1>2, <1>6, <2>2
    <3>2. OnItsWay(r, d) \/ Holds(d, r)
      BY <3>1 DEF SignUpInv, SentArrives
    <3>3. CASE d = c
      <4>1. nameStore[c] = Nobody
        BY <1>2, <2>2, <3>3
      <4> QED BY <1>12, <3>2, <3>3, <4>1 DEF Holds
    <3>4. CASE d # c
      BY <1>1, <1>12, <3>2, <3>4
    <3> QED BY <3>3, <3>4
  <2> QED BY <2>1, <2>2 DEF SentArrives
<1>14. LosersTold'
  <2>1. ASSUME NEW d \in Newcomer, Published(d)', nameStore'[d] # d PROVE d \in resolved'
    BY <1>1, <1>2, <1>8, <1>9, <2>1 DEF SignUpInv, LosersTold
  <2>2. ASSUME NEW d \in Newcomer, warned'[d] # Nobody
        PROVE  Published(d)' /\ warned'[d] \in nameHashes'[TheServer][d]
    BY <1>1, <1>2, <1>6, <1>8, <2>2 DEF SignUpInv, LosersTold
  <2> QED BY <2>1, <2>2 DEF LosersTold
<1> QED BY <1>10, <1>11, <1>13, <1>14 DEF SignUpInv

\* A record that arrives is handled.
LEMMA RecordHandled ==
    ASSUME SignUpTypeOK, SignUpInv, NEW x \in nameMail, x.type = "put",
           HandleName(x.dst, x.data), nameMail' = nameMail \ {x},
           UNCHANGED <<signedAt, nameHashes, warned, crossed>>,
           \A c \in Newcomer : Published(c)' = Published(c),
           \A c \in Newcomer : step'[c] = "made" => step[c] = "made",
           resolved \subseteq resolved',
           x.dst \in Newcomer /\ nameStore[x.dst] = x.dst /\ nameStore'[x.dst] # x.dst =>
              x.dst \in resolved'
    PROVE  SignUpInv'
<1> DEFINE n == x.dst
           r == x.data
<1>1. /\ n \in Place /\ r \in Newcomer /\ Published(r)
      /\ nameHashes \in [Place -> [Place -> SUBSET Newcomer]]
      /\ warned \in [Newcomer -> Newcomer \cup {Nobody}]
      /\ nameStore \in [Place -> Newcomer \cup {Nobody}]
      /\ Newcomer \subseteq Place /\ TheServer \in Place /\ TheServer \notin Newcomer
      /\ \A y \in nameMail : y.by \in Newcomer
  BY SignUpAssumption DEF SignUpInv, RecordsPublished, SignUpTypeOK, NameMail, Place
<1>2. /\ nameStore' \in [Place -> Newcomer \cup {Nobody}]
      /\ \A m \in Place : m # n => nameStore'[m] = nameStore[m]
      /\ Holds(n, r)'
      /\ \A q \in Newcomer : Holds(n, q) => Holds(n, q)'
      /\ nameStore'[n] = nameStore[n] \/ nameStore'[n] = r
  BY <1>1, NameHandled
<1>3. \A m \in Place, q \in Newcomer : Holds(m, q) => Holds(m, q)'
  BY <1>2 DEF Holds
<1>4. \A m \in Place, q \in Newcomer : OnItsWay(q, m) => OnItsWay(q, m)' \/ Holds(m, q)'
  BY <1>2 DEF OnItsWay
<1>5. RecordsPublished'
  <2>1. ASSUME NEW m \in Place, nameStore'[m] # Nobody PROVE Published(nameStore[m])'
    BY <1>1, <1>2, <2>1 DEF SignUpInv, RecordsPublished
  <2>2. \A m, k \in Place : \A q \in nameHashes'[m][k] : Published(q)'
    BY <1>1 DEF SignUpInv, RecordsPublished
  <2>3. \A y \in nameMail' : y.type = "put" => y.data \in Newcomer /\ Published(y.data)'
    BY DEF SignUpInv, RecordsPublished
  <2>4. \A c \in Newcomer : step'[c] = "made" \/ Published(c)' => signedAt'[c] > 0
    BY DEF SignUpInv, RecordsPublished
  <2> QED BY <2>1, <2>2, <2>3, <2>4 DEF RecordsPublished
<1>6. QuestionsAsked'
  BY <1>1 DEF SignUpInv, QuestionsAsked
<1>7. SentArrives'
  <2>1. ASSUME NEW c \in Newcomer, Published(c)' PROVE OnItsWay(c, TheServer)' \/ Holds(TheServer, c)'
    BY <1>1, <1>3, <1>4, <2>1 DEF SignUpInv, SentArrives
  <2>2. ASSUME NEW c \in Newcomer \ crossed', NEW q \in nameHashes'[TheServer][c]
        PROVE  OnItsWay(q, c)' \/ Holds(c, q)'
    <3>1. q \in Newcomer /\ (OnItsWay(q, c) \/ Holds(c, q))
      BY <1>1, <2>2 DEF SignUpInv, SentArrives
    <3> QED BY <1>1, <1>3, <1>4, <3>1
  <2> QED BY <2>1, <2>2 DEF SentArrives
<1>8. LosersTold'
  <2>1. ASSUME NEW c \in Newcomer, Published(c)', nameStore'[c] # c PROVE c \in resolved'
    <3>1. CASE nameStore[c] # c
      BY <2>1, <3>1 DEF SignUpInv, LosersTold
    <3>2. CASE nameStore[c] = c
      BY <1>1, <1>2, <2>1, <3>2
    <3> QED BY <3>1, <3>2
  <2>2. ASSUME NEW c \in Newcomer, warned'[c] # Nobody
        PROVE  Published(c)' /\ warned'[c] \in nameHashes'[TheServer][c]
    BY <2>2 DEF SignUpInv, LosersTold
  <2> QED BY <2>1, <2>2 DEF LosersTold
<1> QED BY <1>5, <1>6, <1>7, <1>8 DEF SignUpInv

LEMMA ServerStoresStep ==
    ASSUME SignUpTypeOK, SignUpInv, NEW x \in nameMail, ServerStores(x) PROVE SignUpInv'
<1>1. x.dst \notin Newcomer
  BY SignUpAssumption DEF ServerStores
<1> QED BY <1>1, RecordHandled DEF ServerStores, eventVars, Published

LEMMA ClientHearsStep ==
    ASSUME SignUpTypeOK, SignUpInv, NEW x \in nameMail, ClientHears(x) PROVE SignUpInv'
<1> DEFINE c == x.dst
<1>1. x \in NameMail /\ c \in Newcomer /\ x.data \in Newcomer /\ c # Nobody /\ c \in Place
  BY SignUpAssumption DEF ClientHears, SignUpTypeOK, NameMail, Place, SignUpInv, RecordsPublished
<1>2. /\ \A d \in Newcomer : Published(d)' = Published(d)
      /\ \A d \in Newcomer : step'[d] = "made" => step[d] = "made"
  BY <1>1 DEF ClientHears, SignUpTypeOK, Published
<1>3. HandleName(c, x.data) /\ UNCHANGED <<signedAt, nameHashes, warned, crossed>>
  BY DEF ClientHears
<1>4. \/ nameStore'[c] = nameStore[c]
      \/ nameStore'[c] = x.data /\ Older(x.data, nameStore[c]) /\ x.data # nameStore[c]
  BY <1>1, <1>3, NameHandled
<1>5. nameStore[c] = c /\ nameStore'[c] # c => c \in resolved'
  BY <1>1, <1>4 DEF ClientHears
<1>6. resolved \subseteq resolved'
  BY DEF ClientHears
<1> QED BY <1>2, <1>3, <1>5, <1>6, RecordHandled DEF ClientHears

\* The server answers a question, or relays it to the other clients.
LEMMA ServerAnswersStep ==
    ASSUME SignUpTypeOK, SignUpInv, NEW x \in nameMail, ServerAnswers(x) PROVE SignUpInv'
<1> DEFINE w == nameStore[TheServer]
           c == x.src
           y == [type |-> "put", src |-> TheServer, dst |-> c, purpose |-> x.purpose,
                 by |-> x.by, data |-> w]
<1>1. /\ x.type = "get" /\ x.dst = TheServer /\ x.src = x.by /\ c \in Newcomer
      /\ x.purpose = "check" => Published(c)
      /\ w \in Newcomer \cup {Nobody} /\ TheServer \in Place /\ c \in Place
      /\ TheServer \notin Newcomer /\ Newcomer \subseteq Place
      /\ nameHashes \in [Place -> [Place -> SUBSET Newcomer]]
      /\ warned \in [Newcomer -> Newcomer \cup {Nobody}]
      /\ UNCHANGED <<nameStore, signedAt, step, resolved, crossed>>
      /\ \A z \in nameMail : z.by \in Newcomer /\ z \in NameMail
  BY SignUpAssumption
  DEF ServerAnswers, SignUpInv, QuestionsAsked, SignUpTypeOK, NameMail, Place, eventVars
<1>2. warned' = IF x.purpose = "check" THEN [warned EXCEPT ![c] = w] ELSE warned
  BY <1>1 DEF ServerAnswers
<1>3. y.type = "put" /\ y.dst = c /\ y.data = w
  OBVIOUS
<1> HIDE DEF y
\* What holds of both answers.
<1>4. /\ \A r, n : Holds(n, r)' = Holds(n, r)
      /\ \A d \in Newcomer : Published(d)' = Published(d)
  BY <1>1 DEF Holds, Published
<1>5. SUFFICES /\ \A z \in nameMail : z.type = "put" => z \in nameMail'
               /\ \A z \in nameMail' \ nameMail :
                    \/ z.type = "put" /\ z = y /\ w # Nobody
                    \/ z.type = "get" /\ z.dst # TheServer
               /\ \A n, m \in Place : \A r \in nameHashes'[n][m] :
                     r \in nameHashes[n][m] \/ (n = TheServer /\ m = c /\ r = w /\ w # Nobody)
               /\ \A n, m \in Place : nameHashes[n][m] \subseteq nameHashes'[n][m]
               /\ w # Nobody => w \in nameHashes'[TheServer][c]
               /\ w # Nobody /\ w \notin nameHashes[TheServer][c] => y \in nameMail'
  <2>1. w # Nobody => w \in Newcomer /\ Published(w)
    BY <1>1 DEF SignUpInv, RecordsPublished
  <2>2. RecordsPublished'
    <3>1. \A z \in nameMail' : z.type = "put" => z.data \in Newcomer /\ Published(z.data)
      BY <1>1, <1>3, <1>5, <2>1 DEF SignUpInv, RecordsPublished
    <3>2. \A n, m \in Place : \A r \in nameHashes'[n][m] : Published(r)
      BY <1>1, <1>5, <2>1 DEF SignUpInv, RecordsPublished
    <3> QED BY <1>1, <3>1, <3>2 DEF SignUpInv, RecordsPublished, Published
  <2>3. QuestionsAsked'
    <3>1. \A z \in nameMail' : z.type = "get" /\ z.dst = TheServer => z \in nameMail
      BY <1>3, <1>5
    <3> QED BY <1>1, <1>4, <3>1 DEF SignUpInv, QuestionsAsked
  <2>4. \A r, n : OnItsWay(r, n) => OnItsWay(r, n)'
    BY <1>5 DEF OnItsWay
  <2>5. SentArrives'
    <3>1. ASSUME NEW d \in Newcomer, Published(d)' PROVE OnItsWay(d, TheServer)' \/ Holds(TheServer, d)'
      BY <1>4, <2>4, <3>1 DEF SignUpInv, SentArrives
    <3>2. ASSUME NEW d \in Newcomer \ crossed', NEW r \in nameHashes'[TheServer][d]
          PROVE  OnItsWay(r, d)' \/ Holds(d, r)'
      <4>1. CASE r \in nameHashes[TheServer][d]
        BY <1>1, <1>4, <2>4, <3>2, <4>1 DEF SignUpInv, SentArrives
      <4>2. CASE r \notin nameHashes[TheServer][d]
        <5>1. d = c /\ r = w /\ y \in nameMail'
          BY <1>1, <1>5, <3>2, <4>2
        <5> QED BY <1>3, <5>1 DEF OnItsWay
      <4> QED BY <4>1, <4>2
    <3> QED BY <3>1, <3>2 DEF SentArrives
  <2>6. LosersTold'
    <3>1. ASSUME NEW d \in Newcomer, Published(d)', nameStore'[d] # d PROVE d \in resolved'
      BY <1>1, <1>4, <3>1 DEF SignUpInv, LosersTold
    <3>2. ASSUME NEW d \in Newcomer, warned'[d] # Nobody
          PROVE  Published(d)' /\ warned'[d] \in nameHashes'[TheServer][d]
      <4>1. CASE warned'[d] = warned[d]
        BY <1>1, <1>4, <1>5, <3>2, <4>1 DEF SignUpInv, LosersTold
      <4>2. CASE warned'[d] # warned[d]
        <5>1. d = c /\ warned'[d] = w /\ x.purpose = "check"
          BY <1>1, <1>2, <4>2
        <5> QED BY <1>1, <1>4, <1>5, <3>2, <5>1
      <4> QED BY <4>1, <4>2
    <3> QED BY <3>1, <3>2 DEF LosersTold
  <2> QED BY <2>2, <2>3, <2>5, <2>6 DEF SignUpInv
<1>6. CASE w # Nobody
  <2>1. nameMail' = (nameMail \ {x}) \cup {y} \/ (w \in nameHashes[TheServer][c] /\ nameMail' = nameMail \ {x})
    BY <1>6 DEF ServerAnswers, y
  <2>2. w \notin nameHashes[TheServer][c] => nameMail' = (nameMail \ {x}) \cup {y}
    BY <1>6 DEF ServerAnswers, y
  <2>3. nameHashes' = [nameHashes EXCEPT ![TheServer][c] = nameHashes[TheServer][c] \cup {w}]
    BY <1>6 DEF ServerAnswers
  <2>4. /\ nameHashes'[TheServer][c] = nameHashes[TheServer][c] \cup {w}
        /\ \A n, m \in Place : n # TheServer \/ m # c => nameHashes'[n][m] = nameHashes[n][m]
    BY <1>1, <2>3
  <2> QED BY <1>1, <1>3, <1>6, <2>1, <2>2, <2>4
<1>7. CASE w = Nobody
  <2> DEFINE A == {[x EXCEPT !.src = TheServer, !.dst = d] : d \in Newcomer \ {x.src}}
  <2>1. nameMail' = (nameMail \ {x}) \cup A /\ nameHashes' = nameHashes
    BY <1>7 DEF ServerAnswers
  <2>2. \A z \in A : z.type = "get" /\ z.dst # TheServer
    BY <1>1 DEF NameMail
  <2> HIDE DEF A
  <2> QED BY <1>1, <1>7, <2>1, <2>2
<1> QED BY <1>6, <1>7

\* Another client answers the server with its record, if it has one.
LEMMA ClientAnswersStep ==
    ASSUME SignUpTypeOK, SignUpInv, NEW x \in nameMail, ClientAnswers(x) PROVE SignUpInv'
<1> DEFINE n == x.dst
           r == nameStore[n]
           y == [x EXCEPT !.type = "put", !.src = n, !.dst = TheServer, !.data = r]
<1>1. /\ x \in NameMail /\ x.type = "get" /\ n \in Newcomer /\ n \in Place /\ n # TheServer
      /\ TheServer \in Place /\ Newcomer \subseteq Place /\ r \in Newcomer \cup {Nobody}
      /\ nameHashes \in [Place -> [Place -> SUBSET Newcomer]]
      /\ warned \in [Newcomer -> Newcomer \cup {Nobody}]
      /\ UNCHANGED <<nameStore, signedAt, step, resolved, crossed, warned>>
      /\ \A z \in nameMail : z.by \in Newcomer
  BY SignUpAssumption DEF ClientAnswers, SignUpTypeOK, NameMail, Place, eventVars
<1>2. y.type = "put" /\ y.data = r
  BY <1>1 DEF NameMail
<1> HIDE DEF y
<1>3. /\ \A z \in nameMail' : z \in nameMail \/ (z = y /\ r # Nobody)
      /\ \A z \in nameMail : z.type = "put" => z \in nameMail'
  <2>1. nameMail' = (nameMail \ {x}) \cup
           (IF r = Nobody \/ r \in nameHashes[n][TheServer] THEN {} ELSE {y})
    BY DEF ClientAnswers, y
  <2> QED BY <1>1, <2>1
<1>4. /\ \A k, m \in Place : \A q \in nameHashes'[k][m] : q \in nameHashes[k][m] \/ (q = r /\ r # Nobody)
      /\ nameHashes'[TheServer] = nameHashes[TheServer]
  <2>1. \/ nameHashes' = nameHashes
        \/ /\ r # Nobody
           /\ nameHashes' = [nameHashes EXCEPT ![n][TheServer] = nameHashes[n][TheServer] \cup {r}]
    BY DEF ClientAnswers
  <2> QED BY <1>1, <2>1, SMTT(30)
<1>5. r # Nobody => r \in Newcomer /\ Published(r)
  BY <1>1 DEF SignUpInv, RecordsPublished
<1>6. /\ \A q, m : Holds(m, q)' = Holds(m, q)
      /\ \A d \in Newcomer : Published(d)' = Published(d)
      /\ \A q, m : OnItsWay(q, m) => OnItsWay(q, m)'
  BY <1>1, <1>3 DEF Holds, Published, OnItsWay
<1>7. RecordsPublished'
  <2>1. \A z \in nameMail' : z.type = "put" => z.data \in Newcomer /\ Published(z.data)
    BY <1>2, <1>3, <1>5 DEF SignUpInv, RecordsPublished
  <2>2. \A k, m \in Place : \A q \in nameHashes'[k][m] : Published(q)
    BY <1>4, <1>5 DEF SignUpInv, RecordsPublished
  <2> QED BY <1>1, <2>1, <2>2 DEF SignUpInv, RecordsPublished, Published
<1>8. QuestionsAsked'
  BY <1>1, <1>2, <1>3, <1>6 DEF SignUpInv, QuestionsAsked
<1>9. SentArrives'
  <2>1. ASSUME NEW d \in Newcomer, Published(d)' PROVE OnItsWay(d, TheServer)' \/ Holds(TheServer, d)'
    BY <1>6, <2>1 DEF SignUpInv, SentArrives
  <2>2. ASSUME NEW d \in Newcomer \ crossed', NEW q \in nameHashes'[TheServer][d]
        PROVE  OnItsWay(q, d)' \/ Holds(d, q)'
    BY <1>1, <1>4, <1>6, <2>2 DEF SignUpInv, SentArrives
  <2> QED BY <2>1, <2>2 DEF SentArrives
<1>10. LosersTold'
  <2>1. ASSUME NEW d \in Newcomer, Published(d)', nameStore'[d] # d PROVE d \in resolved'
    BY <1>1, <1>6, <2>1 DEF SignUpInv, LosersTold
  <2>2. ASSUME NEW d \in Newcomer, warned'[d] # Nobody
        PROVE  Published(d)' /\ warned'[d] \in nameHashes'[TheServer][d]
    BY <1>1, <1>4, <1>6, <2>2 DEF SignUpInv, LosersTold
  <2> QED BY <2>1, <2>2 DEF LosersTold
<1> QED BY <1>7, <1>8, <1>9, <1>10 DEF SignUpInv

\* Every step keeps the invariant.
LEMMA SignUpStep ==
    ASSUME SignUpTypeOK, SignUpInv, [SignUpNext]_SignUpVars PROVE SignUpInv'
<1>1. CASE UNCHANGED SignUpVars
  BY <1>1, SignUpKept DEF SignUpVars, Published, SignUpInv, RecordsPublished
<1>2. ASSUME NEW c \in Newcomer,
             \/ CheckLocal(c) \/ MakeAccount(c) \/ StoreSignUp(c)
             \/ CheckSignupConflicts(c) \/ CheckTimesOut(c) \/ Lookup(c)
      PROVE  SignUpInv'
  BY <1>2, QuietSignUp, StoreSignUpStep
<1>3. ASSUME NEW x \in nameMail,
             ServerStores(x) \/ ServerAnswers(x) \/ ClientAnswers(x) \/ ClientHears(x)
      PROVE  SignUpInv'
  BY <1>3, ServerStoresStep, ServerAnswersStep, ClientAnswersStep, ClientHearsStep
<1> QED BY <1>1, <1>2, <1>3 DEF SignUpNext

\* Every step keeps the types.
LEMMA SignUpTypeStep ==
    ASSUME SignUpTypeOK, SignUpInv, SignUpInv', [SignUpNext]_SignUpVars PROVE SignUpTypeOK'
<1>0. /\ nameStore \in [Place -> Newcomer \cup {Nobody}]
      /\ signedAt \in [Newcomer -> 0..Cardinality(Newcomer)]
      /\ step \in [Newcomer -> {"idle", "free", "made", "stored", "asking", "done", "refused"}]
      /\ conflict \cup resolved \cup crossed \subseteq Newcomer
      /\ nameMail \subseteq NameMail
      /\ nameHashes \in [Place -> [Place -> SUBSET Newcomer]]
      /\ lookups \in 0..MaxLookups
      /\ warned \in [Newcomer -> Newcomer \cup {Nobody}]
      /\ Newcomer \subseteq Place /\ TheServer \in Place
  BY DEF SignUpTypeOK, Place
<1> DEFINE Tables ==
             /\ nameStore \in [Place -> Newcomer \cup {Nobody}]
             /\ signedAt \in [Newcomer -> 0..Cardinality(Newcomer)]
             /\ step \in [Newcomer -> {"idle", "free", "made", "stored", "asking", "done", "refused"}]
             /\ conflict \cup resolved \cup crossed \subseteq Newcomer
             /\ nameMail \subseteq NameMail
             /\ nameHashes \in [Place -> [Place -> SUBSET Newcomer]]
             /\ lookups \in 0..MaxLookups
             /\ warned \in [Newcomer -> Newcomer \cup {Nobody}]
<1>1. SUFFICES Tables'
  BY DEF SignUpTypeOK, SignUpInv, RecordsPublished
<1>2. ASSUME NEW c \in Newcomer, NEW purpose \in {"check", "lookup"}, Ask(c, purpose)
      PROVE  nameMail' \subseteq NameMail
  BY <1>0, <1>2 DEF Ask, NameMail
<1>3. CASE UNCHANGED SignUpVars
  BY <1>0, <1>3 DEF SignUpVars
<1>4. ASSUME NEW c \in Newcomer,
             CheckLocal(c) \/ MakeAccount(c) \/ CheckSignupConflicts(c) \/ CheckTimesOut(c)
      PROVE  Tables'
  <2>1. CASE CheckLocal(c)
    BY <1>0, <2>1 DEF CheckLocal, eventVars
  <2>2. CASE MakeAccount(c)
    <3>1. PICK t \in 1..Cardinality(Newcomer) : signedAt' = [signedAt EXCEPT ![c] = t]
      BY <2>2 DEF MakeAccount
    <3>2. t \in 0..Cardinality(Newcomer)
      BY SignUpAssumption, FS_CardinalityType
    <3>3. signedAt' \in [Newcomer -> 0..Cardinality(Newcomer)]
      BY <1>0, <3>1, <3>2
    <3> QED BY <1>0, <2>2, <3>3 DEF MakeAccount, eventVars
  <2>3. CASE CheckSignupConflicts(c)
    BY <1>0, <1>2, <2>3 DEF CheckSignupConflicts, eventVars
  <2>4. CASE CheckTimesOut(c)
    BY <1>0, <2>4 DEF CheckTimesOut, eventVars
  <2> QED BY <1>4, <2>1, <2>2, <2>3, <2>4
<1>5. ASSUME NEW c \in Newcomer, Lookup(c) PROVE Tables'
  <2>1. lookups' \in 0..MaxLookups
    BY <1>0, <1>5, SignUpAssumption DEF Lookup
  <2> QED BY <1>0, <1>2, <1>5, <2>1 DEF Lookup, eventVars
<1>6. ASSUME NEW c \in Newcomer, StoreSignUp(c) PROVE Tables'
  <2>1. nameMail' \subseteq NameMail
    BY <1>0, <1>6 DEF StoreSignUp, SendRecord, NameMail
  <2>2. nameHashes' \in [Place -> [Place -> SUBSET Newcomer]]
    <3> DEFINE h == [m \in Place |-> IF m \in {k \in {TheServer} : c \notin nameHashes[c][k]}
                                    THEN nameHashes[c][m] \cup {c} ELSE nameHashes[c][m]]
    <3>1. nameHashes' = [nameHashes EXCEPT ![c] = h]
      BY <1>0, <1>6 DEF StoreSignUp, SendRecord
    <3>2. h \in [Place -> SUBSET Newcomer]
      BY <1>0
    <3> HIDE DEF h
    <3> QED BY <1>0, <3>1, <3>2
  <2>3. /\ nameStore' \in [Place -> Newcomer \cup {Nobody}]
        /\ step' \in [Newcomer -> {"idle", "free", "made", "stored", "asking", "done", "refused"}]
        /\ crossed' \subseteq Newcomer
    BY <1>0, <1>6 DEF StoreSignUp
  <2> QED BY <1>0, <1>6, <2>1, <2>2, <2>3 DEF StoreSignUp, eventVars
<1>7. ASSUME NEW x \in nameMail, ServerStores(x) \/ ClientHears(x) PROVE Tables'
  <2>1. x.dst \in Place /\ x.data \in Newcomer
    BY <1>0, <1>7 DEF NameMail, ServerStores, ClientHears, SignUpInv, RecordsPublished
  <2>2. nameStore' \in [Place -> Newcomer \cup {Nobody}] /\ nameMail' \subseteq NameMail
    BY <1>0, <1>7, <2>1, NameHandled DEF ServerStores, ClientHears
  <2>3. CASE ServerStores(x)
    BY <1>0, <2>2, <2>3 DEF ServerStores, eventVars
  <2>4. CASE ClientHears(x)
    <3>1. x.dst \in Newcomer
      BY <2>1, <2>4 DEF ClientHears, Place
    <3>2. /\ step' \in [Newcomer -> {"idle", "free", "made", "stored", "asking", "done", "refused"}]
          /\ conflict' \cup resolved' \subseteq Newcomer
      BY <1>0, <2>4, <3>1 DEF ClientHears
    <3> QED BY <1>0, <2>2, <2>4, <3>2 DEF ClientHears
  <2> QED BY <1>7, <2>3, <2>4
<1>8. ASSUME NEW x \in nameMail, ServerAnswers(x) \/ ClientAnswers(x) PROVE Tables'
  <2>1. /\ x \in NameMail /\ x.src \in Place /\ x.dst \in Place /\ x.by \in Newcomer
        /\ x.purpose \in {"signup", "check", "lookup"}
    BY <1>0 DEF NameMail
  <2>2. ASSUME NEW n \in Place, NEW m \in Place, NEW r \in Newcomer,
               nameHashes' = [nameHashes EXCEPT ![n][m] = nameHashes[n][m] \cup {r}]
        PROVE  nameHashes' \in [Place -> [Place -> SUBSET Newcomer]]
    BY <1>0, <2>2
  <2>3. CASE ServerAnswers(x)
    <3>1. warned' \in [Newcomer -> Newcomer \cup {Nobody}]
      BY <1>0, <2>1, <2>3 DEF ServerAnswers
    <3>2. CASE nameStore[TheServer] # Nobody
      <4>1. nameStore[TheServer] \in Newcomer
        BY <1>0, <3>2
      <4> DEFINE y == [type |-> "put", src |-> TheServer, dst |-> x.src, purpose |-> x.purpose,
                       by |-> x.by, data |-> nameStore[TheServer]]
      <4>2. nameMail' \subseteq NameMail
        <5>1. y \in NameMail
          BY <1>0, <2>1, <4>1 DEF NameMail
        <5>2. nameMail' \subseteq nameMail \cup {y}
          BY <2>3, <3>2 DEF ServerAnswers
        <5> QED BY <1>0, <5>1, <5>2
      <4>3. nameHashes' \in [Place -> [Place -> SUBSET Newcomer]]
        <5>1. nameHashes' = [nameHashes EXCEPT ![TheServer][x.src] =
                                nameHashes[TheServer][x.src] \cup {nameStore[TheServer]}]
          BY <2>3, <3>2 DEF ServerAnswers
        <5> QED BY <1>0, <2>1, <2>2, <4>1, <5>1
      <4> QED BY <1>0, <2>3, <3>1, <4>2, <4>3 DEF ServerAnswers, eventVars
    <3>3. CASE nameStore[TheServer] = Nobody
      <4>1. \A c \in Newcomer : [x EXCEPT !.src = TheServer, !.dst = c] \in NameMail
        BY <1>0, <2>1 DEF NameMail
      <4>2. nameMail' = (nameMail \ {x}) \cup
                  {[x EXCEPT !.src = TheServer, !.dst = c] : c \in Newcomer \ {x.src}}
            /\ nameHashes' = nameHashes
        BY <2>3, <3>3 DEF ServerAnswers
      <4>3. nameMail' \subseteq NameMail
        BY <1>0, <4>1, <4>2
      <4> QED BY <1>0, <2>3, <3>1, <4>2, <4>3 DEF ServerAnswers, eventVars
    <3> QED BY <3>2, <3>3
  <2>4. CASE ClientAnswers(x)
    <3>1. \A r \in Newcomer :
             [x EXCEPT !.type = "put", !.src = x.dst, !.dst = TheServer, !.data = r] \in NameMail
      BY <1>0, <2>1 DEF NameMail
    <3>2. nameStore[x.dst] # Nobody => nameStore[x.dst] \in Newcomer
      BY <1>0, <2>1
    <3>3. nameMail' \subseteq NameMail
      BY <1>0, <2>4, <3>1, <3>2 DEF ClientAnswers
    <3>4. nameHashes' \in [Place -> [Place -> SUBSET Newcomer]]
      BY <1>0, <2>1, <2>2, <2>4, <3>2 DEF ClientAnswers
    <3> QED BY <1>0, <2>4, <3>3, <3>4 DEF ClientAnswers, eventVars
  <2> QED BY <1>8, <2>3, <2>4
<1> QED BY <1>3, <1>4, <1>5, <1>6, <1>7, <1>8 DEF SignUpNext

\* Nobody has signed up at first.
LEMMA SignUpBegins == SignUpInit => SignUpTypeOK /\ SignUpInv
<1> SUFFICES ASSUME SignUpInit PROVE SignUpTypeOK /\ SignUpInv
  OBVIOUS
<1>1. 0 \in 0..Cardinality(Newcomer) /\ 0 \in 0..MaxLookups
  BY SignUpAssumption, FS_CardinalityType
<1>2. SignUpTypeOK
  BY <1>1 DEF SignUpInit, SignUpTypeOK
<1>3. SignUpInv
  BY DEF SignUpInit, SignUpInv, RecordsPublished, QuestionsAsked, SentArrives, LosersTold,
         Published, Place
<1> QED BY <1>2, <1>3

(***************************************************************************)
(* The state of signing up keeps its type, for any number of newcomers and *)
(* questions.                                                              *)
(***************************************************************************)
THEOREM SignUpTyped == SignUpSpec => []SignUpTypeOK
<1>1. SignUpTypeOK /\ SignUpInv /\ [SignUpNext]_SignUpVars => (SignUpTypeOK /\ SignUpInv)'
  BY SignUpStep, SignUpTypeStep
<1> QED BY SignUpBegins, <1>1, PTL DEF SignUpSpec

(***************************************************************************)
(* The first to sign up owns the name at the server, and a newcomer that   *)
(* the server met with an older record has lost its own and was told.      *)
(***************************************************************************)
THEOREM FirstOwnsName == SignUpSpec => []OneOwner
<1>1. SignUpTypeOK /\ SignUpInv /\ [SignUpNext]_SignUpVars => (SignUpTypeOK /\ SignUpInv)'
  BY SignUpStep, SignUpTypeStep
<1>2. SignUpTypeOK /\ SignUpInv => OneOwner
  <2> SUFFICES ASSUME SignUpTypeOK, SignUpInv, nameMail = {}
               PROVE  /\ \A c \in Newcomer : Published(c) =>
                            signedAt[nameStore[TheServer]] <= signedAt[c]
                      /\ \A c \in Newcomer \ crossed :
                            warned[c] # Nobody /\ Older(warned[c], c) =>
                                nameStore[c] # c /\ c \in conflict \cup resolved
    BY DEF OneOwner, Published
  <2>1. \A r, n : ~OnItsWay(r, n)
    BY DEF OnItsWay
  <2>2. ASSUME NEW c \in Newcomer, Published(c)
        PROVE  signedAt[nameStore[TheServer]] <= signedAt[c]
    BY <2>1, <2>2 DEF SignUpInv, SentArrives, Holds
  <2>3. ASSUME NEW c \in Newcomer \ crossed, warned[c] # Nobody, Older(warned[c], c)
        PROVE  nameStore[c] # c /\ c \in conflict \cup resolved
    <3>1. Published(c) /\ Holds(c, warned[c])
      BY <2>1, <2>3 DEF SignUpInv, LosersTold, SentArrives
    <3>2. c \in Place /\ c # Nobody /\ warned[c] \in Newcomer
      BY <2>3, SignUpAssumption DEF SignUpTypeOK, Place
    <3>3. nameStore[c] \in Newcomer
      BY <3>1, <3>2 DEF SignUpTypeOK, Holds
    <3>4. nameStore[c] # c
      BY <2>3, <3>1, <3>2, <3>3, SignedAtNat DEF Holds, Older
    <3> QED BY <3>1, <3>4 DEF SignUpInv, LosersTold
  <2> QED BY <2>2, <2>3
<1> QED BY SignUpBegins, <1>1, <1>2, PTL DEF SignUpSpec

-----------------------------------------------------------------------------
\* The keys in the stores of the peers in S.
KeysHeld(S) == UNION {KeysOf[n] : n \in S}

\* f has a value for each call.
IsTable(f) == f = [i \in CallId |-> f[i]]

Tables == IsTable(begun) /\ IsTable(stage) /\ IsTable(found)
          /\ IsTable(outcome) /\ IsTable(answers)

\* A message is of the kind of its call, and an answer to a query is honest.
MessageOK(x) ==
    /\ x.id \in CallId
    /\ \/ Asks(x.id, "query") /\ x.type \in {"query", "queryAck"}
       \/ Asks(x.id, "function") /\ x.type \in {"function", "functionReturn"}
       \/ Asks(x.id, "crdtGet") /\ x.type \in {"crdtGet", "crdtPut"}
    /\ x.type = "queryAck" => x.body = KeysOf[x.src]

\* The own keys are among the found ones once the store has answered.
Sources(i) == answers[i] \cup (IF i \in gotKeys THEN {begun[i][2]} ELSE {})

\* A call that was not made is blank; the timer of a query runs only once the
\* own keys are found; what was found until it settles is from its sources.
CallOK(i) ==
    /\ begun[i] = <<>> => /\ found[i] = {} /\ answers[i] = {} /\ stage[i] = {}
                          /\ outcome[i] = Unsettled /\ i \notin timing \cup gotKeys
    /\ begun[i] # <<>> => begun[i][1] \in {"query", "function", "crdtGet"}
    /\ "last" \in stage[i] => Asks(i, "crdtGet")
    /\ Asks(i, "query") =>
          /\ i \in timing => i \in gotKeys
          /\ IF outcome[i] = Unsettled THEN found[i] = KeysHeld(Sources(i))
             ELSE outcome[i] = KeysHeld(answers[i] \cup {begun[i][2]})

CallsInv ==
    /\ Tables
    /\ \A x \in mail \cup handlers : MessageOK(x)
    /\ \A i \in CallId : CallOK(i)

-----------------------------------------------------------------------------
\* Keys of one source more.
LEMMA HeldAdds ==
    /\ KeysHeld({}) = {}
    /\ \A S, n : KeysHeld(S \cup {n}) = KeysHeld(S) \cup KeysOf[n]
BY DEF KeysHeld

\* A call is no empty sequence and has one of three types.
LEMMA CallsMade == ASSUME NEW c \in Call
                   PROVE  c # <<>> /\ c[1] \in {"query", "function", "crdtGet"}
<1>1. PICK t \in {"query", "function", "crdtGet"}, n \in Peer : c = <<t, n>>
  BY CallsAssumption
<1>2. Len(<<t, n>>) = 2 /\ Len(<<>>) = 0
  OBVIOUS
<1> QED BY <1>1, <1>2

\* Questions have the type and the id of the call.
LEMMA Relayed ==
    ASSUME NEW type, NEW n, NEW i, NEW to, NEW among, NEW y \in Questions(type, n, i, to, among)
    PROVE  y.type = type /\ y.id = i
<1>1. PICK m : y = [type |-> type, src |-> n, dst |-> m, id |-> i, to |-> to \cup {n}, body |-> {}]
  BY DEF Questions
<1> QED BY <1>1

\* A call that nothing happens to stays as it is.
LEMMA CallKept ==
    ASSUME NEW i, CallOK(i),
           begun'[i] = begun[i], stage'[i] = stage[i], found'[i] = found[i],
           outcome'[i] = outcome[i], answers'[i] = answers[i],
           i \in timing' <=> i \in timing, i \in gotKeys' <=> i \in gotKeys
    PROVE  CallOK(i)'
BY DEF CallOK, Asks, Sources, KeysHeld

\* A call of another kind than a query has only to stay begun.
LEMMA OtherCallKept ==
    ASSUME NEW i, CallOK(i), begun'[i] = begun[i], begun[i] # <<>>, ~Asks(i, "query"),
           "last" \in stage'[i] => "last" \in stage[i] \/ Asks(i, "crdtGet")
    PROVE  CallOK(i)'
BY DEF CallOK, Asks

\* A message stays of its kind while its call stays begun.
LEMMA MessageKept ==
    ASSUME NEW x, MessageOK(x), begun'[x.id] = begun[x.id] PROVE MessageOK(x)'
BY DEF MessageOK, Asks

\* resolve changes its own entry only, and only when it was not settled.
LEMMA Resolved ==
    ASSUME NEW i \in CallId, NEW value, IsTable(outcome), Resolve(i, value)
    PROVE  /\ IsTable(outcome')
           /\ outcome'[i] = IF outcome[i] = Unsettled THEN value ELSE outcome[i]
           /\ \A j \in CallId \ {i} : outcome'[j] = outcome[j]
BY DEF Resolve, IsTable

-----------------------------------------------------------------------------
\* Nobody has asked anything yet.
LEMMA CallsInvInit == CallsInit => CallsInv
<1> SUFFICES ASSUME CallsInit PROVE CallsInv
  OBVIOUS
<1>1. Tables /\ mail \cup handlers = {}
  BY DEF CallsInit, Tables, IsTable
<1>2. ASSUME NEW i \in CallId PROVE CallOK(i)
  BY DEF CallsInit, CallOK, Asks
<1> QED BY <1>1, <1>2 DEF CallsInv

(***************************************************************************)
(* A step that settles, finds and answers nothing keeps the invariant if   *)
(* its new messages are of their kind.                                     *)
(***************************************************************************)
LEMMA MessagesOnly ==
    ASSUME CallsInv, UNCHANGED askVars,
           \A x \in (mail' \cup handlers') \ (mail \cup handlers) : MessageOK(x)
    PROVE  CallsInv'
<1>1. Tables'
  BY DEF CallsInv, Tables, IsTable, askVars
<1>2. \A x \in mail' \cup handlers' : MessageOK(x)'
  BY MessageKept DEF CallsInv, askVars
<1>3. \A i \in CallId : CallOK(i)'
  BY CallKept DEF CallsInv, askVars
<1> QED BY <1>1, <1>2, <1>3 DEF CallsInv

\* A call begins with questions of its kind, and with nothing found.
LEMMA BeginStep ==
    ASSUME CallsInv, NEW i \in CallId, NEW c \in Call, Begin(i, c) PROVE CallsInv'
<1>1. /\ begun[i] = <<>> /\ begun' = [begun EXCEPT ![i] = c]
      /\ timing' = IF c[1] = "query" THEN timing ELSE timing \cup {i}
      /\ stage' = IF c[1] = "function" THEN stage ELSE [stage EXCEPT ![i] = {"first"}]
      /\ mail' = mail \cup Questions(c[1], c[2], i, {}, Peer)
      /\ UNCHANGED <<handlers, gotKeys, found, outcome, answers>>
  BY DEF Begin
<1>2. /\ IsTable(begun') /\ begun'[i] = c
      /\ \A j \in CallId \ {i} : begun'[j] = begun[j]
  BY <1>1 DEF CallsInv, Tables, IsTable
<1>3. /\ IsTable(stage')
      /\ stage'[i] = {"first"} \/ stage'[i] = stage[i]
      /\ \A j \in CallId \ {i} : stage'[j] = stage[j]
  BY <1>1 DEF CallsInv, Tables, IsTable
<1>4. Tables'
  BY <1>1, <1>2, <1>3 DEF CallsInv, Tables, IsTable
<1>5. ASSUME NEW x \in mail' \cup handlers' PROVE MessageOK(x)'
  <2>1. CASE x \in mail \cup handlers
    <3>1. MessageOK(x) /\ begun'[x.id] = begun[x.id]
      BY <1>1, <1>2, <2>1 DEF CallsInv, MessageOK, Asks
    <3> QED BY <3>1, MessageKept
  <2>2. CASE x \in Questions(c[1], c[2], i, {}, Peer)
    <3>1. x.type = c[1] /\ x.id = i
      BY <2>2, Relayed
    <3> QED BY <1>2, <3>1, CallsMade DEF MessageOK, Asks
  <2> QED BY <1>1, <2>1, <2>2
<1>6. CallOK(i)'
  <2>1. /\ found[i] = {} /\ answers[i] = {} /\ stage[i] = {}
        /\ outcome[i] = Unsettled /\ i \notin timing \cup gotKeys
    BY <1>1 DEF CallsInv, CallOK
  <2>2. "last" \notin stage'[i]
    BY <1>3, <2>1
  <2>3. c[1] = "query" => i \notin timing'
    BY <1>1, <2>1
  <2>4. found'[i] = KeysHeld(Sources(i))'
    BY <1>1, <2>1, HeldAdds DEF Sources, KeysHeld
  <2> QED BY <1>1, <1>2, <2>1, <2>2, <2>3, <2>4, CallsMade DEF CallOK, Asks
<1>7. ASSUME NEW j \in CallId \ {i} PROVE CallOK(j)'
  BY <1>1, <1>2, <1>3, <1>7, CallKept DEF CallsInv
<1> QED BY <1>4, <1>5, <1>6, <1>7 DEF CallsInv

(***************************************************************************)
(* A step of one call that sends nothing.                                  *)
(***************************************************************************)
LEMMA OneCall ==
    ASSUME CallsInv, NEW i \in CallId, UNCHANGED <<mail, handlers, begun>>,
           Tables', CallOK(i)',
           \A j \in CallId \ {i} :
              /\ stage'[j] = stage[j] /\ found'[j] = found[j]
              /\ outcome'[j] = outcome[j] /\ answers'[j] = answers[j]
              /\ (j \in timing' <=> j \in timing) /\ (j \in gotKeys' <=> j \in gotKeys)
    PROVE  CallsInv'
<1>1. \A x \in mail' \cup handlers' : MessageOK(x)'
  BY MessageKept DEF CallsInv
<1>2. \A j \in CallId \ {i} : CallOK(j)'
  BY CallKept DEF CallsInv
<1> QED BY <1>1, <1>2 DEF CallsInv

\* The keys of the store join those found.
LEMMA LocalKeysStep ==
    ASSUME CallsInv, NEW i \in CallId, LocalKeys(i) PROVE CallsInv'
<1>1. /\ Asks(i, "query") /\ stage' = [stage EXCEPT ![i] = {}]
      /\ gotKeys' = gotKeys \cup {i} /\ timing' = timing \cup {i}
      /\ found' = [found EXCEPT ![i] = found[i] \cup KeysOf[begun[i][2]]]
      /\ UNCHANGED <<mail, handlers, begun, outcome, answers>>
  BY DEF LocalKeys
<1>2. /\ IsTable(stage') /\ stage'[i] = {}
      /\ \A j \in CallId \ {i} : stage'[j] = stage[j]
  BY <1>1 DEF CallsInv, Tables, IsTable
<1>3. /\ IsTable(found') /\ found'[i] = found[i] \cup KeysOf[begun[i][2]]
      /\ \A j \in CallId \ {i} : found'[j] = found[j]
  BY <1>1 DEF CallsInv, Tables, IsTable
<1>4. Tables'
  BY <1>1, <1>2, <1>3 DEF CallsInv, Tables, IsTable
<1>5. CallOK(i)'
  <2>1. outcome[i] = Unsettled => found[i] = KeysHeld(Sources(i))
    BY <1>1 DEF CallsInv, CallOK
  <2>2. KeysHeld(Sources(i))' = KeysHeld(Sources(i)) \cup KeysOf[begun[i][2]]
    BY <1>1 DEF Sources, KeysHeld
  <2> QED BY <1>1, <1>2, <1>3, <2>1, <2>2 DEF CallsInv, CallOK, Asks, KeysHeld
<1> QED BY <1>1, <1>2, <1>3, <1>4, <1>5, OneCall

\* The first read concerns reads of documents only.
LEMMA FirstDocumentStep ==
    ASSUME CallsInv, NEW i \in CallId, FirstDocument(i) PROVE CallsInv'
<1>1. /\ Asks(i, "crdtGet") /\ stage' = [stage EXCEPT ![i] = stage[i] \ {"first"}]
      /\ timing' \in {timing, timing \ {i}}
      /\ UNCHANGED outcome \/ Resolve(i, {"document"})
      /\ UNCHANGED <<mail, handlers, begun, gotKeys, found, answers>>
  BY DEF FirstDocument
<1>2. /\ IsTable(stage') /\ stage'[i] = stage[i] \ {"first"}
      /\ \A j \in CallId \ {i} : stage'[j] = stage[j]
  BY <1>1 DEF CallsInv, Tables, IsTable
<1>3. IsTable(outcome') /\ \A j \in CallId \ {i} : outcome'[j] = outcome[j]
  BY <1>1, Resolved DEF CallsInv, Tables
<1>4. Tables'
  BY <1>1, <1>2, <1>3 DEF CallsInv, Tables, IsTable
<1>5. CallOK(i)'
  BY <1>1, <1>2, OtherCallKept DEF CallsInv, Asks
<1> QED BY <1>1, <1>2, <1>3, <1>4, <1>5, OneCall

\* So does the last.
LEMMA LastDocumentStep ==
    ASSUME CallsInv, NEW i \in CallId, LastDocument(i) PROVE CallsInv'
<1>1. PICK v : /\ "last" \in stage[i] /\ stage' = [stage EXCEPT ![i] = stage[i] \ {"last"}]
               /\ Resolve(i, v)
               /\ UNCHANGED <<mail, handlers, begun, timing, gotKeys, found, answers>>
  BY DEF LastDocument
<1>2. /\ IsTable(stage') /\ stage'[i] = stage[i] \ {"last"}
      /\ \A j \in CallId \ {i} : stage'[j] = stage[j]
  BY <1>1 DEF CallsInv, Tables, IsTable
<1>3. IsTable(outcome') /\ \A j \in CallId \ {i} : outcome'[j] = outcome[j]
  BY <1>1, Resolved DEF CallsInv, Tables
<1>4. Tables'
  BY <1>1, <1>2, <1>3 DEF CallsInv, Tables, IsTable
<1>5. Asks(i, "crdtGet")
  BY <1>1 DEF CallsInv, CallOK
<1>6. CallOK(i)'
  BY <1>1, <1>2, <1>5, OtherCallKept DEF CallsInv, Asks
<1> QED BY <1>1, <1>2, <1>3, <1>4, <1>6, OneCall

\* A query times out with what was found.
LEMMA TimesOutStep ==
    ASSUME CallsInv, NEW i \in CallId, TimesOut(i) PROVE CallsInv'
<1>1. /\ i \in timing /\ timing' = timing \ {i}
      /\ UNCHANGED <<mail, handlers, begun, gotKeys, found, answers>>
  BY DEF TimesOut
<1>2. CallOK(i) /\ begun[i] # <<>>
  BY <1>1 DEF CallsInv, CallOK
<1>3. CASE Asks(i, "query")
  <2>1. Resolve(i, found[i]) /\ stage' = stage
    BY <1>3 DEF TimesOut, Asks
  <2>2. /\ IsTable(outcome')
        /\ outcome'[i] = IF outcome[i] = Unsettled THEN found[i] ELSE outcome[i]
        /\ \A j \in CallId \ {i} : outcome'[j] = outcome[j]
    BY <2>1, Resolved DEF CallsInv, Tables
  <2>3. Tables'
    BY <1>1, <2>1, <2>2 DEF CallsInv, Tables, IsTable
  <2>4. i \in gotKeys
    BY <1>1, <1>2, <1>3 DEF CallOK
  <2>5. KeysHeld(Sources(i)) = KeysHeld(answers[i] \cup {begun[i][2]})
    BY <2>4 DEF Sources
  <2>6. KeysHeld(Sources(i))' = KeysHeld(Sources(i))
        /\ KeysHeld(answers[i] \cup {begun[i][2]})' = KeysHeld(answers[i] \cup {begun[i][2]})
    BY <1>1 DEF Sources, KeysHeld
  <2>7. CallOK(i)'
    BY <1>1, <1>2, <1>3, <2>1, <2>2, <2>4, <2>5, <2>6 DEF CallOK, Asks
  <2> QED BY <1>1, <2>1, <2>2, <2>3, <2>7, OneCall
<1>4. CASE ~Asks(i, "query")
  <2>1. /\ UNCHANGED stage \/ (begun[i][1] = "crdtGet"
                               /\ stage' = [stage EXCEPT ![i] = stage[i] \cup {"last"}])
        /\ UNCHANGED outcome \/ Resolve(i, {"ERR"})
    <3>1. begun[i][1] \in {"query", "function", "crdtGet"}
      BY <1>2 DEF CallOK
    <3> QED BY <1>2, <1>4, <3>1 DEF TimesOut, Asks
  <2>2. /\ IsTable(stage')
        /\ "last" \in stage'[i] => "last" \in stage[i] \/ Asks(i, "crdtGet")
        /\ \A j \in CallId \ {i} : stage'[j] = stage[j]
    BY <1>2, <2>1 DEF CallsInv, Tables, IsTable, Asks
  <2>3. IsTable(outcome') /\ \A j \in CallId \ {i} : outcome'[j] = outcome[j]
    BY <2>1, Resolved DEF CallsInv, Tables
  <2>4. Tables'
    BY <1>1, <2>2, <2>3 DEF CallsInv, Tables, IsTable
  <2>5. CallOK(i)'
    BY <1>1, <1>2, <1>4, <2>2, OtherCallKept
  <2> QED BY <1>1, <2>2, <2>3, <2>4, <2>5, OneCall
<1> QED BY <1>3, <1>4

(***************************************************************************)
(* What a message does to the call with its id.                            *)
(***************************************************************************)
LEMMA WakeStep ==
    ASSUME CallsInv, NEW x \in mail, Wake(x), UNCHANGED <<begun, stage, gotKeys>>
    PROVE  Tables' /\ \A i \in CallId : CallOK(i)'
<1> DEFINE i == x.id
<1>0. i \in CallId /\ MessageOK(x)
  BY DEF CallsInv, MessageOK
<1>1. CASE ~Listens(x.dst, i)
  <2>1. UNCHANGED <<timing, found, outcome, answers>>
    BY <1>1 DEF Wake
  <2> QED BY <2>1, CallKept DEF CallsInv, Tables, IsTable
<1>2. CASE Listens(x.dst, i) /\ Asks(i, "query")
  <2>1. x.type \in {"query", "queryAck"}
    BY <1>0, <1>2 DEF MessageOK, Asks
  <2>2. outcome' = outcome
    BY <1>2, <2>1 DEF Wake, Throws
  <2>3. CASE x.type = "query"
    <3>1. UNCHANGED <<timing, found, answers>>
      BY <1>2, <2>3 DEF Wake
    <3> QED BY <2>2, <3>1, CallKept DEF CallsInv, Tables, IsTable
  <2>4. CASE x.type = "queryAck"
    <3>1. /\ timing' = IF i \in gotKeys THEN timing \cup {i} ELSE timing \ {i}
          /\ found' = [found EXCEPT ![i] = found[i] \cup x.body]
          /\ answers' = IF outcome[i] # Unsettled THEN answers
                        ELSE [answers EXCEPT ![i] = answers[i] \cup {x.src}]
      BY <1>2, <2>4 DEF Wake
    <3>2. x.body = KeysOf[x.src]
      BY <1>0, <2>4 DEF MessageOK
    <3>3. /\ IsTable(found') /\ found'[i] = found[i] \cup KeysOf[x.src]
          /\ \A j \in CallId \ {i} : found'[j] = found[j]
      BY <1>0, <3>1, <3>2 DEF CallsInv, Tables, IsTable
    <3>4. /\ IsTable(answers')
          /\ answers'[i] = IF outcome[i] # Unsettled THEN answers[i] ELSE answers[i] \cup {x.src}
          /\ \A j \in CallId \ {i} : answers'[j] = answers[j]
      BY <1>0, <3>1 DEF CallsInv, Tables, IsTable
    <3>5. Tables'
      BY <2>2, <3>3, <3>4 DEF CallsInv, Tables, IsTable
    <3>6. CallOK(i)'
      <4>1. CallOK(i) /\ begun[i] # <<>>
        BY <1>0, <1>2 DEF CallsInv, Asks
      <4>2. i \in timing' => i \in gotKeys'
        BY <3>1
      <4>3. CASE outcome[i] = Unsettled
        <5>1. found[i] = KeysHeld(Sources(i))
          BY <1>2, <4>1, <4>3 DEF CallOK
        <5>2. Sources(i)' = Sources(i) \cup {x.src}
          BY <3>4, <4>3 DEF Sources
        <5>3. KeysHeld(Sources(i))' = KeysHeld(Sources(i)) \cup KeysOf[x.src]
          BY <5>2 DEF KeysHeld
        <5> QED BY <1>2, <2>2, <3>3, <4>1, <4>2, <4>3, <5>1, <5>3 DEF CallOK, Asks
      <4>4. CASE outcome[i] # Unsettled
        <5>1. /\ outcome[i] = KeysHeld(answers[i] \cup {begun[i][2]})
              /\ KeysHeld(answers[i] \cup {begun[i][2]})' = KeysHeld(answers[i] \cup {begun[i][2]})
          BY <1>2, <3>4, <4>1, <4>4 DEF CallOK, KeysHeld
        <5> QED BY <1>2, <2>2, <4>1, <4>2, <4>4, <5>1 DEF CallOK, Asks
      <4> QED BY <4>3, <4>4
    <3>7. ASSUME NEW j \in CallId \ {i} PROVE CallOK(j)'
      BY <2>2, <3>1, <3>3, <3>4, <3>7, CallKept DEF CallsInv
    <3> QED BY <3>5, <3>6, <3>7
  <2> QED BY <2>1, <2>3, <2>4
<1>3. CASE Listens(x.dst, i) /\ ~Asks(i, "query")
  <2>1. /\ timing' = timing \ {i} /\ UNCHANGED <<found, answers>>
        /\ UNCHANGED outcome \/ Resolve(i, x.body) \/ Resolve(i, {"document"})
    BY <1>3 DEF Wake
  <2>2. IsTable(outcome') /\ \A j \in CallId \ {i} : outcome'[j] = outcome[j]
    BY <1>0, <2>1, Resolved DEF CallsInv, Tables
  <2>3. Tables'
    BY <2>1, <2>2 DEF CallsInv, Tables, IsTable
  <2>4. CallOK(i)'
    BY <1>0, <1>3, OtherCallKept DEF CallsInv, MessageOK, Asks
  <2>5. ASSUME NEW j \in CallId \ {i} PROVE CallOK(j)'
    BY <2>1, <2>2, <2>5, CallKept DEF CallsInv
  <2> QED BY <2>3, <2>4, <2>5
<1> QED BY <1>1, <1>2, <1>3

\* A message wakes its call, and a handler begins.
LEMMA ClientOnMessageStep ==
    ASSUME CallsInv, NEW x \in mail, ClientOnMessage(x) PROVE CallsInv'
<1>1. /\ Wake(x) /\ UNCHANGED <<begun, stage, gotKeys>>
      /\ handlers' \subseteq handlers \cup {x}
      /\ mail' \subseteq mail \cup (IF x.type = "query"
                                    THEN Questions("query", x.dst, x.id, x.to \cup {x.src}, CallServer)
                                    ELSE {})
  BY DEF ClientOnMessage
<1>2. MessageOK(x)
  BY DEF CallsInv
<1>3. ASSUME NEW y \in mail' \cup handlers' PROVE MessageOK(y)'
  <2>1. CASE y \in mail \cup handlers
    BY <1>1, <2>1, MessageKept DEF CallsInv
  <2>2. CASE x.type = "query" /\ y \in Questions("query", x.dst, x.id, x.to \cup {x.src}, CallServer)
    <3>1. y.type = "query" /\ y.id = x.id
      BY <2>2, Relayed
    <3> QED BY <1>1, <1>2, <2>2, <3>1 DEF MessageOK, Asks
  <2> QED BY <1>1, <2>1, <2>2
<1>4. Tables' /\ \A i \in CallId : CallOK(i)'
  BY <1>1, WakeStep
<1> QED BY <1>3, <1>4 DEF CallsInv

(***************************************************************************)
(* A handler answers or relays with messages of the kind of its own.       *)
(***************************************************************************)
LEMMA HandlerStep ==
    ASSUME CallsInv, NEW x \in handlers,
           AnswerQuery(x) \/ CallFunction(x) \/ AnswerCrdtGet(x) \/ StoreCrdt(x)
    PROVE  CallsInv'
<1>0. MessageOK(x)
  BY DEF CallsInv
<1>1. ASSUME NEW letters, Handle(x, letters), \A y \in letters : MessageOK(y) PROVE CallsInv'
  BY <1>1, MessagesOnly DEF Handle
<1>2. CASE AnswerQuery(x)
  <2> DEFINE y == Answer("queryAck", x, KeysOf[x.dst])
  <2>1. x.type = "query" /\ Handle(x, {y})
    BY <1>2 DEF AnswerQuery
  <2>2. MessageOK(y)
    BY <1>0, <2>1 DEF Answer, MessageOK, Asks
  <2> HIDE DEF y
  <2> QED BY <1>1, <2>1, <2>2
<1>3. CASE CallFunction(x)
  <2> DEFINE y == Answer("functionReturn", x, {FunctionOf[x.dst]})
  <2>1. x.type = "function" /\ Handle(x, {y})
    BY <1>3 DEF CallFunction
  <2>2. MessageOK(y)
    BY <1>0, <2>1 DEF Answer, MessageOK, Asks
  <2> HIDE DEF y
  <2> QED BY <1>1, <2>1, <2>2
<1>4. CASE AnswerCrdtGet(x)
  <2> DEFINE y == Answer("crdtPut", x, {})
             Q == Questions("crdtGet", x.dst, x.id, x.to \cup {x.src}, Peer)
  <2>1. x.type = "crdtGet" /\ (Handle(x, {}) \/ Handle(x, {y}) \/ Handle(x, Q))
    BY <1>4 DEF AnswerCrdtGet
  <2>2. MessageOK(y)
    BY <1>0, <2>1 DEF Answer, MessageOK, Asks
  <2>3. \A z \in Q : z.type = "crdtGet" /\ z.id = x.id
    BY Relayed
  <2>4. \A z \in Q : MessageOK(z)
    BY <1>0, <2>1, <2>3 DEF MessageOK, Asks
  <2> HIDE DEF y, Q
  <2> QED BY <1>1, <2>1, <2>2, <2>4
<1>5. CASE StoreCrdt(x)
  <2> DEFINE Q == Questions("crdtPut", x.dst, x.id, x.to \cup {x.src}, CallServer)
  <2>1. x.type = "crdtPut" /\ \E letters \in SUBSET Q : Handle(x, letters)
    BY <1>5 DEF StoreCrdt
  <2>2. \A z \in Q : z.type = "crdtPut" /\ z.id = x.id
    BY Relayed
  <2>3. \A z \in Q : MessageOK(z)
    BY <1>0, <2>1, <2>2 DEF MessageOK, Asks
  <2> HIDE DEF Q
  <2> QED BY <1>1, <2>1, <2>3
<1> QED BY <1>2, <1>3, <1>4, <1>5

\* Every step keeps the invariant.
LEMMA CallsStep == ASSUME CallsInv, [CallsNext]_CallVars PROVE CallsInv'
<1>1. CASE UNCHANGED CallVars
  BY <1>1, MessagesOnly DEF CallVars, askVars
<1>2. ASSUME NEW i \in CallId, NEW c \in Call, Begin(i, c) PROVE CallsInv'
  BY <1>2, BeginStep
<1>3. CASE Progress
  BY <1>3, LocalKeysStep, FirstDocumentStep, LastDocumentStep, TimesOutStep DEF Progress
<1>4. ASSUME NEW x \in mail, ClientOnMessage(x) PROVE CallsInv'
  BY <1>4, ClientOnMessageStep
<1>5. ASSUME NEW x \in mail, LoseMail(x) PROVE CallsInv'
  BY <1>5, MessagesOnly DEF LoseMail
<1>6. ASSUME NEW x \in handlers,
             AnswerQuery(x) \/ CallFunction(x) \/ AnswerCrdtGet(x) \/ StoreCrdt(x)
      PROVE  CallsInv'
  BY <1>6, HandlerStep
<1> QED BY <1>1, <1>2, <1>3, <1>4, <1>5, <1>6 DEF CallsNext

-----------------------------------------------------------------------------
(***************************************************************************)
(* Every query keeps its own keys and those of every answer that came in   *)
(* time, and reports no others.                                            *)
(***************************************************************************)
THEOREM QueriesExact == CallsSpec => []QueriesKeepAll
<1>1. CallsInv /\ [CallsNext]_CallVars => CallsInv'
  BY CallsStep
<1>2. CallsInv => QueriesKeepAll
  BY DEF CallsInv, CallOK, QueriesKeepAll, KeysHeld
<1> QED BY CallsInvInit, <1>1, <1>2, PTL DEF CallsSpec
\* Questions of peers are letters, and go to some of those they may go to.
LEMMA QuestionLetters ==
    ASSUME NEW type \in CallType, NEW n \in Peer, NEW i \in CallId, NEW to \in SUBSET Peer,
           NEW among \in SUBSET Peer
    PROVE  Questions(type, n, i, to, among) \subseteq Letter
<1>1. ASSUME NEW m \in Peer
      PROVE  [type |-> type, src |-> n, dst |-> m, id |-> i, to |-> to \cup {n},
              body |-> {}] \in Letter
  BY DEF Letter
<1> QED BY <1>1 DEF Questions

\* And so are answers.
LEMMA AnswerLetters ==
    ASSUME NEW type \in CallType, NEW x \in Letter, NEW body \in SUBSET (KeyName \cup ReturnCode)
    PROVE  Answer(type, x, body) \in Letter
BY DEF Answer, Letter

\* The keys of a peer are keys.
LEMMA KeysNamed == ASSUME NEW n \in Peer PROVE KeysOf[n] \subseteq KeyName
BY DEF KeyName

Outcomes == (SUBSET (KeyName \cup ReturnCode \cup {"document"})) \cup {Unsettled}

\* What a promise settles with is well formed.
LEMMA ResolvedType ==
    ASSUME outcome \in [CallId -> Outcomes], NEW i \in CallId,
           NEW value \in SUBSET (KeyName \cup ReturnCode \cup {"document"}), Resolve(i, value)
    PROVE  outcome' \in [CallId -> Outcomes]
<1>1. value \in Outcomes
  BY DEF Outcomes
<1> QED BY <1>1 DEF Resolve

(***************************************************************************)
(* What a handler sends keeps the types of what handlers change.           *)
(***************************************************************************)
LEMMA HandlerType ==
    ASSUME CallsTypeOK, NEW x \in handlers, NEW letters \in SUBSET Letter, Handle(x, letters),
           held' \subseteq Peer, told' \in [Peer -> SUBSET Peer]
    PROVE  CallsTypeOK'
BY DEF CallsTypeOK, Handle, askVars

LEMMA HandlersType ==
    ASSUME CallsTypeOK, NEW x \in handlers,
           AnswerQuery(x) \/ CallFunction(x) \/ AnswerCrdtGet(x) \/ StoreCrdt(x)
    PROVE  CallsTypeOK'
<1>0. /\ x \in Letter /\ x.src \in Peer /\ x.dst \in Peer /\ x.id \in CallId
      /\ x.to \cup {x.src} \in SUBSET Peer
      /\ held \subseteq Peer /\ told \in [Peer -> SUBSET Peer] /\ CallServer \in SUBSET Peer
  BY CallsAssumption DEF CallsTypeOK, Letter
<1>1. CASE AnswerQuery(x)
  <2>1. Answer("queryAck", x, KeysOf[x.dst]) \in Letter
    BY <1>0, KeysNamed, AnswerLetters DEF CallType
  <2> QED BY <1>0, <1>1, <2>1, HandlerType DEF AnswerQuery
<1>2. CASE CallFunction(x)
  <2>1. Answer("functionReturn", x, {FunctionOf[x.dst]}) \in Letter
    <3>1. FunctionOf[x.dst] \in ReturnCode
      BY <1>0, CallsAssumption DEF ReturnCode
    <3> QED BY <1>0, <3>1, AnswerLetters DEF CallType
  <2> QED BY <1>0, <1>2, <2>1, HandlerType DEF CallFunction
<1>3. CASE AnswerCrdtGet(x) /\ x.dst \in held
  <2>1. Answer("crdtPut", x, {}) \in Letter
    BY <1>0, AnswerLetters DEF CallType
  <2>2. PICK letters \in SUBSET Letter : Handle(x, letters)
    BY <1>3, <2>1 DEF AnswerCrdtGet
  <2>3. told' \in [Peer -> SUBSET Peer] /\ held' = held
    BY <1>0, <1>3 DEF AnswerCrdtGet
  <2> QED BY <1>0, <2>2, <2>3, HandlerType
<1>4. CASE AnswerCrdtGet(x) /\ x.dst \notin held
  <2>1. Questions("crdtGet", x.dst, x.id, x.to \cup {x.src}, Peer) \subseteq Letter
    BY <1>0, QuestionLetters DEF CallType
  <2>2. PICK letters \in SUBSET Letter : Handle(x, letters)
    BY <1>4, <2>1 DEF AnswerCrdtGet
  <2>3. told' = told /\ held' = held
    BY <1>4 DEF AnswerCrdtGet
  <2> QED BY <1>0, <2>2, <2>3, HandlerType
<1>5. CASE StoreCrdt(x)
  <2>1. Questions("crdtPut", x.dst, x.id, x.to \cup {x.src}, CallServer) \subseteq Letter
    BY <1>0, QuestionLetters DEF CallType
  <2>2. PICK letters \in SUBSET Letter :
          /\ Handle(x, letters)
          /\ told' = [told EXCEPT ![x.dst] = @ \cup {y.dst : y \in letters}]
    <3> DEFINE letters == {y \in Questions("crdtPut", x.dst, x.id, x.to \cup {x.src}, CallServer) :
                             y.dst \notin told[x.dst]}
    <3>1. letters \in SUBSET Letter
      BY <2>1
    <3>2. Handle(x, letters) /\ told' = [told EXCEPT ![x.dst] = @ \cup {y.dst : y \in letters}]
      BY <1>5 DEF StoreCrdt
    <3> HIDE DEF letters
    <3> QED BY <3>1, <3>2
  <2>3. {y.dst : y \in letters} \subseteq Peer
    BY DEF Letter
  <2>4. held' \subseteq Peer
    BY <1>0, <1>5 DEF StoreCrdt
  <2> HIDE DEF Handle
  <2>5. told' \in [Peer -> SUBSET Peer]
    BY <1>0, <2>2, <2>3
  <2> QED BY <2>2, <2>4, <2>5, HandlerType
<1> QED BY <1>1, <1>2, <1>3, <1>4, <1>5

(***************************************************************************)
(* What a message wakes keeps the types: an answer to a query is honest.   *)
(***************************************************************************)
LEMMA WakeType ==
    ASSUME CallsTypeOK, NEW x \in Letter, MessageOK(x), Wake(x)
    PROVE  /\ listening' \cup timing' \subseteq {i \in CallId : begun[i] # <<>>}
           /\ found' \in [CallId -> SUBSET KeyName]
           /\ answers' \in [CallId -> SUBSET Peer]
           /\ outcome' \in [CallId -> Outcomes]
<1> DEFINE i == x.id
<1>0. /\ i \in CallId /\ x.src \in Peer /\ x.body \in SUBSET (KeyName \cup ReturnCode)
      /\ x.type = "queryAck" => x.body \subseteq KeyName
  BY KeysNamed DEF Letter, MessageOK
<1>1. /\ listening \cup timing \cup gotKeys \subseteq {j \in CallId : begun[j] # <<>>}
      /\ found \in [CallId -> SUBSET KeyName]
      /\ answers \in [CallId -> SUBSET Peer] /\ outcome \in [CallId -> Outcomes]
  BY DEF CallsTypeOK, Outcomes
<1> HIDE DEF i
<1>2. CASE ~Listens(x.dst, i)
  BY <1>1, <1>2 DEF Wake, i
<1>3. CASE Listens(x.dst, i)
  <2>1. /\ listening' \subseteq listening
        /\ timing' \subseteq timing \cup (gotKeys \cap {i})
        /\ found' = found \/ (x.type = "queryAck" /\ found' = [found EXCEPT ![i] = @ \cup x.body])
        /\ answers' = answers \/ answers' = [answers EXCEPT ![i] = @ \cup {x.src}]
    BY <1>3 DEF Wake, i
  <2>2. \/ Resolve(i, x.body) \/ Resolve(i, {"document"}) \/ UNCHANGED outcome
    BY <1>3 DEF Wake, i
  <2>3. outcome' \in [CallId -> Outcomes]
    BY <1>0, <1>1, <2>2, ResolvedType
  <2>4. found' \in [CallId -> SUBSET KeyName]
    BY <1>0, <1>1, <2>1
  <2>5. answers' \in [CallId -> SUBSET Peer]
    BY <1>0, <1>1, <2>1
  <2> QED BY <1>1, <2>1, <2>3, <2>4, <2>5
<1> QED BY <1>2, <1>3

(***************************************************************************)
(* The types, where messages are of the kind of their calls.               *)
(***************************************************************************)
LEMMA CallsTypeStep ==
    ASSUME CallsTypeOK, CallsInv, [CallsNext]_CallVars
    PROVE  CallsTypeOK'
<1>0. outcome \in [CallId -> Outcomes]
  BY DEF CallsTypeOK, Outcomes
<1>1. ASSUME NEW i \in CallId, NEW c \in Call, Begin(i, c) PROVE CallsTypeOK'
  <2>1. /\ c # <<>> /\ c[1] \in CallType /\ c[2] \in Peer
    BY CallsMade, CallsAssumption DEF CallType
  <2>2. Questions(c[1], c[2], i, {}, Peer) \subseteq Letter
    BY <2>1, QuestionLetters
  <2>3. /\ begun' = [begun EXCEPT ![i] = c]
        /\ listening' = listening \cup {i} /\ timing' \subseteq timing \cup {i}
        /\ stage' = stage \/ stage' = [stage EXCEPT ![i] = {"first"}]
        /\ mail' = mail \cup Questions(c[1], c[2], i, {}, Peer)
        /\ UNCHANGED <<peerVars, handlers, gotKeys, found, outcome, answers>>
    BY <1>1 DEF Begin
  <2>4. /\ begun' \in [CallId -> Call \cup {<<>>}]
        /\ \A j \in CallId : begun[j] # <<>> => begun'[j] # <<>>
        /\ begun'[i] # <<>>
    BY <2>1, <2>3 DEF CallsTypeOK
  <2>5. listening' \cup timing' \cup gotKeys' \subseteq {j \in CallId : begun'[j] # <<>>}
    BY <2>3, <2>4 DEF CallsTypeOK
  <2>6. stage' \in [CallId -> SUBSET {"first", "last"}]
    BY <2>3 DEF CallsTypeOK
  <2> QED BY <2>2, <2>3, <2>4, <2>5, <2>6 DEF CallsTypeOK, peerVars
<1>2. ASSUME NEW i \in CallId, LocalKeys(i) PROVE CallsTypeOK'
  <2>1. begun[i] # <<>> /\ KeysOf[begun[i][2]] \subseteq KeyName
    BY <1>2, KeysNamed, CallsMade, CallsAssumption DEF LocalKeys, Asks, CallsTypeOK
  <2> QED BY <1>2, <2>1 DEF LocalKeys, CallsTypeOK, peerVars
<1>3. ASSUME NEW i \in CallId, FirstDocument(i) PROVE CallsTypeOK'
  <2>1. /\ stage' = [stage EXCEPT ![i] = @ \ {"first"}]
        /\ timing' \subseteq timing /\ listening' \subseteq listening
        /\ UNCHANGED outcome \/ Resolve(i, {"document"})
        /\ UNCHANGED <<mail, handlers, peerVars, begun, gotKeys, found, answers>>
    BY <1>3 DEF FirstDocument
  <2>2. outcome' \in [CallId -> Outcomes]
    BY <1>0, <2>1, ResolvedType
  <2> QED BY <2>1, <2>2 DEF CallsTypeOK, peerVars, Outcomes
<1>4. ASSUME NEW i \in CallId, LastDocument(i) PROVE CallsTypeOK'
  <2>1. /\ stage' = [stage EXCEPT ![i] = @ \ {"last"}]
        /\ Resolve(i, {}) \/ Resolve(i, {"document"})
        /\ UNCHANGED <<mail, handlers, peerVars, begun, listening, timing, gotKeys, found, answers>>
    BY <1>4 DEF LastDocument
  <2>2. outcome' \in [CallId -> Outcomes]
    BY <1>0, <2>1, ResolvedType
  <2> QED BY <2>1, <2>2 DEF CallsTypeOK, peerVars, Outcomes
<1>5. ASSUME NEW i \in CallId, TimesOut(i) PROVE CallsTypeOK'
  <2>1. /\ timing' = timing \ {i}
        /\ stage' = stage \/ stage' = [stage EXCEPT ![i] = @ \cup {"last"}]
        /\ UNCHANGED outcome \/ Resolve(i, found[i]) \/ Resolve(i, {"ERR"})
        /\ UNCHANGED <<mail, handlers, peerVars, begun, listening, gotKeys, found, answers>>
    BY <1>5 DEF TimesOut
  <2>2. outcome' \in [CallId -> Outcomes]
    <3>1. found[i] \subseteq KeyName /\ "ERR" \in ReturnCode
      BY DEF CallsTypeOK, ReturnCode
    <3> QED BY <1>0, <2>1, <3>1, ResolvedType
  <2>3. stage' \in [CallId -> SUBSET {"first", "last"}]
    BY <2>1 DEF CallsTypeOK
  <2> QED BY <2>1, <2>2, <2>3 DEF CallsTypeOK, peerVars, Outcomes
<1>6. ASSUME NEW x \in mail, ClientOnMessage(x) PROVE CallsTypeOK'
  <2>1. /\ x \in Letter /\ MessageOK(x) /\ x.dst \in Peer /\ x.src \in Peer /\ x.id \in CallId
        /\ x.type \in CallType /\ x.to \cup {x.src} \in SUBSET Peer
    BY DEF CallsTypeOK, CallsInv, Letter
  <2>2. /\ seen' = [seen EXCEPT ![x.dst] = @ \cup {<<x.type, x.id>>}]
        /\ Wake(x)
        /\ handlers' \subseteq handlers \cup {x}
        /\ mail' \subseteq mail \cup Questions("query", x.dst, x.id, x.to \cup {x.src}, CallServer)
        /\ UNCHANGED <<held, told, begun, stage, gotKeys>>
    BY <1>6 DEF ClientOnMessage
  <2>3. Questions("query", x.dst, x.id, x.to \cup {x.src}, CallServer) \subseteq Letter
    BY <2>1, QuestionLetters, CallsAssumption DEF CallType
  <2>4. /\ listening' \cup timing' \subseteq {i \in CallId : begun[i] # <<>>}
        /\ found' \in [CallId -> SUBSET KeyName]
        /\ answers' \in [CallId -> SUBSET Peer]
        /\ outcome' \in [CallId -> Outcomes]
    BY <2>1, <2>2, WakeType
  <2>5. seen' \in [Peer -> SUBSET (CallType \X CallId)]
    BY <2>1, <2>2 DEF CallsTypeOK
  <2> QED BY <2>1, <2>2, <2>3, <2>4, <2>5 DEF CallsTypeOK, Outcomes
<1>7. ASSUME NEW x \in mail, LoseMail(x) PROVE CallsTypeOK'
  BY <1>7 DEF LoseMail, CallsTypeOK, peerVars, askVars
<1>8. ASSUME NEW x \in handlers,
             AnswerQuery(x) \/ CallFunction(x) \/ AnswerCrdtGet(x) \/ StoreCrdt(x)
      PROVE  CallsTypeOK'
  BY <1>8, HandlersType
<1>9. CASE UNCHANGED CallVars
  BY <1>9 DEF CallVars, CallsTypeOK
<1> QED BY <1>1, <1>2, <1>3, <1>4, <1>5, <1>6, <1>7, <1>8, <1>9 DEF CallsNext, Progress

\* The types at the start.
LEMMA CallsTypeInit == CallsInit => CallsTypeOK
<1> SUFFICES ASSUME CallsInit PROVE CallsTypeOK
  OBVIOUS
<1>1. /\ mail \cup handlers \subseteq Letter
      /\ seen \in [Peer -> SUBSET (CallType \X CallId)]
      /\ held \subseteq Peer /\ told \in [Peer -> SUBSET Peer]
      /\ listening \cup timing \cup gotKeys \subseteq {i \in CallId : begun[i] # <<>>}
  BY CallsAssumption DEF CallsInit
<1>2. /\ begun \in [CallId -> Call \cup {<<>>}]
      /\ stage \in [CallId -> SUBSET {"first", "last"}]
      /\ found \in [CallId -> SUBSET KeyName]
      /\ answers \in [CallId -> SUBSET Peer]
  BY DEF CallsInit
<1>3. outcome \in [CallId -> Outcomes]
  <2>1. Unsettled \in Outcomes
    BY DEF Outcomes
  <2> QED BY <2>1 DEF CallsInit
<1> QED BY <1>1, <1>2, <1>3 DEF CallsTypeOK, Outcomes

(***************************************************************************)
(* The state of calls is well formed: nothing listens, waits or is found   *)
(* for a call that was not made, whatever comes late or of another call.   *)
(***************************************************************************)
THEOREM CallsTyped == CallsSpec => []CallsTypeOK
<1>1. CallsInv /\ [CallsNext]_CallVars => CallsInv'
  BY CallsStep
<1>2. CallsTypeOK /\ CallsInv /\ [CallsNext]_CallVars => CallsTypeOK'
  BY CallsTypeStep
<1> QED BY CallsInvInit, CallsTypeInit, <1>1, <1>2, PTL DEF CallsSpec

-----------------------------------------------------------------------------
Entry == [type : {"ping", "pong"}, at : Member, from : Member, peer : Address]

\* Appending what is not listed lists it once, and nothing else anew.
LEMMA Appended ==
    ASSUME NEW S, NEW s \in Seq(S), NEW e \in S, IsInjective(s), e \notin Range(s)
    PROVE  /\ Append(s, e) \in Seq(S)
           /\ IsInjective(Append(s, e))
           /\ Range(Append(s, e)) = Range(s) \cup {e}
<1>1. /\ Append(s, e) \in Seq(S)
      /\ DOMAIN Append(s, e) = 1..(Len(s) + 1)
      /\ \A i \in 1..Len(s) : Append(s, e)[i] = s[i]
      /\ Append(s, e)[Len(s) + 1] = e
      /\ DOMAIN s = 1..Len(s) /\ Len(s) \in Nat
  OBVIOUS
<1>2. \A i \in 1..(Len(s) + 1) : i \in 1..Len(s) \/ i = Len(s) + 1
  BY <1>1
<1>3. \A i \in 1..Len(s) : s[i] \in Range(s)
  BY <1>1 DEF Range
<1>4. IsInjective(Append(s, e))
  <2>1. SUFFICES ASSUME NEW i \in 1..(Len(s) + 1), NEW j \in 1..(Len(s) + 1),
                        Append(s, e)[i] = Append(s, e)[j]
                 PROVE  i = j
    BY <1>1 DEF IsInjective
  <2>2. CASE i \in 1..Len(s) /\ j \in 1..Len(s)
    BY <1>1, <2>1, <2>2 DEF IsInjective
  <2>3. CASE i = Len(s) + 1 /\ j \in 1..Len(s)
    BY <1>1, <1>3, <2>1, <2>3
  <2>4. CASE i \in 1..Len(s) /\ j = Len(s) + 1
    BY <1>1, <1>3, <2>1, <2>4
  <2> QED BY <1>2, <2>2, <2>3, <2>4
<1>5. Range(Append(s, e)) = Range(s) \cup {e}
  <2>1. ASSUME NEW x \in Range(Append(s, e)) PROVE x \in Range(s) \cup {e}
    <3>1. PICK i \in 1..(Len(s) + 1) : x = Append(s, e)[i]
      BY <1>1, <2>1 DEF Range
    <3> QED BY <1>1, <1>2, <1>3, <3>1
  <2>2. ASSUME NEW x \in Range(s) PROVE x \in Range(Append(s, e))
    <3>1. PICK i \in 1..Len(s) : x = s[i]
      BY <1>1, <2>2 DEF Range
    <3>2. i \in 1..(Len(s) + 1) /\ Append(s, e)[i] = x
      BY <1>1, <3>1
    <3> QED BY <1>1, <3>2 DEF Range
  <2>3. e \in Range(Append(s, e))
    <3>1. Len(s) + 1 \in 1..(Len(s) + 1)
      BY <1>1
    <3> QED BY <1>1, <3>1 DEF Range
  <2> QED BY <2>1, <2>2, <2>3
<1> QED BY <1>1, <1>4, <1>5

\* What is in a list after appending.
LEMMA AppendedRange ==
    ASSUME NEW S, NEW s \in Seq(S), NEW p \in S
    PROVE  Range(Append(s, p)) \subseteq Range(s) \cup {p}
<1>1. /\ DOMAIN Append(s, p) = 1..(Len(s) + 1)
      /\ \A i \in 1..Len(s) : Append(s, p)[i] = s[i]
      /\ Append(s, p)[Len(s) + 1] = p
      /\ DOMAIN s = 1..Len(s) /\ Len(s) \in Nat
  OBVIOUS
<1>2. SUFFICES ASSUME NEW x \in Range(Append(s, p)) PROVE x \in Range(s) \cup {p}
  OBVIOUS
<1>3. PICK i \in 1..(Len(s) + 1) : x = Append(s, p)[i]
  BY <1>1, <1>2 DEF Range
<1>4. i \in 1..Len(s) \/ i = Len(s) + 1
  BY <1>1
<1> QED BY <1>1, <1>3, <1>4 DEF Range

\* At most one element of a list comes twice, none three times.
TwiceOnly(s, p) ==
    /\ \A i, j, k \in DOMAIN s : i < j /\ j < k => ~(s[i] = s[k] /\ s[j] = s[k])
    /\ \A i, j \in DOMAIN s : i # j /\ s[i] = s[j] => s[i] = p

\* An element appended to a list without repetitions comes twice at most.
LEMMA AppendedTwice ==
    ASSUME NEW S, NEW s \in Seq(S), NEW p \in S, IsInjective(s)
    PROVE  /\ TwiceOnly(Append(s, p), p)
           /\ Append(s, p) \in Seq(S)
           /\ Range(Append(s, p)) \subseteq Range(s) \cup {p}
<1>1. /\ Append(s, p) \in Seq(S)
      /\ DOMAIN Append(s, p) = 1..(Len(s) + 1)
      /\ \A i \in 1..Len(s) : Append(s, p)[i] = s[i]
      /\ Append(s, p)[Len(s) + 1] = p
      /\ DOMAIN s = 1..Len(s) /\ Len(s) \in Nat
  OBVIOUS
<1>2. \A i \in 1..(Len(s) + 1) : i \in 1..Len(s) \/ i = Len(s) + 1
  BY <1>1
<1>3. \A i, j \in 1..Len(s) : Append(s, p)[i] = Append(s, p)[j] => i = j
  BY <1>1 DEF IsInjective
<1>4. ASSUME NEW i \in 1..(Len(s) + 1), NEW j \in 1..(Len(s) + 1),
             NEW k \in 1..(Len(s) + 1), i < j, j < k,
             Append(s, p)[i] = Append(s, p)[k], Append(s, p)[j] = Append(s, p)[k]
      PROVE  FALSE
  <2>1. i \in 1..Len(s) /\ j \in 1..Len(s) /\ i # j
    BY <1>1, <1>4
  <2> QED BY <1>3, <1>4, <2>1
<1>5. ASSUME NEW i \in 1..(Len(s) + 1), NEW j \in 1..(Len(s) + 1),
             i # j, Append(s, p)[i] = Append(s, p)[j]
      PROVE  Append(s, p)[i] = p
  BY <1>1, <1>2, <1>3, <1>5
<1>6. Range(Append(s, p)) \subseteq Range(s) \cup {p}
  BY AppendedRange
<1> QED BY <1>1, <1>4, <1>5, <1>6 DEF TwiceOnly

\* What is not listed may be appended to a list with one that comes twice.
LEMMA AppendedAnew ==
    ASSUME NEW S, NEW s \in Seq(S), NEW e \in S, NEW p, TwiceOnly(s, p), e \notin Range(s)
    PROVE  TwiceOnly(Append(s, e), p)
<1>1. /\ DOMAIN Append(s, e) = 1..(Len(s) + 1)
      /\ \A i \in 1..Len(s) : Append(s, e)[i] = s[i] /\ s[i] \in Range(s)
      /\ Append(s, e)[Len(s) + 1] = e
      /\ DOMAIN s = 1..Len(s) /\ Len(s) \in Nat
  BY DEF Range
<1>2. \A i \in 1..(Len(s) + 1) : i \in 1..Len(s) \/ i = Len(s) + 1
  BY <1>1
<1>3. \A i, j \in 1..(Len(s) + 1) :
         i # j /\ Append(s, e)[i] = Append(s, e)[j] => i \in 1..Len(s) /\ j \in 1..Len(s)
  BY <1>1, <1>2
<1>4. ASSUME NEW i \in 1..(Len(s) + 1), NEW j \in 1..(Len(s) + 1),
             NEW k \in 1..(Len(s) + 1), i < j, j < k,
             Append(s, e)[i] = Append(s, e)[k], Append(s, e)[j] = Append(s, e)[k]
      PROVE  FALSE
  <2>1. i # k /\ j # k
    BY <1>1, <1>4
  <2>2. i \in 1..Len(s) /\ j \in 1..Len(s) /\ k \in 1..Len(s)
    BY <1>3, <1>4, <2>1
  <2>3. s[i] = s[k] /\ s[j] = s[k]
    BY <1>1, <1>4, <2>2
  <2> QED BY <1>1, <1>4, <2>2, <2>3 DEF TwiceOnly
<1>5. ASSUME NEW i \in 1..(Len(s) + 1), NEW j \in 1..(Len(s) + 1),
             i # j, Append(s, e)[i] = Append(s, e)[j]
      PROVE  Append(s, e)[i] = p
  <2>1. i \in 1..Len(s) /\ j \in 1..Len(s)
    BY <1>3, <1>5
  <2> QED BY <1>1, <1>5, <2>1 DEF TwiceOnly
<1> QED BY <1>1, <1>4, <1>5 DEF TwiceOnly

\* NoPeerTwice, and what keeps it: until it has its own entry a server is listed
\* by itself once at most, and only if a ping of its own was answered.
Wanted(n, p) == p[1] \in Hub /\ ((p[1] \in Outsider) = (n \in Outsider))
Awake == initialised \cup early
ListInv ==
    \A n \in Member :
       /\ n \notin early \/ n \notin initialised => IsInjective(serverPeers[n])
       /\ TwiceOnly(serverPeers[n], Own(n))
       /\ Listed(n, Own(n)) => n \in Awake
AnswerInv ==
    /\ \A x \in greetings :
          /\ x.type = "ping" => x.src \in Awake /\ \A p \in x.servers : p[1] = x.src
          /\ x.type = "pong" => x.dst \in Awake
    /\ \A g \in greeted : g[1] \in Awake
    /\ \A v \in verifying : v.peer = Own(v.at) => v.at \in Awake
ExchangeInv == PeersTypeOK /\ ListInv /\ AnswerInv

LEMMA PeersAddresses ==
    ASSUME NEW n \in Member
    PROVE  /\ Own(n) \in Address /\ Own(n)[1] = n
           /\ restarts \in [Member -> 0..MaxRestarts] => Temporary(n) \in Address /\ Temporary(n)[1] = n
BY PeerExchangeAssumption DEF Address, Own, Temporary

\* What verifying an entry makes of a list.
LEMMA AddedOnce ==
    ASSUME PeersTypeOK, NEW v \in verifying
    PROVE  /\ Added(v) \in Seq(Address)
           /\ IsInjective(serverPeers[v.at]) => IsInjective(Added(v))
           /\ TwiceOnly(serverPeers[v.at], Own(v.at)) => TwiceOnly(Added(v), Own(v.at))
           /\ Range(Added(v)) \subseteq Range(serverPeers[v.at]) \cup {v.peer}
           /\ \A p \in Range(Added(v)) : Wanted(v.at, p)
<1>1. v.at \in Member /\ v.peer \in Address /\ v.type \in {"ping", "pong"}
  BY DEF PeersTypeOK
<1>2. /\ serverPeers[v.at] \in Seq(Address)
      /\ \A p \in Range(serverPeers[v.at]) : Wanted(v.at, p)
  BY <1>1 DEF PeersTypeOK, Wanted
<1>3. CASE SameTopic(v) /\ ~Listed(v.at, v.peer) /\ (v.type = "ping" => v.peer[1] \in Hub)
  <2>1. Wanted(v.at, v.peer)
    BY <1>1, <1>3 DEF SameTopic, PeersTypeOK, Wanted
  <2>2. v.peer \notin Range(serverPeers[v.at])
    BY <1>3 DEF Listed
  <2>3. Added(v) = Append(serverPeers[v.at], v.peer)
    BY <1>3 DEF Added
  <2>4. /\ Added(v) \in Seq(Address)
        /\ Range(Added(v)) \subseteq Range(serverPeers[v.at]) \cup {v.peer}
    <3>1. Added(v) \in Seq(Address)
      BY <1>1, <1>2, <2>3
    <3>2. Range(Append(serverPeers[v.at], v.peer)) \subseteq Range(serverPeers[v.at]) \cup {v.peer}
      BY <1>1, <1>2, AppendedRange
    <3> QED BY <2>3, <3>1, <3>2
  <2>5. IsInjective(serverPeers[v.at]) => IsInjective(Added(v))
    BY <1>1, <1>2, <2>2, <2>3, Appended
  <2>6. TwiceOnly(serverPeers[v.at], Own(v.at)) => TwiceOnly(Added(v), Own(v.at))
    BY <1>1, <1>2, <2>2, <2>3, AppendedAnew
  <2> QED BY <1>2, <2>1, <2>4, <2>5, <2>6
<1>4. CASE ~(SameTopic(v) /\ ~Listed(v.at, v.peer) /\ (v.type = "ping" => v.peer[1] \in Hub))
  <2>1. Added(v) = serverPeers[v.at]
    BY <1>4 DEF Added
  <2> QED BY <1>2, <2>1
<1> QED BY <1>3, <1>4

\* A list that starts with nothing is one that lists nobody twice.
LEMMA EmptyList ==
    ASSUME NEW S, NEW p
    PROVE  << >> \in Seq(S) /\ IsInjective(<< >>) /\ TwiceOnly(<< >>, p) /\ Range(<< >>) = {}
BY DEF IsInjective, Range, TwiceOnly

(***************************************************************************)
(* Every step keeps what is known of entries on their way and in lists.    *)
(***************************************************************************)
LEMMA ExchangeStep == ASSUME ExchangeInv, [PeersNext]_PeerVars PROVE ExchangeInv'
<1> USE PeerExchangeAssumption
<1>1. CASE UNCHANGED PeerVars
  BY <1>1 DEF ExchangeInv, PeersTypeOK, ListInv, AnswerInv, Awake, TwiceOnly, Listed, PeerVars
<1>2. ASSUME NEW n \in Member, PushMe(n) PROVE ExchangeInv'
  <2>1. /\ initialised' = initialised \cup {n} /\ n \notin initialised
        /\ serverPeers' = [serverPeers EXCEPT ![n] = Append(@, Own(n))]
        /\ UNCHANGED <<early, greetings, verifying, greeted, restarts>>
    BY <1>2 DEF PushMe
  <2>2. /\ serverPeers[n] \in Seq(Address) /\ IsInjective(serverPeers[n])
        /\ n \notin early => Own(n) \notin Range(serverPeers[n])
        /\ serverPeers \in [Member -> Seq(Address)]
        /\ Own(n) \in Address /\ Own(n)[1] = n
    BY <2>1, PeersAddresses DEF ExchangeInv, PeersTypeOK, ListInv, Awake, Listed
  <2>3. /\ TwiceOnly(Append(serverPeers[n], Own(n)), Own(n))
        /\ Append(serverPeers[n], Own(n)) \in Seq(Address)
        /\ Range(Append(serverPeers[n], Own(n))) \subseteq Range(serverPeers[n]) \cup {Own(n)}
    BY <2>2, AppendedTwice
  <2>4. n \notin early => IsInjective(Append(serverPeers[n], Own(n)))
    BY <2>2, Appended
  <2>5. /\ serverPeers' \in [Member -> Seq(Address)]
        /\ serverPeers'[n] = Append(serverPeers[n], Own(n))
        /\ \A m \in Member : m # n => serverPeers'[m] = serverPeers[m]
    BY <2>1, <2>2, <2>3
  <2>6. n \in Hub
    BY <2>1 DEF ExchangeInv, PeersTypeOK
  <2>7. PeersTypeOK'
    BY <2>1, <2>2, <2>3, <2>5, <2>6 DEF ExchangeInv, PeersTypeOK
  <2>8. ListInv'
    <3>1. \A m \in Member : m # n =>
             /\ m \notin early' \/ m \notin initialised' => IsInjective(serverPeers'[m])
             /\ TwiceOnly(serverPeers'[m], Own(m))
             /\ Own(m) \in Range(serverPeers'[m]) => m \in Awake'
      BY <2>1, <2>5 DEF ExchangeInv, ListInv, Listed, Awake
    <3>2. /\ n \notin early' \/ n \notin initialised' => IsInjective(serverPeers'[n])
          /\ TwiceOnly(serverPeers'[n], Own(n))
          /\ n \in Awake'
      BY <2>1, <2>3, <2>4, <2>5 DEF Awake
    <3> QED BY <3>1, <3>2 DEF ListInv, Listed, Own
  <2>9. AnswerInv'
    BY <2>1 DEF ExchangeInv, AnswerInv, Awake
  <2> QED BY <2>7, <2>8, <2>9 DEF ExchangeInv
<1>3. ASSUME NEW n \in Member, NEW m \in Member, SendPing(n, m) PROVE ExchangeInv'
  <2>1. PICK p \in NamesOf(n) : greetings' = greetings \cup
            {[type |-> "ping", src |-> n, dst |-> m, servers |-> {p}]}
    BY <1>3 DEF SendPing
  <2> DEFINE ping == [type |-> "ping", src |-> n, dst |-> m, servers |-> {p}]
  <2>2. /\ greetings' = greetings \cup {ping} /\ <<n, m>> \in Contact
        /\ greeted' = greeted \cup {<<n, m>>}
        /\ early' = early \cup ({n} \ initialised)
        /\ UNCHANGED <<serverPeers, initialised, verifying, restarts>>
    BY <1>3, <2>1 DEF SendPing
  <2>3. p \in Address /\ p[1] = n
    BY PeersAddresses DEF ExchangeInv, PeersTypeOK, NamesOf
  <2>4. /\ ping \in Greeting /\ ping.type = "ping" /\ ping.src = n
        /\ \A q \in ping.servers : q[1] = ping.src
    BY <2>3 DEF Greeting
  <2>5. Awake' = Awake \cup {n}
    BY <2>2 DEF Awake
  <2> HIDE DEF ping
  <2>6. PeersTypeOK'
    <3>1. greetings' \subseteq Greeting /\ greeted' \subseteq Contact /\ early' \subseteq Hub
      BY <2>2, <2>4 DEF ExchangeInv, PeersTypeOK
    <3>2. \A x \in greetings' : x.type = "pong" => \A q \in x.servers : q[1] \in Hub
      BY <2>2, <2>4 DEF ExchangeInv, PeersTypeOK
    <3> QED BY <2>2, <3>1, <3>2 DEF ExchangeInv, PeersTypeOK
  <2>7. AnswerInv'
    <3>1. \A x \in greetings' :
             /\ x.type = "ping" => x.src \in Awake' /\ \A q \in x.servers : q[1] = x.src
             /\ x.type = "pong" => x.dst \in Awake'
      BY <2>2, <2>4, <2>5 DEF ExchangeInv, AnswerInv
    <3>2. \A g \in greeted' : g[1] \in Awake'
      BY <2>2, <2>5 DEF ExchangeInv, AnswerInv
    <3> QED BY <2>2, <2>5, <3>1, <3>2 DEF ExchangeInv, AnswerInv
  <2>8. ListInv'
    BY <2>2, <2>5 DEF ExchangeInv, ListInv, Listed, Own
  <2> QED BY <2>6, <2>7, <2>8 DEF ExchangeInv
<1>4. ASSUME NEW x \in greetings, Greeted(x) PROVE ExchangeInv'
  <2> DEFINE peers == IF x.type = "ping" THEN x.servers
                      ELSE {p \in x.servers : ~Listed(x.dst, p) /\ p[1] \in Addressed}
             new == {[type |-> x.type, at |-> x.dst, from |-> x.src, peer |-> p] : p \in peers}
  <2>1. /\ greetings' = greetings \ {x}
        /\ verifying' = verifying \cup new
        /\ UNCHANGED <<serverPeers, initialised, early, greeted, restarts>>
    BY <1>4 DEF Greeted
  <2>2. /\ x.type \in {"ping", "pong"} /\ x.src \in Member /\ x.dst \in Member
        /\ peers \subseteq Address
    BY DEF ExchangeInv, PeersTypeOK, Greeting
  <2>3. x.type = "pong" => \A p \in peers : p[1] \in Hub
    BY DEF ExchangeInv, PeersTypeOK
  <2>4. \A v \in new : /\ v \in Entry /\ v.type = x.type /\ v.at = x.dst /\ v.peer \in peers
    BY <2>2 DEF Entry
  <2>5. PeersTypeOK'
    BY <2>1, <2>3, <2>4 DEF ExchangeInv, PeersTypeOK, Entry
  <2>6. \A v \in new : v.peer = Own(v.at) => v.at \in Awake
    <3>1. CASE x.type = "ping"
      <4>1. x.src \in Awake /\ \A p \in peers : p[1] = x.src
        BY <3>1 DEF ExchangeInv, AnswerInv
      <4> QED BY <2>2, <2>4, <4>1, PeersAddresses
    <3>2. CASE x.type = "pong"
      BY <2>4, <3>2 DEF ExchangeInv, AnswerInv
    <3> QED BY <2>2, <3>1, <3>2
  <2>7. AnswerInv'
    BY <2>1, <2>6 DEF ExchangeInv, AnswerInv, Awake, Own
  <2>8. ListInv'
    BY <2>1 DEF ExchangeInv, ListInv, Awake, Listed, Own
  <2> QED BY <2>5, <2>7, <2>8 DEF ExchangeInv
<1>5. ASSUME NEW v \in verifying, PeerVerified(v) PROVE ExchangeInv'
  <2>1. /\ v.at \in Member /\ v.from \in Member /\ v.peer \in Address
        /\ serverPeers \in [Member -> Seq(Address)]
    BY DEF ExchangeInv, PeersTypeOK
  <2>2. /\ Added(v) \in Seq(Address)
        /\ IsInjective(serverPeers[v.at]) => IsInjective(Added(v))
        /\ TwiceOnly(serverPeers[v.at], Own(v.at)) => TwiceOnly(Added(v), Own(v.at))
        /\ Range(Added(v)) \subseteq Range(serverPeers[v.at]) \cup {v.peer}
        /\ \A p \in Range(Added(v)) : Wanted(v.at, p)
    BY AddedOnce DEF ExchangeInv
  <2>3. /\ verifying' = verifying \ {v}
        /\ serverPeers' = [serverPeers EXCEPT ![v.at] = Added(v)]
        /\ UNCHANGED <<initialised, early, greeted, restarts>>
    BY <1>5 DEF PeerVerified
  <2>4. /\ serverPeers' \in [Member -> Seq(Address)]
        /\ serverPeers'[v.at] = Added(v)
        /\ \A m \in Member : m # v.at => serverPeers'[m] = serverPeers[m]
    BY <2>1, <2>2, <2>3
  <2>5. Awake' = Awake
    BY <2>3 DEF Awake
  <2> DEFINE pong == [type |-> "pong", src |-> v.at, dst |-> v.from,
                      servers |-> Range(serverPeers'[v.at])]
  <2>6. \/ greetings' = greetings
        \/ greetings' = greetings \cup {pong} /\ <<v.from, v.at>> \in greeted
    BY <1>5 DEF PeerVerified
  <2>7. \A p \in Range(serverPeers'[v.at]) : p \in Address /\ p[1] \in Hub
    <3>1. Range(Added(v)) \subseteq Address
      BY <2>2 DEF Range
    <3> QED BY <2>2, <2>4, <3>1 DEF Wanted
  <2>8. pong \in Greeting /\ pong.type = "pong" /\ pong.dst = v.from
        /\ \A p \in pong.servers : p[1] \in Hub
    BY <2>1, <2>7 DEF Greeting
  <2> HIDE DEF pong
  <2>9. PeersTypeOK'
    <3>1. greetings' \subseteq Greeting
          /\ \A x \in greetings' : x.type = "pong" => \A p \in x.servers : p[1] \in Hub
      BY <2>6, <2>8 DEF ExchangeInv, PeersTypeOK
    <3>2. \A n \in Member : \A p \in Range(serverPeers'[n]) :
             p[1] \in Hub /\ ((p[1] \in Outsider) = (n \in Outsider))
      BY <2>2, <2>4 DEF ExchangeInv, PeersTypeOK, Wanted
    <3> QED BY <2>3, <2>4, <3>1, <3>2 DEF ExchangeInv, PeersTypeOK
  <2>10. ListInv'
    <3>1. \A m \in Member : m # v.at =>
             /\ m \notin early' \/ m \notin initialised' => IsInjective(serverPeers'[m])
             /\ TwiceOnly(serverPeers'[m], Own(m))
             /\ Own(m) \in Range(serverPeers'[m]) => m \in Awake'
      BY <2>3, <2>4, <2>5 DEF ExchangeInv, ListInv, Listed
    <3>2. /\ v.at \notin early' \/ v.at \notin initialised' => IsInjective(serverPeers'[v.at])
          /\ TwiceOnly(serverPeers'[v.at], Own(v.at))
      BY <2>1, <2>2, <2>3, <2>4 DEF ExchangeInv, ListInv
    <3>3. Own(v.at) \in Range(serverPeers'[v.at]) => v.at \in Awake'
      BY <2>1, <2>2, <2>4, <2>5 DEF ExchangeInv, ListInv, AnswerInv, Listed
    <3> QED BY <3>1, <3>2, <3>3 DEF ListInv, Listed, Own
  <2>11. AnswerInv'
    <3>1. \A x \in greetings' :
             /\ x.type = "ping" => x.src \in Awake /\ \A p \in x.servers : p[1] = x.src
             /\ x.type = "pong" => x.dst \in Awake
      <4>1. <<v.from, v.at>> \in greeted => v.from \in Awake
        BY DEF ExchangeInv, AnswerInv
      <4> QED BY <2>6, <2>8, <4>1 DEF ExchangeInv, AnswerInv
    <3> QED BY <2>3, <2>5, <3>1 DEF ExchangeInv, AnswerInv, Own
  <2> QED BY <2>9, <2>10, <2>11 DEF ExchangeInv
<1>6. ASSUME NEW n \in Member, RestartMember(n) PROVE ExchangeInv'
  <2>1. /\ restarts[n] < MaxRestarts /\ restarts' = [restarts EXCEPT ![n] = @ + 1]
        /\ serverPeers' = [serverPeers EXCEPT ![n] = <<>>]
        /\ initialised' = initialised \ ({n} \cap Hub) /\ early' = early \ {n}
        /\ greetings' = {x \in greetings : n \notin {x.src, x.dst}}
        /\ verifying' = {v \in verifying : v.at # n}
        /\ greeted' = {g \in greeted : n \notin {g[1], g[2]}}
    BY <1>6 DEF RestartMember
  <2>2. /\ serverPeers' \in [Member -> Seq(Address)]
        /\ serverPeers'[n] = << >>
        /\ \A m \in Member : m # n => serverPeers'[m] = serverPeers[m]
    <3>1. serverPeers \in [Member -> Seq(Address)] /\ << >> \in Seq(Address)
      BY DEF ExchangeInv, PeersTypeOK
    <3> QED BY <2>1, <3>1
  <2>3. Range(serverPeers'[n]) = {} /\ IsInjective(serverPeers'[n])
        /\ TwiceOnly(serverPeers'[n], Own(n))
    BY <2>2, EmptyList
  <2>4. restarts' \in [Member -> 0..MaxRestarts]
    BY <2>1 DEF ExchangeInv, PeersTypeOK
  <2>5. PeersTypeOK'
    BY <2>1, <2>2, <2>3, <2>4 DEF ExchangeInv, PeersTypeOK
  <2>6. \A m \in Member : m # n => /\ m \in Awake' <=> m \in Awake
                                   /\ m \in early' <=> m \in early
                                   /\ m \in initialised' <=> m \in initialised
    BY <2>1 DEF Awake
  <2>7. ListInv'
    <3>1. \A m \in Member : m # n =>
             /\ m \notin early' \/ m \notin initialised' => IsInjective(serverPeers'[m])
             /\ TwiceOnly(serverPeers'[m], Own(m))
             /\ Own(m) \in Range(serverPeers'[m]) => m \in Awake'
      BY <2>2, <2>6 DEF ExchangeInv, ListInv, Listed
    <3> QED BY <2>3, <3>1 DEF ListInv, Listed, Own
  <2>8. AnswerInv'
    <3>1. \A x \in greetings' :
             /\ x.type = "ping" => x.src \in Awake' /\ \A p \in x.servers : p[1] = x.src
             /\ x.type = "pong" => x.dst \in Awake'
      BY <2>1, <2>6 DEF ExchangeInv, PeersTypeOK, Greeting, AnswerInv
    <3>2. \A g \in greeted' : g[1] \in Awake'
      BY <2>1, <2>6 DEF ExchangeInv, PeersTypeOK, AnswerInv
    <3>3. \A v \in verifying' : v.peer = Own(v.at) => v.at \in Awake'
      BY <2>1, <2>6 DEF ExchangeInv, PeersTypeOK, AnswerInv
    <3> QED BY <3>1, <3>2, <3>3 DEF AnswerInv, Own
  <2> QED BY <2>5, <2>7, <2>8 DEF ExchangeInv
<1> QED BY <1>1, <1>2, <1>3, <1>4, <1>5, <1>6 DEF PeersNext

\* Nobody is listed at the start.
LEMMA ExchangeInit == PeersInit => ExchangeInv
<1> SUFFICES ASSUME PeersInit PROVE ExchangeInv
  OBVIOUS
<1>1. \A n \in Member : serverPeers[n] = << >>
  BY DEF PeersInit
<1>2. PeersTypeOK
  BY <1>1, EmptyList, PeerExchangeAssumption DEF PeersInit, PeersTypeOK
<1>3. ListInv
  BY <1>1, EmptyList DEF ListInv, Listed
<1>4. AnswerInv
  BY DEF PeersInit, AnswerInv
<1> QED BY <1>2, <1>3, <1>4 DEF ExchangeInv

(***************************************************************************)
(* By ping or pong, before or after a restart, no address is listed twice, *)
(* except that of a server at itself, twice at most and only if it sent a  *)
(* ping before it added itself; and only servers of the topic are listed   *)
(* (handlePing, handlePong, the listener of "init" of the adapter).        *)
(***************************************************************************)
THEOREM ListedOnce == PeersSpec => []NoPeerTwice /\ []PeersTypeOK
<1>1. ExchangeInv /\ [PeersNext]_PeerVars => ExchangeInv'
  BY ExchangeStep
<1>2. ExchangeInv => NoPeerTwice /\ PeersTypeOK
  BY DEF ExchangeInv, ListInv, TwiceOnly, NoPeerTwice
<1> QED BY ExchangeInit, <1>1, <1>2, PTL DEF PeersSpec

-----------------------------------------------------------------------------
\* What is in a queue.
Items(q) == {q[j] : j \in 1..Len(q)}

\* The puts on their way to c.
Passing(c) == Items(pushed[c])

\* What was sent to c is there, or comes, or something newer than what is due.
Sent(c, t) ==
    \/ copy[c] >= t
    \/ \E x \in Passing(c) : x[2] = t
    \/ subscription[c] # 0 /\ copy[c] >= due[c]

(***************************************************************************)
(* Of a client c: what has the id of a subscription is not older than what *)
(* is due, so once the client has had one such put it has what is due; and *)
(* what is due waits to be sent or was sent.                               *)
(***************************************************************************)
ServedOK(c) ==
    /\ subscription[c] = 0 =>
         /\ due[c] = 0 /\ putIds[c] = {}
         /\ \A q \in oldReads : q.client # c
         /\ \A x \in Passing(c) : x[1] = 0
    /\ due[c] <= record
    /\ \A q \in oldReads : q.client = c => q.data >= due[c]
    /\ debounced[c] # 0 => debounced[c] >= due[c]
    /\ \A x \in Passing(c) : x[1] # 0 => x[2] >= due[c]
    /\ putIds[c] # {} => copy[c] >= due[c]
    /\ c \notin parted =>
         /\ c \in online
         /\ \A t \in outHashes[c] : Sent(c, t)
         /\ \/ copy[c] >= due[c]
            \/ \E q \in oldReads : q.client = c
            \/ \E x \in Passing(c) : x[2] >= due[c]

\* Of a client that did not put itself what it holds, and whose reads no put
\* overtook: what it read is what it holds, and so is what a listener is called
\* with.
CurrentOK(c) ==
    c \notin overtaken /\ copy[c] # ownPut[c] =>
        /\ \A t \in ownReads[c] : t = copy[c]
        /\ c \in listens /\ delayed[c] # 0 => delayed[c] = copy[c]
        /\ c \in listens /\ delayed[c] = 0 /\ shown[c] # 0 => shown[c] = copy[c]

SubsInv ==
    /\ SubsTypeOK
    /\ pushed = [c \in Subscriber |-> pushed[c]]
    /\ \A c \in Subscriber : ServedOK(c) /\ CurrentOK(c)

Push == (0..MaxSubscriptions) \X Time

-----------------------------------------------------------------------------
\* What comes into a queue and what leaves it.
LEMMA QueueItems ==
    ASSUME NEW S, NEW q \in Seq(S), NEW e \in S
    PROVE  /\ Append(q, e) \in Seq(S)
           /\ Items(Append(q, e)) = Items(q) \cup {e}
           /\ q # <<>> => /\ Tail(q) \in Seq(S)
                          /\ Head(q) \in S /\ Head(q) \in Items(q)
                          /\ Items(Tail(q)) \subseteq Items(q)
                          /\ Items(q) \subseteq Items(Tail(q)) \cup {Head(q)}
<1>1. Len(q) \in Nat /\ Len(Append(q, e)) = Len(q) + 1 /\ Append(q, e) \in Seq(S)
  OBVIOUS
<1>2. \A j \in 1..Len(q) : Append(q, e)[j] = q[j]
  OBVIOUS
<1>3. Append(q, e)[Len(q) + 1] = e
  OBVIOUS
<1>4. Items(Append(q, e)) = Items(q) \cup {e}
  <2>1. \A x \in Items(Append(q, e)) : x \in Items(q) \cup {e}
    BY <1>1, <1>2, <1>3 DEF Items
  <2>2. \A x \in Items(q) : x \in Items(Append(q, e))
    BY <1>1, <1>2 DEF Items
  <2>3. e \in Items(Append(q, e))
    <3>1. Len(q) + 1 \in 1..Len(Append(q, e))
      BY <1>1
    <3> QED BY <1>3, <3>1 DEF Items
  <2> QED BY <2>1, <2>2, <2>3
<1>5. ASSUME q # <<>>
      PROVE  /\ Tail(q) \in Seq(S)
             /\ Head(q) \in S /\ Head(q) \in Items(q)
             /\ Items(Tail(q)) \subseteq Items(q)
             /\ Items(q) \subseteq Items(Tail(q)) \cup {Head(q)}
  <2>1. /\ Tail(q) \in Seq(S) /\ Len(Tail(q)) = Len(q) - 1 /\ Len(q) >= 1
        /\ Head(q) = q[1] /\ Head(q) \in S
        /\ \A j \in 1..Len(q) - 1 : Tail(q)[j] = q[j + 1]
    BY <1>5
  <2>2. Head(q) \in Items(q)
    BY <1>1, <2>1 DEF Items
  <2>3. Items(Tail(q)) \subseteq Items(q)
    <3> SUFFICES ASSUME NEW j \in 1..Len(Tail(q)) PROVE Tail(q)[j] \in Items(q)
      BY DEF Items
    <3>1. j + 1 \in 1..Len(q) /\ Tail(q)[j] = q[j + 1]
      BY <1>1, <2>1
    <3> QED BY <3>1 DEF Items
  <2>4. Items(q) \subseteq Items(Tail(q)) \cup {Head(q)}
    <3> SUFFICES ASSUME NEW j \in 1..Len(q), j # 1 PROVE q[j] \in Items(Tail(q))
      BY <2>1 DEF Items
    <3>1. j - 1 \in 1..Len(Tail(q)) /\ Tail(q)[j - 1] = q[j]
      BY <1>1, <2>1
    <3> QED BY <3>1 DEF Items
  <2> QED BY <2>1, <2>2, <2>3, <2>4
<1> QED BY <1>1, <1>4, <1>5

LEMMA NothingQueued == Items(<<>>) = {}
BY DEF Items

\* The larger of two numbers.
LEMMA MaxOfTwo ==
    ASSUME NEW a \in Nat, NEW b \in Nat
    PROVE  Max({a, b}) \in {a, b} /\ Max({a, b}) >= a /\ Max({a, b}) >= b
<1>1. \E x \in {a, b} : \A y \in {a, b} : x >= y
  <2>1. CASE a >= b
    BY <2>1
  <2>2. CASE b >= a
    BY <2>2
  <2> QED BY <2>1, <2>2
<1>2. /\ Max({a, b}) \in {a, b} /\ \A y \in {a, b} : Max({a, b}) >= y
  BY <1>1 DEF Max
<1> QED BY <1>2

\* Timestamps and ids are numbers.
LEMMA SubsNumbers == /\ Time \subseteq Nat /\ 0 \in Time
                     /\ SubscriptionId \subseteq Nat /\ 0 \notin SubscriptionId
                     /\ \A t \in 1..MaxTime : t \in Time /\ t # 0
                     /\ 0..MaxSubscriptions = SubscriptionId \cup {0}
BY SubscriptionsAssumption DEF Time, SubscriptionId

(***************************************************************************)
(* What sending a put to the clients in C does to client c.                *)
(***************************************************************************)
LEMMA PutSent ==
    ASSUME SubsTypeOK, NEW C, NEW id \in [Subscriber -> 0..MaxSubscriptions],
           NEW t \in Time, SendPut(C, id, t), NEW c \in Subscriber
    PROVE  /\ pushed'[c] \in Seq(Push)
           /\ outHashes'[c] \subseteq outHashes[c] \cup {t}
           /\ Passing(c) \subseteq Passing(c)'
           /\ Passing(c)' \subseteq Passing(c) \cup {<<id[c], t>>}
           /\ c \in C => outHashes'[c] = outHashes[c] \cup {t}
           /\ c \notin C => Passing(c)' = Passing(c) /\ outHashes'[c] = outHashes[c]
           /\ c \in C \cap online /\ t \notin outHashes[c] => <<id[c], t>> \in Passing(c)'
<1>1. /\ pushed[c] \in Seq(Push) /\ outHashes[c] \subseteq Time /\ <<id[c], t>> \in Push
  BY DEF SubsTypeOK, Push
<1>2. /\ pushed'[c] = (IF c \in C \cap online /\ t \notin outHashes[c]
                       THEN Append(pushed[c], <<id[c], t>>) ELSE pushed[c])
      /\ outHashes'[c] = IF c \in C THEN outHashes[c] \cup {t} ELSE outHashes[c]
  BY DEF SendPut
<1>3. /\ Append(pushed[c], <<id[c], t>>) \in Seq(Push)
      /\ Items(Append(pushed[c], <<id[c], t>>)) = Items(pushed[c]) \cup {<<id[c], t>>}
  BY <1>1, QueueItems
<1> QED BY <1>1, <1>2, <1>3 DEF Passing

\* Sending keeps the types of what it changes.
LEMMA PutSentType ==
    ASSUME SubsTypeOK, NEW C, NEW id \in [Subscriber -> 0..MaxSubscriptions],
           NEW t \in Time, SendPut(C, id, t)
    PROVE  /\ \A c \in Subscriber : pushed'[c] \in Seq(Push)
           /\ pushed' = [c \in Subscriber |-> pushed'[c]]
           /\ outHashes' \in [Subscriber -> SUBSET Time]
<1>1. \A c \in Subscriber : pushed'[c] \in Seq(Push)
  BY PutSent
<1>2. outHashes' \in [Subscriber -> SUBSET Time]
  BY DEF SendPut, SubsTypeOK
<1>3. pushed' = [c \in Subscriber |-> pushed'[c]]
  BY DEF SendPut
<1> QED BY <1>1, <1>2, <1>3

LEMMA SubsBegins == SubsInit => SubsInv
<1> SUFFICES ASSUME SubsInit PROVE SubsInv
  OBVIOUS
<1>1. SubsTypeOK
  BY SubsNumbers, SubscriptionsAssumption DEF SubsInit, SubsTypeOK, Zeros, Empties
<1>2. pushed = [c \in Subscriber |-> pushed[c]]
  BY DEF SubsInit
<1>3. ASSUME NEW c \in Subscriber PROVE ServedOK(c) /\ CurrentOK(c)
  <2>1. Passing(c) = {}
    BY NothingQueued DEF SubsInit, Passing
  <2> QED BY <2>1 DEF SubsInit, ServedOK, CurrentOK, Zeros, Empties
<1> QED BY <1>1, <1>2, <1>3 DEF SubsInv

(***************************************************************************)
(* The types, for any subscriptions.                                       *)
(***************************************************************************)
LEMMA SubsTypeStep ==
    ASSUME SubsTypeOK, pushed = [c \in Subscriber |-> pushed[c]], [SubsNext]_SubsVars
    PROVE  SubsTypeOK' /\ pushed' = [c \in Subscriber |-> pushed'[c]]
<1> USE SubsNumbers
<1>1. ASSUME NEW c \in Subscriber, Subscribe(c)
      PROVE  SubsTypeOK' /\ pushed' = [x \in Subscriber |-> pushed'[x]]
  <2>1. made + 1 \in SubscriptionId /\ made' \in 0..MaxSubscriptions
    BY <1>1, SubscriptionsAssumption DEF Subscribe, SubsTypeOK, SubscriptionId
  <2>2. /\ asks' \in [Subscriber -> SUBSET SubscriptionId]
        /\ ownReads' \in [Subscriber -> SUBSET Time]
    BY <1>1, <2>1 DEF Subscribe, SubsTypeOK
  <2>3. UNCHANGED <<serverVars, outHashes, pushed, online, putIds, copy, listens,
                    delayed, shown, ownPut, parted, overtaken>>
    BY <1>1 DEF Subscribe
  <2> QED BY <2>1, <2>2, <2>3 DEF SubsTypeOK, serverVars
<1>2. ASSUME NEW c \in Subscriber, OwnRead(c)
      PROVE  SubsTypeOK' /\ pushed' = [x \in Subscriber |-> pushed'[x]]
  <2>1. PICK t \in ownReads[c] : /\ ownReads' = [ownReads EXCEPT ![c] = @ \ {t}]
                                 /\ Trigger(c, t)
    BY <1>2 DEF OwnRead
  <2>2. UNCHANGED <<serverVars, asks, outHashes, pushed, online, putIds, copy, listens,
                    shown, ownPut, made, parted, overtaken>>
    BY <1>2 DEF OwnRead
  <2>3. t \in Time
    BY DEF SubsTypeOK
  <2>4. ownReads' \in [Subscriber -> SUBSET Time] /\ delayed' \in [Subscriber -> Time]
    BY <2>1, <2>3 DEF SubsTypeOK, Trigger
  <2> QED BY <2>2, <2>4 DEF SubsTypeOK, serverVars
<1>3. ASSUME NEW c \in Subscriber, Listen(c)
      PROVE  SubsTypeOK' /\ pushed' = [x \in Subscriber |-> pushed'[x]]
  BY <1>3 DEF Listen, SubsTypeOK, serverVars
<1>4. ASSUME NEW c \in Subscriber, Show(c)
      PROVE  SubsTypeOK' /\ pushed' = [x \in Subscriber |-> pushed'[x]]
  BY <1>4, SMTT(30) DEF Show, SubsTypeOK, serverVars
<1>5. ASSUME NEW c \in Subscriber, HandleSubscribe(c)
      PROVE  SubsTypeOK' /\ pushed' = [x \in Subscriber |-> pushed'[x]]
  <2>1. PICK i \in asks[c] :
          /\ asks' = [asks EXCEPT ![c] = @ \ {i}]
          /\ subscription' = [subscription EXCEPT ![c] = IF @ = 0 THEN i ELSE @]
          /\ oldReads' = IF record = 0 THEN oldReads
                         ELSE oldReads \cup {[client |-> c, id |-> i, data |-> record]}
          /\ due' = IF subscription[c] = 0 THEN [due EXCEPT ![c] = record] ELSE due
    BY <1>5 DEF HandleSubscribe
  <2>2. UNCHANGED <<record, debounced, outHashes, pushed, online, clientVars, made, parted>>
    BY <1>5 DEF HandleSubscribe
  <2>3. i \in SubscriptionId /\ i # 0 /\ i \in 0..MaxSubscriptions /\ record \in Time
    BY DEF SubsTypeOK
  <2>4. /\ asks' \in [Subscriber -> SUBSET SubscriptionId]
        /\ subscription' \in [Subscriber -> 0..MaxSubscriptions]
        /\ \A x \in Subscriber : subscription[x] # 0 => subscription'[x] # 0
    BY <2>1, <2>3 DEF SubsTypeOK
  <2>5. /\ oldReads' \subseteq [client : Subscriber, id : SubscriptionId, data : Time]
        /\ due' \in [Subscriber -> Time]
    BY <2>1, <2>3 DEF SubsTypeOK
  <2> QED BY <2>2, <2>4, <2>5, ZenonT(30) DEF SubsTypeOK, clientVars
<1>6. ASSUME NEW c \in Subscriber, SendNewData(c)
      PROVE  SubsTypeOK' /\ pushed' = [x \in Subscriber |-> pushed'[x]]
  <2>1. /\ \A x \in Subscriber : pushed'[x] \in Seq(Push)
        /\ pushed' = [x \in Subscriber |-> pushed'[x]]
        /\ outHashes' \in [Subscriber -> SUBSET Time]
    <3>1. /\ SendPut({c}, subscription, debounced[c]) /\ debounced[c] \in Time
          /\ subscription \in [Subscriber -> 0..MaxSubscriptions]
      BY <1>6 DEF SendNewData, SubsTypeOK
    <3> QED BY <3>1, PutSentType
  <2>2. /\ UNCHANGED <<record, asks, subscription, oldReads, online, clientVars, made, due, parted>>
        /\ debounced' = [debounced EXCEPT ![c] = 0]
    BY <1>6 DEF SendNewData
  <2> QED BY <2>1, <2>2 DEF SubsTypeOK, clientVars, Push
<1>7. ASSUME NEW c \in Subscriber, ClientReceive(c)
      PROVE  SubsTypeOK' /\ pushed' = [x \in Subscriber |-> pushed'[x]]
  <2> DEFINE id == Head(pushed[c])[1]
             t == Head(pushed[c])[2]
  <2>1. /\ pushed[c] \in Seq(Push) /\ pushed[c] # <<>>
        /\ pushed' = [pushed EXCEPT ![c] = Tail(@)]
    BY <1>7 DEF ClientReceive, SubsTypeOK, Push
  <2>2. /\ Tail(pushed[c]) \in Seq(Push) /\ id \in 0..MaxSubscriptions /\ t \in Time
    BY <2>1 DEF Push
  <2>3. /\ \A x \in Subscriber : pushed'[x] \in Seq(Push)
        /\ pushed' = [x \in Subscriber |-> pushed'[x]]
    BY <2>1, <2>2 DEF SubsTypeOK, Push
  <2>4. Max({copy[c], t}) \in Time
    <3> HIDE DEF t
    <3>1. copy[c] \in Time
      BY DEF SubsTypeOK
    <3> QED BY <2>2, <3>1, MaxOfTwo
  <2>5. /\ putIds' \in [Subscriber -> SUBSET SubscriptionId]
        /\ {copy', delayed'} \subseteq [Subscriber -> Time]
        /\ overtaken' \subseteq Subscriber
    <3> HIDE DEF t
    <3>1. CASE id \in putIds[c]
      BY <1>7, <3>1 DEF ClientReceive, SubsTypeOK
    <3>2. CASE id \notin putIds[c]
      <4>1. /\ putIds' = [putIds EXCEPT ![c] = @ \cup ({id} \ {0})]
            /\ copy' = [copy EXCEPT ![c] = Max({@, t})]
            /\ Trigger(c, copy'[c])
            /\ overtaken' = IF ownReads[c] = {} THEN overtaken ELSE overtaken \cup {c}
        BY <1>7, <3>2 DEF ClientReceive, Stored, t
      <4>2. copy' \in [Subscriber -> Time]
        BY <2>4, <4>1 DEF SubsTypeOK
      <4> QED BY <2>2, <4>1, <4>2, SMTT(30) DEF SubsTypeOK, Trigger
    <3> QED BY <3>1, <3>2
  <2>6. UNCHANGED <<serverVars, asks, outHashes, online, ownReads, listens, shown, ownPut,
                    made, parted>>
    BY <1>7 DEF ClientReceive
  <2> QED BY <2>3, <2>5, <2>6 DEF SubsTypeOK, serverVars, Push
<1>8. ASSUME NEW c \in Subscriber, Part(c)
      PROVE  SubsTypeOK' /\ pushed' = [x \in Subscriber |-> pushed'[x]]
  <2>1. /\ asks' = [asks EXCEPT ![c] = {}] /\ pushed' = [pushed EXCEPT ![c] = <<>>]
        /\ online' \subseteq online /\ parted' = parted \cup {c}
        /\ UNCHANGED <<serverVars, outHashes, clientVars, made>>
    BY <1>8 DEF Part
  <2>2. /\ \A x \in Subscriber : pushed'[x] \in Seq(Push)
        /\ pushed' = [x \in Subscriber |-> pushed'[x]]
    <3>1. <<>> \in Seq(Push)
      OBVIOUS
    <3>2. pushed' = [x \in Subscriber |-> IF x = c THEN <<>> ELSE pushed[x]]
      BY <2>1
    <3>3. \A x \in Subscriber : pushed'[x] = IF x = c THEN <<>> ELSE pushed[x]
      BY <3>2
    <3>4. \A x \in Subscriber : pushed[x] \in Seq(Push)
      BY DEF SubsTypeOK, Push
    <3> QED BY <3>1, <3>2, <3>3, <3>4, Zenon
  <2> QED BY <2>1, <2>2 DEF SubsTypeOK, serverVars, clientVars, Push
<1>9. ASSUME NEW c \in Subscriber, Rejoin(c)
      PROVE  SubsTypeOK' /\ pushed' = [x \in Subscriber |-> pushed'[x]]
  BY <1>9 DEF Rejoin, SubsTypeOK, serverVars, clientVars
<1>10. ASSUME NEW q \in oldReads, SendOldData(q)
       PROVE  SubsTypeOK' /\ pushed' = [x \in Subscriber |-> pushed'[x]]
  <2>1. /\ \A x \in Subscriber : pushed'[x] \in Seq(Push)
        /\ pushed' = [x \in Subscriber |-> pushed'[x]]
        /\ outHashes' \in [Subscriber -> SUBSET Time]
    <3>1. /\ SendPut({q.client}, [Zeros EXCEPT ![q.client] = q.id], q.data) /\ q.data \in Time
          /\ [Zeros EXCEPT ![q.client] = q.id] \in [Subscriber -> 0..MaxSubscriptions]
      BY <1>10 DEF SendOldData, SubsTypeOK, Zeros
    <3> QED BY <3>1, PutSentType
  <2>2. /\ UNCHANGED <<record, asks, subscription, debounced, online, clientVars, made, due, parted>>
        /\ oldReads' = oldReads \ {q}
    BY <1>10 DEF SendOldData
  <2> QED BY <2>1, <2>2 DEF SubsTypeOK, clientVars, Push
<1>11. ASSUME NEW t \in 1..MaxTime, ServerHandlePut(t)
       PROVE  SubsTypeOK' /\ pushed' = [x \in Subscriber |-> pushed'[x]]
  <2>1. record' \in Time
    BY <1>11, MaxOfTwo DEF ServerHandlePut, SubsTypeOK
  <2> QED BY <1>11, <2>1 DEF ServerHandlePut, SubsTypeOK, clientVars
<1>12. ASSUME NEW t \in 1..MaxTime, ServerPut(t)
       PROVE  SubsTypeOK' /\ pushed' = [x \in Subscriber |-> pushed'[x]]
  <2>1. /\ \A x \in Subscriber : pushed'[x] \in Seq(Push)
        /\ pushed' = [x \in Subscriber |-> pushed'[x]]
        /\ outHashes' \in [Subscriber -> SUBSET Time]
    <3>1. SendPut(online, Zeros, t) /\ Zeros \in [Subscriber -> 0..MaxSubscriptions]
      BY <1>12 DEF ServerPut, Zeros
    <3> QED BY <3>1, PutSentType
  <2>2. /\ UNCHANGED <<asks, subscription, debounced, oldReads, online, clientVars, made, due, parted>>
        /\ record' = t
    BY <1>12 DEF ServerPut
  <2> QED BY <2>1, <2>2 DEF SubsTypeOK, clientVars, Push
<1>13. CASE UNCHANGED SubsVars
  <2>1. {copy', delayed', shown', ownPut', due'} \subseteq [Subscriber -> Time]
    BY <1>13 DEF SubsVars, SubsTypeOK
  <2>2. UNCHANGED <<record, asks, subscription, debounced, oldReads, outHashes, pushed, online,
                    putIds, ownReads, listens, made, parted, overtaken>>
    BY <1>13 DEF SubsVars
  <2> QED BY <2>1, <2>2 DEF SubsTypeOK
<1>14. ASSUME NEW c \in Subscriber, NEW t \in 1..MaxTime, ClientPut(c, t)
       PROVE  SubsTypeOK' /\ pushed' = [x \in Subscriber |-> pushed'[x]]
  <2>1. t \in Time
    BY DEF Time
  <2>2. /\ copy' \in [Subscriber -> Time] /\ ownPut' \in [Subscriber -> Time]
        /\ UNCHANGED <<serverVars, asks, outHashes, pushed, online, putIds, ownReads, listens,
                       delayed, shown, made, parted, overtaken>>
    BY <1>14, <2>1 DEF ClientPut, SubsTypeOK
  <2> QED BY <2>2 DEF SubsTypeOK, serverVars
<1> QED BY <1>1, <1>2, <1>3, <1>4, <1>5, <1>6, <1>7, <1>8, <1>9, <1>10, <1>11, <1>12, <1>13,
           <1>14 DEF SubsNext

(***************************************************************************)
(* A step that moves nothing that c is sent; c may put something newer.    *)
(***************************************************************************)
LEMMA ServedKept ==
    ASSUME NEW c \in Subscriber, ServedOK(c),
           subscription'[c] = subscription[c], due'[c] = due[c], putIds'[c] = putIds[c],
           copy[c] \in Nat, copy'[c] \in Nat, copy'[c] >= copy[c],
           Passing(c)' = Passing(c), outHashes'[c] = outHashes[c], outHashes[c] \subseteq Nat,
           record \in Nat, record' \in Nat, due[c] \in Nat, record' >= record,
           \A q \in oldReads : q.client = c => q \in oldReads',
           \A q \in oldReads' : q.client = c => q \in oldReads,
           debounced'[c] = 0 \/ debounced'[c] >= due[c],
           parted \subseteq parted', c \in online \ online' => c \in parted'
    PROVE  ServedOK(c)'
<1>1. \A t \in Nat : Sent(c, t) => Sent(c, t)'
  BY DEF Sent
<1>2. due'[c] <= record'
  BY DEF ServedOK
<1>3. copy[c] >= due[c] => copy'[c] >= due'[c]
  OBVIOUS
<1> QED BY <1>1, <1>2, <1>3 DEF ServedOK

(***************************************************************************)
(* A put, sent to the clients in C, that is due where it has an id.        *)
(***************************************************************************)
LEMMA ServedSent ==
    ASSUME SubsTypeOK, NEW C, NEW id \in [Subscriber -> 0..MaxSubscriptions],
           NEW t \in Time, SendPut(C, id, t), NEW c \in Subscriber, ServedOK(c),
           UNCHANGED <<subscription, due, online, clientVars, parted>>,
           record \in Nat, record' \in Nat, record' >= record,
           \A q \in oldReads' : q.client = c => q \in oldReads,
           \A q \in oldReads : q.client = c /\ q \notin oldReads' => c \in C /\ t >= due[c],
           debounced'[c] \in {0, debounced[c]},
           c \in C /\ id[c] # 0 => t >= due[c] /\ subscription[c] # 0
    PROVE  ServedOK(c)'
<1> DEFINE p == <<id[c], t>>
<1>1. /\ outHashes'[c] \subseteq outHashes[c] \cup {t}
      /\ Passing(c) \subseteq Passing(c)'
      /\ Passing(c)' \subseteq Passing(c) \cup {p}
      /\ c \notin C => Passing(c)' = Passing(c) /\ outHashes'[c] = outHashes[c]
      /\ c \in C \cap online /\ t \notin outHashes[c] => p \in Passing(c)'
  BY PutSent
<1>2. p[1] = id[c] /\ p[2] = t /\ t \in Nat /\ due[c] \in Nat /\ copy[c] \in Nat
  BY SubsNumbers DEF SubsTypeOK
<1>3. /\ copy'[c] = copy[c] /\ due'[c] = due[c] /\ subscription'[c] = subscription[c]
      /\ putIds'[c] = putIds[c] /\ parted' = parted /\ online' = online
  BY DEF clientVars
<1> HIDE DEF p
<1>4. \A x : Sent(c, x) => Sent(c, x)'
  BY <1>1, <1>3 DEF Sent
<1>5. c \notin parted /\ c \in C => Sent(c, t)'
  BY <1>1, <1>2, <1>4 DEF Sent, ServedOK
<1>6. \A x \in Passing(c)' : x[1] # 0 => x[2] >= due[c] /\ subscription[c] # 0
  BY <1>1, <1>2 DEF ServedOK
<1>7. ASSUME c \notin parted'
      PROVE  \/ copy'[c] >= due'[c]
             \/ \E q \in oldReads' : q.client = c
             \/ \E x \in Passing(c)' : x[2] >= due'[c]
  <2>1. CASE \E q \in oldReads : q.client = c /\ q \notin oldReads'
    BY <1>2, <1>3, <1>5, <1>7, <2>1 DEF Sent
  <2>2. CASE \A q \in oldReads : q.client = c => q \in oldReads'
    BY <1>1, <1>3, <1>7, <2>2 DEF ServedOK
  <2> QED BY <2>1, <2>2
<1>8. c \notin parted => \A x \in outHashes'[c] : Sent(c, x)'
  BY <1>1, <1>4, <1>5 DEF ServedOK
<1>9. subscription[c] = 0 => \A x \in Passing(c)' : x[1] = 0
  BY <1>6
<1>10. due'[c] <= record'
  BY <1>2, <1>3 DEF ServedOK
<1> QED BY <1>3, <1>6, <1>7, <1>8, <1>9, <1>10 DEF ServedOK

(***************************************************************************)
(* A client hears a put: unless it had one of the subscription's before,   *)
(* and so what is due, it stores what is newer.                            *)
(***************************************************************************)
LEMMA ServedHeard ==
    ASSUME SubsInv, NEW d \in Subscriber, ClientReceive(d), NEW c \in Subscriber
    PROVE  ServedOK(c)'
<1>1. /\ pushed[d] \in Seq(Push) /\ pushed[d] # <<>>
      /\ pushed' = [pushed EXCEPT ![d] = Tail(@)]
      /\ pushed = [x \in Subscriber |-> pushed[x]]
      /\ ServedOK(c) /\ SubsTypeOK
      /\ UNCHANGED <<serverVars, asks, outHashes, online, ownReads, listens, shown, made, parted>>
  BY DEF ClientReceive, SubsTypeOK, Push, SubsInv
<1>2. /\ record \in Nat /\ due[c] \in Nat /\ copy[c] \in Nat
  BY <1>1, SubsNumbers DEF SubsTypeOK
<1>3. CASE c # d
  <2>1. pushed'[c] = pushed[c] /\ putIds'[c] = putIds[c] /\ copy'[c] = copy[c]
    BY <1>1, <1>3 DEF ClientReceive, SubsTypeOK, Stored
  <2>2. Passing(c)' = Passing(c)
    BY <2>1 DEF Passing
  <2>3. outHashes[c] \subseteq Nat /\ (debounced'[c] = 0 \/ debounced'[c] >= due[c])
    BY <1>1, SubsNumbers DEF SubsTypeOK, ServedOK, serverVars
  <2> QED BY <1>1, <1>2, <2>1, <2>2, <2>3, ServedKept DEF serverVars
<1>4. CASE c = d
  <2>1. PICK p \in Push : p = Head(pushed[c])
    BY <1>1, <1>4, QueueItems
  <2>2. /\ p \in Passing(c) /\ Passing(c)' \subseteq Passing(c)
        /\ Passing(c) \subseteq Passing(c)' \cup {p}
    <3>1. pushed'[c] = Tail(pushed[c])
      BY <1>1, <1>4
    <3> QED BY <1>1, <1>4, <2>1, <3>1, QueueItems DEF Passing
  <2>3. p[1] \in 0..MaxSubscriptions /\ p[2] \in Time /\ p[2] \in Nat
    BY SubsNumbers DEF Push
  <2>4. /\ copy'[c] \in Nat /\ copy'[c] >= copy[c]
        /\ copy'[c] >= p[2] \/ (p[1] \in putIds[c] /\ p[1] # 0)
        /\ putIds'[c] \subseteq putIds[c] \cup ({p[1]} \ {0})
    <3>1. CASE p[1] \in putIds[c]
      BY <1>1, <1>2, <1>4, <2>1, <3>1, SubsNumbers DEF ClientReceive, SubsTypeOK
    <3>2. CASE p[1] \notin putIds[c]
      <4>1. /\ putIds' = [putIds EXCEPT ![c] = @ \cup ({p[1]} \ {0})]
            /\ copy' = [copy EXCEPT ![c] = Max({@, p[2]})]
        BY <1>4, <2>1, <3>2 DEF ClientReceive, Stored
      <4>2. copy'[c] = Max({copy[c], p[2]}) /\ putIds'[c] = putIds[c] \cup ({p[1]} \ {0})
        BY <1>1, <4>1 DEF SubsTypeOK
      <4>3. PICK m \in Nat : m = Max({copy[c], p[2]}) /\ m >= copy[c] /\ m >= p[2]
        BY <1>2, <2>3, MaxOfTwo
      <4>4. copy'[c] = m
        BY <4>2, <4>3
      <4> QED BY <4>2, <4>3, <4>4
    <3> QED BY <3>1, <3>2
  <2>5. /\ subscription' = subscription /\ due' = due /\ oldReads' = oldReads
        /\ debounced' = debounced /\ record' = record /\ parted' = parted
        /\ online' = online /\ outHashes' = outHashes
    BY <1>1 DEF serverVars
  <2>6. copy'[c] < p[2] => copy[c] >= due[c] /\ subscription[c] # 0
    BY <1>1, <2>3, <2>4 DEF ServedOK
  <2>7. \A x \in Time : Sent(c, x) => Sent(c, x)'
    <3> SUFFICES ASSUME NEW x \in Time, Sent(c, x) PROVE Sent(c, x)'
      OBVIOUS
    <3>1. x \in Nat
      BY SubsNumbers
    <3>2. CASE copy[c] >= x \/ (subscription[c] # 0 /\ copy[c] >= due[c])
      BY <1>2, <2>4, <2>5, <3>1, <3>2 DEF Sent
    <3>3. CASE \E y \in Passing(c) : y[2] = x /\ y \in Passing(c)'
      BY <3>3 DEF Sent
    <3>4. CASE p[2] = x
      BY <1>2, <2>3, <2>4, <2>5, <2>6, <3>1, <3>4 DEF Sent
    <3> QED BY <2>2, <3>2, <3>3, <3>4 DEF Sent
  <2>8. c \notin parted => \A x \in outHashes[c] : Sent(c, x)'
    BY <1>1, <2>7 DEF ServedOK, SubsTypeOK
  <2>9. c \notin parted =>
          \/ copy'[c] >= due[c]
          \/ \E q \in oldReads : q.client = c
          \/ \E x \in Passing(c)' : x[2] >= due[c]
    <3>1. CASE copy[c] >= due[c]
      BY <1>2, <2>4, <3>1
    <3>2. CASE \E x \in Passing(c) : x[2] >= due[c] /\ x \notin Passing(c)'
      BY <1>2, <2>2, <2>3, <2>4, <2>6, <3>2
    <3> QED BY <1>1, <3>1, <3>2 DEF ServedOK
  <2>10. /\ putIds'[c] # {} => copy'[c] >= due[c]
         /\ subscription[c] = 0 => putIds'[c] = {}
    <3>1. p[1] # 0 => p[2] >= due[c] /\ subscription[c] # 0
      BY <1>1, <2>2 DEF ServedOK
    <3> QED BY <1>1, <1>2, <2>3, <2>4, <3>1, SMTT(30) DEF ServedOK
  <2> QED BY <1>1, <2>2, <2>5, <2>8, <2>9, <2>10 DEF ServedOK
<1> QED BY <1>3, <1>4

(***************************************************************************)
(* Serving c, for any step.                                                *)
(***************************************************************************)
LEMMA ServedStep ==
    ASSUME SubsInv, [SubsNext]_SubsVars, SubsTypeOK', NEW c \in Subscriber
    PROVE  ServedOK(c)'
<1>0. /\ SubsTypeOK /\ ServedOK(c)
      /\ record \in Nat /\ record' \in Nat /\ due[c] \in Nat /\ copy[c] \in Nat
      /\ debounced[c] \in Nat
      /\ pushed = [x \in Subscriber |-> pushed[x]]
      /\ debounced[c] = 0 \/ debounced[c] >= due[c]
  BY SubsNumbers DEF SubsInv, SubsTypeOK, ServedOK
<1>a. outHashes[c] \subseteq Nat
  BY <1>0, SubsNumbers DEF SubsTypeOK
<1>1. CASE UNCHANGED <<serverVars, outHashes, pushed, putIds, copy, parted, online>>
  <2>1. Passing(c)' = Passing(c)
    BY <1>1 DEF Passing
  <2> QED BY <1>0, <1>a, <1>1, <2>1, ServedKept DEF serverVars
<1>2. ASSUME NEW d \in Subscriber, Subscribe(d) \/ OwnRead(d) \/ Listen(d) \/ Show(d)
      PROVE  ServedOK(c)'
  BY <1>1, <1>2 DEF Subscribe, OwnRead, Listen, Show
<1>3. ASSUME NEW d \in Subscriber, HandleSubscribe(d) PROVE ServedOK(c)'
  <2>1. PICK i \in asks[d] :
          /\ subscription' = [subscription EXCEPT ![d] = IF @ = 0 THEN i ELSE @]
          /\ oldReads' = IF record = 0 THEN oldReads
                         ELSE oldReads \cup {[client |-> d, id |-> i, data |-> record]}
          /\ due' = IF subscription[d] = 0 THEN [due EXCEPT ![d] = record] ELSE due
    BY <1>3 DEF HandleSubscribe
  <2>2. UNCHANGED <<record, debounced, outHashes, pushed, online, clientVars, made, parted>>
    BY <1>3 DEF HandleSubscribe
  <2>3. /\ i \in Nat /\ i # 0 /\ Passing(c)' = Passing(c)
        /\ putIds'[c] = putIds[c] /\ copy'[c] = copy[c] /\ record' = record
        /\ debounced' = debounced /\ outHashes' = outHashes /\ parted' = parted
        /\ online' = online
    BY <1>0, <2>2, SubsNumbers DEF SubsTypeOK, Passing, clientVars
  <2>4. \A q \in oldReads' : q \in oldReads \/ (q.client = d /\ q.data = record)
    <3> DEFINE new == [client |-> d, id |-> i, data |-> record]
    <3>1. new.client = d /\ new.data = record
      OBVIOUS
    <3>2. \A q \in oldReads' : q \in oldReads \/ q = new
      BY <2>1
    <3> HIDE DEF new
    <3> QED BY <3>1, <3>2
  <2>5. oldReads \subseteq oldReads'
    BY <2>1
  <2>6. CASE c # d
    <3>1. subscription'[c] = subscription[c] /\ due'[c] = due[c]
      BY <1>0, <2>1, <2>6 DEF SubsTypeOK
    <3> QED BY <1>0, <1>a, <2>3, <2>4, <2>5, <2>6, <3>1, ServedKept
  <2>7. CASE c = d /\ subscription[c] # 0
    <3>1. subscription'[c] = subscription[c] /\ due'[c] = due[c]
      BY <1>0, <2>1, <2>7 DEF SubsTypeOK
    <3>2. \A x : Sent(c, x) => Sent(c, x)'
      BY <2>3, <3>1 DEF Sent
    <3> QED BY <1>0, <2>3, <2>4, <2>5, <2>7, <3>1, <3>2 DEF ServedOK
  <2>8. CASE c = d /\ subscription[c] = 0
    <3>1. subscription'[c] = i /\ due'[c] = record
      BY <1>0, <2>1, <2>8 DEF SubsTypeOK
    <3>2. \A x : Sent(c, x) => Sent(c, x)'
      BY <2>3, <2>8 DEF Sent
    <3>3. debounced[c] = 0 /\ putIds[c] = {} /\ \A x \in Passing(c) : x[1] = 0
      BY <1>0, <2>8 DEF ServedOK, SubsTypeOK
    <3>4. copy[c] >= record \/ \E q \in oldReads' : q.client = c
      <4>1. CASE record = 0
        BY <1>0, <4>1
      <4>2. CASE record # 0
        <5> DEFINE new == [client |-> d, id |-> i, data |-> record]
        <5>1. new \in oldReads' /\ new.client = d
          BY <2>1, <4>2
        <5> HIDE DEF new
        <5> QED BY <2>8, <5>1
      <4> QED BY <4>1, <4>2
    <3>5. \A q \in oldReads' : q.client = c => q.data >= record
      BY <1>0, <2>4, <2>8 DEF ServedOK
    <3> QED BY <1>0, <2>3, <2>8, <3>1, <3>2, <3>3, <3>4, <3>5 DEF ServedOK
  <2> QED BY <2>6, <2>7, <2>8
<1>4. ASSUME NEW d \in Subscriber, SendNewData(d) PROVE ServedOK(c)'
  <2>1. /\ SendPut({d}, subscription, debounced[d]) /\ debounced[d] \in Time
        /\ subscription \in [Subscriber -> 0..MaxSubscriptions]
        /\ debounced[d] # 0 /\ debounced' = [debounced EXCEPT ![d] = 0]
        /\ UNCHANGED <<record, asks, subscription, oldReads, online, clientVars, made, due, parted>>
    BY <1>0, <1>4 DEF SendNewData, SubsTypeOK
  <2>2. debounced'[c] \in {0, debounced[c]}
    BY <1>0, <2>1 DEF SubsTypeOK
  <2>3. c \in {d} => debounced[d] >= due[c] /\ subscription[c] # 0
    BY <1>0, <2>1 DEF SubsTypeOK
  <2> QED BY <1>0, <2>1, <2>2, <2>3, ServedSent
<1>5. ASSUME NEW q \in oldReads, SendOldData(q) PROVE ServedOK(c)'
  <2> DEFINE id == [Zeros EXCEPT ![q.client] = q.id]
  <2>1. /\ SendPut({q.client}, id, q.data) /\ q.data \in Time /\ q.client \in Subscriber
        /\ id \in [Subscriber -> 0..MaxSubscriptions]
        /\ oldReads' = oldReads \ {q}
        /\ UNCHANGED <<record, asks, subscription, debounced, online, clientVars, made, due, parted>>
    BY <1>0, <1>5, SubsNumbers DEF SendOldData, SubsTypeOK, Zeros
  <2>2. c = q.client => q.data >= due[c] /\ subscription[c] # 0
    BY <1>0 DEF ServedOK
  <2> HIDE DEF id
  <2> QED BY <1>0, <2>1, <2>2, ServedSent
<1>6. ASSUME NEW t \in 1..MaxTime, ServerPut(t) PROVE ServedOK(c)'
  <2>1. /\ SendPut(online, Zeros, t) /\ t \in Time /\ Zeros \in [Subscriber -> 0..MaxSubscriptions]
        /\ record' >= record /\ Zeros[c] = 0
        /\ UNCHANGED <<asks, subscription, debounced, oldReads, online, clientVars, made, due, parted>>
    BY <1>0, <1>6, SubsNumbers DEF ServerPut, Zeros
  <2> QED BY <1>0, <2>1, ServedSent
<1>7. ASSUME NEW t \in 1..MaxTime, ServerHandlePut(t) PROVE ServedOK(c)'
  <2>1. /\ record' = Max({record, t})
        /\ debounced' = [x \in Subscriber |-> IF subscription[x] = 0 THEN 0 ELSE record']
        /\ UNCHANGED <<asks, subscription, oldReads, outHashes, pushed, online,
                       clientVars, made, due, parted>>
    BY <1>7 DEF ServerHandlePut
  <2>2. record' >= record
    BY <1>0, <2>1, MaxOfTwo
  <2>3. debounced'[c] = 0 \/ debounced'[c] >= due[c]
    <3>1. record' >= due[c]
      BY <1>0, <2>2 DEF ServedOK
    <3> QED BY <2>1, <3>1
  <2>4. Passing(c)' = Passing(c)
    BY <2>1 DEF Passing
  <2>5. /\ subscription' = subscription /\ due' = due /\ putIds' = putIds /\ copy' = copy
        /\ outHashes' = outHashes /\ oldReads' = oldReads /\ parted' = parted
        /\ online' = online
    BY <2>1 DEF clientVars
  <2> QED BY <1>0, <1>a, <2>2, <2>3, <2>4, <2>5, ServedKept
<1>8. ASSUME NEW d \in Subscriber, ClientReceive(d) PROVE ServedOK(c)'
  BY <1>8, ServedHeard
<1>9. ASSUME NEW d \in Subscriber, Part(d) PROVE ServedOK(c)'
  <2>1. /\ online' = online \ {d} /\ pushed' = [pushed EXCEPT ![d] = <<>>]
        /\ parted' = parted \cup {d}
        /\ UNCHANGED <<serverVars, outHashes, clientVars, made>>
    BY <1>9 DEF Part
  <2>2. CASE c # d
    <3>1. Passing(c)' = Passing(c)
      BY <1>0, <2>1, <2>2 DEF Passing
    <3> QED BY <1>0, <1>a, <2>1, <2>2, <3>1, ServedKept DEF serverVars, clientVars
  <2>3. CASE c = d
    <3>1. Passing(c)' = {} /\ c \in parted'
      BY <1>0, <2>1, <2>3, NothingQueued DEF Passing
    <3> QED BY <1>0, <2>1, <3>1 DEF serverVars, clientVars, ServedOK
  <2> QED BY <2>2, <2>3
<1>10. ASSUME NEW d \in Subscriber, Rejoin(d) PROVE ServedOK(c)'
  <2>1. /\ d \notin online /\ online' = online \cup {d}
        /\ outHashes' = [outHashes EXCEPT ![d] = {}]
        /\ UNCHANGED <<serverVars, asks, pushed, clientVars, made, parted>>
    BY <1>10 DEF Rejoin
  <2>2. outHashes'[c] \subseteq outHashes[c] /\ Passing(c)' = Passing(c)
    BY <1>0, <2>1 DEF SubsTypeOK, Passing
  <2>3. \A x : Sent(c, x) => Sent(c, x)'
    BY <2>1, <2>2 DEF Sent, clientVars, serverVars
  <2> QED BY <1>0, <2>1, <2>2, <2>3 DEF serverVars, clientVars, ServedOK
<1>11. ASSUME NEW d \in Subscriber, NEW t \in 1..MaxTime, ClientPut(d, t) PROVE ServedOK(c)'
  <2>1. /\ t > copy[d] /\ copy' = [copy EXCEPT ![d] = t]
        /\ UNCHANGED <<serverVars, outHashes, pushed, online, putIds, parted>>
    BY <1>11 DEF ClientPut
  <2>2. copy'[c] \in Nat /\ copy'[c] >= copy[c]
    BY <1>0, <2>1 DEF SubsTypeOK
  <2>3. Passing(c)' = Passing(c)
    BY <2>1 DEF Passing
  <2> QED BY <1>0, <1>a, <2>1, <2>2, <2>3, ServedKept DEF serverVars
<1>12. CASE UNCHANGED SubsVars
  BY <1>1, <1>12 DEF SubsVars, serverVars
<1> QED BY <1>2, <1>3, <1>4, <1>5, <1>6, <1>7, <1>8, <1>9, <1>10, <1>11, <1>12 DEF SubsNext

(***************************************************************************)
(* What the application of c is shown, for any step.                       *)
(***************************************************************************)
LEMMA CurrentStep ==
    ASSUME SubsInv, [SubsNext]_SubsVars, NEW c \in Subscriber
    PROVE  CurrentOK(c)'
<1>0. SubsTypeOK /\ CurrentOK(c)
  BY DEF SubsInv
<1>1. CASE UNCHANGED <<copy, ownPut, ownReads, listens, delayed, shown, overtaken>>
  BY <1>0, <1>1 DEF CurrentOK
<1>2. ASSUME NEW d \in Subscriber, Subscribe(d) PROVE CurrentOK(c)'
  <2>1. /\ ownReads' = [ownReads EXCEPT ![d] = @ \cup ({copy[d]} \ {0})]
        /\ UNCHANGED <<copy, ownPut, listens, delayed, shown, overtaken>>
    BY <1>2 DEF Subscribe
  <2>2. \A t \in ownReads'[c] : t \in ownReads[c] \/ t = copy[c]
    BY <1>0, <2>1 DEF SubsTypeOK
  <2> QED BY <1>0, <2>1, <2>2 DEF CurrentOK
<1>3. ASSUME NEW d \in Subscriber, OwnRead(d) PROVE CurrentOK(c)'
  <2>1. PICK t \in ownReads[d] :
          /\ ownReads' = [ownReads EXCEPT ![d] = @ \ {t}]
          /\ delayed' = IF d \in listens THEN [delayed EXCEPT ![d] = t] ELSE delayed
    BY <1>3 DEF OwnRead, Trigger
  <2>2. UNCHANGED <<copy, ownPut, listens, shown, overtaken>>
    BY <1>3 DEF OwnRead
  <2>3. ownReads'[c] \subseteq ownReads[c]
    BY <1>0, <2>1 DEF SubsTypeOK
  <2>4. delayed'[c] = delayed[c] \/ (delayed'[c] = t /\ t \in ownReads[c])
    <3>1. delayed \in [Subscriber -> Time]
      BY <1>0 DEF SubsTypeOK
    <3>2. CASE c = d
      BY <2>1, <3>1, <3>2
    <3>3. CASE c # d
      BY <2>1, <3>1, <3>3
    <3> QED BY <3>2, <3>3
  <2>5. CASE delayed'[c] = delayed[c]
    BY <1>0, <2>2, <2>3, <2>5 DEF CurrentOK
  <2>6. CASE delayed'[c] = t /\ t \in ownReads[c]
    BY <1>0, <2>2, <2>3, <2>6 DEF CurrentOK
  <2> QED BY <2>4, <2>5, <2>6
<1>4. ASSUME NEW d \in Subscriber, Listen(d) PROVE CurrentOK(c)'
  <2>1. /\ listens' = (listens \ {d}) \cup ({d} \ listens)
        /\ delayed' = [delayed EXCEPT ![d] = 0]
        /\ shown' = [shown EXCEPT ![d] = 0]
        /\ UNCHANGED <<copy, ownPut, ownReads, overtaken>>
    BY <1>4 DEF Listen
  <2>2. CASE c = d
    BY <1>0, <2>1, <2>2 DEF CurrentOK, SubsTypeOK
  <2>3. CASE c # d
    <3>1. /\ delayed'[c] = delayed[c] /\ shown'[c] = shown[c] /\ (c \in listens' <=> c \in listens)
      BY <1>0, <2>1, <2>3 DEF SubsTypeOK
    <3> QED BY <1>0, <2>1, <3>1 DEF CurrentOK
  <2> QED BY <2>2, <2>3
<1>5. ASSUME NEW d \in Subscriber, Show(d) PROVE CurrentOK(c)'
  <2>1. /\ delayed[d] # 0 /\ shown' = [shown EXCEPT ![d] = delayed[d]]
        /\ delayed' = [delayed EXCEPT ![d] = 0]
        /\ UNCHANGED <<copy, ownPut, ownReads, listens, overtaken>>
    BY <1>5 DEF Show
  <2>2. IF c = d THEN delayed'[c] = 0 /\ shown'[c] = delayed[c]
        ELSE delayed'[c] = delayed[c] /\ shown'[c] = shown[c]
    BY <1>0, <2>1 DEF SubsTypeOK
  <2> QED BY <1>0, <2>1, <2>2 DEF CurrentOK
<1>6. ASSUME NEW d \in Subscriber, ClientReceive(d) PROVE CurrentOK(c)'
  <2>1. UNCHANGED <<ownReads, ownPut, listens, shown>>
    BY <1>6 DEF ClientReceive
  <2>2. PICK p \in Push : p = Head(pushed[d])
    BY <1>0, <1>6, QueueItems DEF ClientReceive, SubsTypeOK, Push
  <2>3. CASE p[1] \in putIds[d]
    <3>1. UNCHANGED <<copy, delayed, overtaken>>
      BY <1>6, <2>2, <2>3 DEF ClientReceive
    <3> QED BY <1>1, <2>1, <3>1
  <2>4. CASE p[1] \notin putIds[d]
    <3>1. /\ copy' = [copy EXCEPT ![d] = Max({@, p[2]})]
          /\ delayed' = IF d \in listens THEN [delayed EXCEPT ![d] = copy'[d]] ELSE delayed
          /\ overtaken' = IF ownReads[d] = {} THEN overtaken ELSE overtaken \cup {d}
      BY <1>6, <2>2, <2>4 DEF ClientReceive, Stored, Trigger
    <3>2. CASE c # d
      <4>1. copy'[c] = copy[c] /\ delayed'[c] = delayed[c] /\ (c \in overtaken' <=> c \in overtaken)
        BY <1>0, <3>1, <3>2 DEF SubsTypeOK
      <4> QED BY <1>0, <2>1, <4>1 DEF CurrentOK
    <3>3. CASE c = d
      <4>1. copy[c] \in Nat /\ p[2] \in Nat
        BY <1>0, SubsNumbers DEF SubsTypeOK, Push
      <4>2. PICK m \in Nat : m = Max({copy[c], p[2]}) /\ m >= copy[c]
        BY <4>1, MaxOfTwo
      <4>3. /\ copy'[c] = m
            /\ c \in listens => delayed'[c] = m
            /\ c \notin overtaken' => c \notin overtaken /\ ownReads[c] = {}
        BY <1>0, <3>1, <3>3, <4>2 DEF SubsTypeOK
      <4>4. c \in listens /\ c \notin overtaken /\ m = 0 /\ m # ownPut[c]
                => shown[c] = 0 \/ shown[c] = copy[c]
        BY <1>0, <4>1, <4>2 DEF CurrentOK
      <4> QED BY <2>1, <4>1, <4>2, <4>3, <4>4 DEF CurrentOK
    <3> QED BY <3>2, <3>3
  <2> QED BY <2>3, <2>4
<1>7. ASSUME \/ \E d \in Subscriber : \/ HandleSubscribe(d) \/ SendNewData(d)
                                      \/ Part(d) \/ Rejoin(d)
             \/ \E q \in oldReads : SendOldData(q)
             \/ \E t \in 1..MaxTime : ServerHandlePut(t) \/ ServerPut(t)
             \/ UNCHANGED SubsVars
      PROVE  CurrentOK(c)'
  BY <1>1, <1>7 DEF HandleSubscribe, SendNewData, Part, Rejoin, SendOldData,
                    ServerHandlePut, ServerPut, clientVars, SubsVars
<1>8. ASSUME NEW d \in Subscriber, NEW t \in 1..MaxTime, ClientPut(d, t) PROVE CurrentOK(c)'
  <2>1. /\ copy' = [copy EXCEPT ![d] = t] /\ ownPut' = [ownPut EXCEPT ![d] = t]
        /\ UNCHANGED <<ownReads, listens, delayed, shown, overtaken>>
    BY <1>8 DEF ClientPut
  <2>2. CASE c = d
    <3>1. copy'[c] = ownPut'[c]
      BY <1>0, <2>1, <2>2 DEF SubsTypeOK
    <3> QED BY <3>1 DEF CurrentOK
  <2>3. CASE c # d
    <3>1. copy'[c] = copy[c] /\ ownPut'[c] = ownPut[c]
      BY <1>0, <2>1, <2>3 DEF SubsTypeOK
    <3> QED BY <1>0, <2>1, <3>1 DEF CurrentOK
  <2> QED BY <2>2, <2>3
<1> QED BY <1>2, <1>3, <1>4, <1>5, <1>6, <1>7, <1>8 DEF SubsNext

LEMMA SubsStep == ASSUME SubsInv, [SubsNext]_SubsVars PROVE SubsInv'
<1>1. SubsTypeOK' /\ pushed' = [c \in Subscriber |-> pushed'[c]]
  BY SubsTypeStep DEF SubsInv
<1>2. \A c \in Subscriber : ServedOK(c)' /\ CurrentOK(c)'
  BY <1>1, ServedStep, CurrentStep
<1> QED BY <1>1, <1>2 DEF SubsInv

(***************************************************************************)
(* The state of subscriptions is well formed.                              *)
(***************************************************************************)
THEOREM SubscriptionsTyped == SubsSpec => []SubsTypeOK
<1>1. SubsInv => SubsTypeOK
  BY DEF SubsInv
<1> QED BY SubsBegins, SubsStep, <1>1, PTL DEF SubsSpec

(***************************************************************************)
(* A client that stays connected ends with a record that is at least as    *)
(* new as the one the server held when it subscribed first, for any        *)
(* clients, subscriptions and records, although a subscription's second    *)
(* put is dropped and a hash is sent once.  It says nothing of what the    *)
(* server holds at later subscriptions, which need not be sent.            *)
(***************************************************************************)
THEOREM ServedInTheEnd == SubsSpec => []SubscribersServed
<1>1. SubsInv => SubscribersServed
  <2> SUFFICES ASSUME SubsInv, NEW c \in Subscriber \ parted, Settled(c)
               PROVE  copy[c] >= due[c]
    BY DEF SubscribersServed
  <2>1. Passing(c) = {}
    BY NothingQueued DEF Settled, Passing
  <2> QED BY <2>1 DEF SubsInv, ServedOK, Settled
<1> QED BY SubsBegins, SubsStep, <1>1, PTL DEF SubsSpec

(***************************************************************************)
(* What a listener was called with last is what its peer holds, in         *)
(* whatever order records come and timers of triggers run out, unless the  *)
(* peer put that itself, without a trigger, or a put overtook the peer's   *)
(* own read.                                                               *)
(***************************************************************************)
THEOREM ListenersKeepUp == SubsSpec => []ListenersCurrent
<1>1. SubsInv => ListenersCurrent
  BY DEF SubsInv, SubsTypeOK, ListenersCurrent, CurrentOK, Settled
<1> QED BY SubsBegins, SubsStep, <1>1, PTL DEF SubsSpec

-----------------------------------------------------------------------------
(***************************************************************************)
(* The services keep their state apart: a behaviour of all of them is one  *)
(* of each.                                                                *)
(***************************************************************************)
LEMMA EachService ==
    ServicesSpec => CallsSpec /\ SubsSpec /\ PeersSpec /\ SignUpSpec /\ AccountsSpec
<1>1. ServicesInit => CallsInit /\ SubsInit /\ PeersInit /\ SignUpInit /\ AccountsInit
  BY DEF ServicesInit
<1>2. [ServicesNext]_servicesVars =>
        /\ [CallsNext]_CallVars /\ [SubsNext]_SubsVars /\ [PeersNext]_PeerVars
        /\ [SignUpNext]_SignUpVars /\ [AccountsNext]_AccountVars
  <2>1. CASE UNCHANGED servicesVars
    BY <2>1 DEF servicesVars
  <2>2. CASE ServicesNext
    BY <2>2 DEF ServicesNext
  <2> QED BY <2>1, <2>2
<1> QED BY <1>1, <1>2, PTL DEF ServicesSpec, CallsSpec, SubsSpec, PeersSpec, SignUpSpec,
                               AccountsSpec

\* The state of every service is well formed.
THEOREM ServicesTyped == ServicesSpec => []ServicesTypeOK
<1>1. CallsTypeOK /\ SubsTypeOK /\ PeersTypeOK /\ SignUpTypeOK /\ AccountsTypeOK
        => ServicesTypeOK
  BY DEF ServicesTypeOK
<1> QED BY EachService, CallsTyped, SubscriptionsTyped, ListedOnce, SignUpTyped,
           AccountsTyped, <1>1, PTL
=============================================================================
