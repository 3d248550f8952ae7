------------------------------ MODULE Accounts ------------------------------
(***************************************************************************)
(* The two accounts of a peer, its own and that of its user, and the puts  *)
(* signed with the second.                                                 *)
(*                                                                         *)
(* An account (ToolDbEcdsaUser) is a pair of keys and an address.  The     *)
(* constructor calls anonUser and does not wait; anonUser generates keys   *)
(* and then assigns keys and address; setUser imports keys, assigns them,  *)
(* and assigns the address after another await.  toolDbPut reads the       *)
(* account three times, with an await after each: the address to hash, the *)
(* keys to sign, and the address again for the message.                    *)
(*                                                                         *)
(* Keys and address are known by the account they are of.  Nothing in the  *)
(* repository writes %default-user%: a user begins as an anonymous one.    *)
(***************************************************************************)
EXTENDS Naturals, SequencesExt, FiniteSets

CONSTANTS
    User,         \* the accounts that are signed in to
    NoAccount,    \* undefined
    MaxGenerated, \* bound: the accounts generated, which are 1, 2, ...
    MaxSignIns,   \* bound: the calls of signIn and keysSignIn
    MaxPosts      \* bound: the calls of putData

ASSUME AccountsAssumption ==
    /\ NoAccount \notin User /\ User \cap Nat = {} /\ NoAccount \notin Nat
    /\ {MaxGenerated, MaxSignIns, MaxPosts} \subseteq Nat
    /\ MaxGenerated >= 2  \* those of the constructor

VARIABLES
    keys,       \* keys[r]: _keys of the account of r
    address,    \* address[r]: its _address
    generating, \* generating[r]: the calls of anonUser that generate keys, in
                \* the order of the calls: pairs of an account and who waits
    setting,    \* the calls of setUser and what precedes them in a sign-in
    opening,    \* where _initializeAccounts is
    savedPeer,  \* %default-peer% in the store of the peer
    generated,  \* the accounts generated so far
    posts,      \* the calls of putData
    \* History variables.
    user,       \* the account that initialising or the last sign-in ended with
    mixed,      \* some sign-in was under way when another began
    late        \* some keys were generated before those asked for earlier

AccountVars == <<keys, address, generating, setting, opening, savedPeer, generated,
                 posts, user, mixed, late>>

Role == {"peer", "user"}
Account == User \cup (1..MaxGenerated)
Maybe == Account \cup {NoAccount}

Calling == Account \X {"nobody", "opening", "call"}

Setting == [call : 1..MaxSignIns \cup {0}, role : Role, account : Account,
            stage : {"asked", "importing", "addressing"}]

Post == [stage : {"hashing", "signing", "sent"}, hash : Maybe, sig : Maybe, by : Maybe,
         user : Maybe, crossed : BOOLEAN]

AccountsTypeOK ==
    /\ {keys, address} \subseteq [Role -> Maybe]
    /\ generating \in [Role -> Seq(Calling)]
    /\ setting \subseteq Setting
    /\ opening \in {"reading", "peer", "saving", "user", "ready"}
    /\ savedPeer \in Maybe /\ user \in Maybe
    /\ generated \in 0..MaxGenerated
    /\ posts \in Seq(Post) /\ Len(posts) <= MaxPosts
    /\ {mixed, late} \subseteq BOOLEAN

\* The constructor of an account, with the account it will generate.
Constructed(n) == [r \in Role |-> <<<<IF r = "peer" THEN n + 1 ELSE n + 2, "nobody">>>>]

AccountsInit ==
    /\ keys = [r \in Role |-> NoAccount]
    /\ address = [r \in Role |-> NoAccount]
    /\ generating = Constructed(0)
    /\ generated = 2
    /\ setting = {} /\ posts = <<>>
    /\ opening = "reading"
    /\ savedPeer = NoAccount /\ user = NoAccount
    /\ mixed = FALSE /\ late = FALSE

\* The sign-ins under way.
SigningIn == {s \in setting : s.role = "user"}
AnonSigningIn == \E i \in DOMAIN generating["user"] : generating["user"][i][2] = "call"
Busy == SigningIn # {} \/ AnonSigningIn

-----------------------------------------------------------------------------
\* anonUser, up to the first await.
AnonUser(r, waiter) ==
    /\ generated < MaxGenerated
    /\ generated' = generated + 1
    /\ generating' = [generating EXCEPT ![r] = Append(@, <<generated + 1, waiter>>)]

\* The generated keys are there.  Keys and address are assigned at once.
KeysGenerated(r, i) ==
    /\ i \in DOMAIN generating[r]
    /\ LET account == generating[r][i][1]
           waiter == generating[r][i][2]
       IN  /\ keys' = [keys EXCEPT ![r] = account]
           /\ address' = [address EXCEPT ![r] = account]
           /\ generating' = [generating EXCEPT ![r] = RemoveAt(@, i)]
           /\ late' = (late \/ i > 1)
           /\ opening' = IF waiter # "opening" THEN opening
                         ELSE IF r = "peer" THEN "saving" ELSE "ready"
           /\ user' = IF r = "user" /\ waiter # "nobody" THEN account ELSE user
    /\ UNCHANGED <<setting, savedPeer, generated, posts, mixed>>

\* _initializeAccounts: sign in as the peer that was saved, or make one.
OpenPeer ==
    /\ opening = "reading"
    /\ opening' = "peer"
    /\ IF savedPeer = NoAccount
       THEN AnonUser("peer", "opening") /\ UNCHANGED setting
       ELSE /\ setting' = {[call |-> 0, role |-> "peer", account |-> savedPeer, stage |-> "asked"]}
            /\ UNCHANGED <<generating, generated>>
    /\ UNCHANGED <<keys, address, savedPeer, posts, user, mixed, late>>

\* encryptAccount waits for keys; errors of the store are ignored.
SavePeer ==
    /\ opening = "saving"
    /\ keys["peer"] # NoAccount
    /\ savedPeer' \in {savedPeer, keys["peer"]}
    /\ opening' = "user"
    /\ AnonUser("user", "opening")
    /\ UNCHANGED <<keys, address, setting, posts, user, mixed, late>>

-----------------------------------------------------------------------------
\* signIn and keysSignIn are called; decryptAccount follows.
SignIn(c, u) ==
    /\ opening = "ready"
    /\ \A s \in setting : s.call # c
    /\ setting' = setting \cup {[call |-> c, role |-> "user", account |-> u, stage |-> "asked"]}
    /\ mixed' = (mixed \/ Busy)
    /\ posts' = [i \in DOMAIN posts |-> [posts[i] EXCEPT !.crossed = @ \/ posts[i].stage # "sent"]]
    /\ UNCHANGED <<keys, address, generating, opening, savedPeer, generated, user, late>>

\* anonSignIn.
AnonSignIn ==
    /\ opening = "ready"
    /\ AnonUser("user", "call")
    /\ mixed' = (mixed \/ Busy)
    /\ posts' = [i \in DOMAIN posts |-> [posts[i] EXCEPT !.crossed = @ \/ posts[i].stage # "sent"]]
    /\ UNCHANGED <<keys, address, setting, opening, savedPeer, user, late>>

Proceed(s, stage) == setting' = (setting \ {s}) \cup {[s EXCEPT !.stage = stage]}

\* Mutant of DecryptAccount: it does not wait for keys.
DecryptAtOnce(s) ==
    /\ s.stage = "asked"
    /\ Proceed(s, "importing")
    /\ UNCHANGED <<keys, address, generating, opening, savedPeer, generated, posts,
                   user, mixed, late>>

\* decryptAccount waits until there are keys, then decrypts.
DecryptAccount(s) ==
    /\ s.stage = "asked"
    /\ keys[s.role] # NoAccount
    /\ Proceed(s, "importing")
    /\ UNCHANGED <<keys, address, generating, opening, savedPeer, generated, posts,
                   user, mixed, late>>

\* No such user, or another password; that of the peer is always right.
SignInRejected(s) ==
    /\ s.stage = "asked" /\ s.role = "user"
    /\ setting' = setting \ {s}
    /\ UNCHANGED <<keys, address, generating, opening, savedPeer, generated, posts,
                   user, mixed, late>>

\* setUser, once the keys are imported.
SetKeys(s) ==
    /\ s.stage = "importing"
    /\ keys' = [keys EXCEPT ![s.role] = s.account]
    /\ Proceed(s, "addressing")
    /\ UNCHANGED <<address, generating, opening, savedPeer, generated, posts,
                   user, mixed, late>>

\* Mutant of SetAddress: an address that is there already is kept.
SetAddressOnce(s) ==
    /\ s.stage = "addressing"
    /\ address' = [address EXCEPT ![s.role] = IF @ = NoAccount THEN s.account ELSE @]
    /\ setting' = setting \ {s}
    /\ IF s.role = "peer"
       THEN opening' = "user" /\ AnonUser("user", "opening") /\ UNCHANGED user
       ELSE user' = s.account /\ UNCHANGED <<opening, generating, generated>>
    /\ UNCHANGED <<keys, savedPeer, posts, mixed, late>>

\* setUser, the end.
SetAddress(s) ==
    /\ s.stage = "addressing"
    /\ address' = [address EXCEPT ![s.role] = s.account]
    /\ setting' = setting \ {s}
    /\ IF s.role = "peer"
       THEN opening' = "user" /\ AnonUser("user", "opening") /\ UNCHANGED user
       ELSE user' = s.account /\ UNCHANGED <<opening, generating, generated>>
    /\ UNCHANGED <<keys, savedPeer, posts, mixed, late>>

-----------------------------------------------------------------------------
\* toolDbPut: the hash is of the address at the time of the call.
HashPost ==
    /\ Len(posts) < MaxPosts
    /\ opening = "ready"
    /\ posts' = Append(posts, [stage |-> "hashing", hash |-> address["user"],
                    sig |-> NoAccount, by |-> NoAccount, user |-> user,
                    crossed |-> Busy \/ mixed])
    /\ UNCHANGED <<keys, address, generating, setting, opening, savedPeer, generated,
                   user, mixed, late>>

\* signData.
SignPost(i) ==
    /\ posts[i].stage = "hashing"
    /\ posts' = [posts EXCEPT ![i].stage = "signing", ![i].sig = keys["user"]]
    /\ UNCHANGED <<keys, address, generating, setting, opening, savedPeer, generated,
                   user, mixed, late>>

\* The message is made and sent.
SendPost(i) ==
    /\ posts[i].stage = "signing"
    /\ posts' = [posts EXCEPT ![i].stage = "sent", ![i].by = address["user"]]
    /\ UNCHANGED <<keys, address, generating, setting, opening, savedPeer, generated,
                   user, mixed, late>>

\* The peer stops and starts again: only what it saved is left.
RestartAccounts ==
    /\ generated + 2 <= MaxGenerated
    /\ keys' = [r \in Role |-> NoAccount]
    /\ address' = [r \in Role |-> NoAccount]
    /\ generating' = Constructed(generated)
    /\ generated' = generated + 2
    /\ setting' = {} /\ posts' = <<>>
    /\ opening' = "reading"
    /\ user' = NoAccount
    /\ mixed' = FALSE /\ late' = FALSE
    /\ UNCHANGED savedPeer

AccountsNext ==
    \/ OpenPeer \/ SavePeer \/ AnonSignIn \/ HashPost \/ RestartAccounts
    \/ \E r \in Role : \E i \in DOMAIN generating[r] : KeysGenerated(r, i)
    \/ \E c \in 1..MaxSignIns, u \in User : SignIn(c, u)
    \/ \E s \in setting :
        DecryptAccount(s) \/ SignInRejected(s) \/ SetKeys(s) \/ SetAddress(s)
    \/ \E i \in DOMAIN posts : SignPost(i) \/ SendPost(i)

AccountsSpec == AccountsInit /\ [][AccountsNext]_AccountVars

-----------------------------------------------------------------------------
(***************************************************************************)
(* Unless keys are generated out of order: once accounts are initialised,  *)
(* the peer has the account it saved, so that it comes back as the same    *)
(* peer after a restart, although its constructor generates keys that      *)
(* nobody waits for (_initializeAccounts, encryptAccount, decryptAccount). *)
(***************************************************************************)
PeerComesBack ==
    ~late /\ opening \in {"user", "ready"} /\ savedPeer # NoAccount =>
        keys["peer"] = savedPeer /\ address["peer"] = savedPeer

(***************************************************************************)
(* A put is hashed, signed and sent with one account, that of the last     *)
(* sign-in that ended (toolDbPut, setUser, anonUser).  Excepted are puts   *)
(* that a sign-in crosses, under way between the call and the message or   *)
(* overlapping another, and peers some of whose keys were generated out of *)
(* the order they were asked for in (late).                                *)
(***************************************************************************)
PutsAreTheUsers ==
    \A i \in DOMAIN posts :
        posts[i].stage = "sent" /\ ~posts[i].crossed /\ ~late =>
            {posts[i].hash, posts[i].sig, posts[i].by} = {posts[i].user}
=============================================================================
