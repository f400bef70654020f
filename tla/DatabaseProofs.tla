-------------------------- MODULE DatabaseProofs ---------------------------
(***************************************************************************)
(* Proofs about what is kept on disk, for any values of the constants: the *)
(* secrets in the keyring and the settings table, the migrations of the    *)
(* database by programs that open it at once or die in between, and the files *)
(* of the database while a restore replaces them.                          *)
(***************************************************************************)
EXTENDS SecretStore, DatabaseFile, FiniteSetTheorems, TLAPS

-----------------------------------------------------------------------------
(* Secrets (SecretStore)                                                   *)

SensitiveKeys == {Pass, Token, Private}

\* A call in progress is one of these.
CallIsKnown(h) ==
  LET c == op[h] IN
  /\ c.todo = <<>> <=> spc[h] \in {"down", "idle"}
  /\ c.ignoresErrors <=> c.todo \in {<<Public, Private>>, <<Private>>}
  /\ c.ignoresErrors \/ c.minting \/ c.rotating \/ c.opening => c.value # 0
  /\ c.minting \/ c.rotating <=> c.todo = <<Token>>
  /\ ~(c.minting /\ c.rotating)
  /\ c.minting => token[h] = 0
  /\ c.opening => c.todo = <<Pass>> /\ spc[h] # "read"
  /\ spc[h] # "down" /\ ~c.opening => h \in up

\* The public half is not secret, and never in the keyring.
PublicIsPlain ==
  /\ raw[Public].kind # "ref"
  /\ \A h \in Holders : op[h].todo = <<Public, Private>> /\ spc[h] = "write" => op[h].stored.kind # "ref"

\* n is a number a secret goes by, of its reference or its plaintext, or one that a
\* call may put in its place.  No two secrets share one.
OwnClaim(h, k, n) ==
  \/ k \in KeysOf(h) /\ op[h].value = n
  \/ spc[h] = "ring" /\ Key(h) = k /\ op[h].existing.n = n
  \/ spc[h] = "write" /\ Key(h) = k /\ op[h].stored.n = n
Claimed(k, n) == raw[k].n = n \/ \E h \in Holders : OwnClaim(h, k, n)
ClaimsAreApart ==
  /\ \A k \in SensitiveKeys : \A n \in 0..MaxSets : Claimed(k, n) => n <= used
  /\ \A k, m \in SensitiveKeys : \A n \in 1..MaxSets : Claimed(k, n) /\ Claimed(m, n) => k = m

\* A key that was not disturbed has one writer at most, and reads back what was last
\* set, or is about to be.
OneWriter ==
  \A k \in ConfigKeys \ disturbed : \A h, g \in Holders :
    k \in KeysOf(h) /\ k \in KeysOf(g) => h = g
WriteIsSound(h) ==
  LET k == Key(h)
      c == op[h]
  IN  /\ spc[h] # "write" => Resolve(k) = last[k]
      /\ spc[h] = "ring" /\ ~c.opening => c.existing = raw[k]
      /\ spc[h] = "ring" /\ c.opening => c.existing = None /\ raw[k] = Plain(c.value)
      /\ spc[h] = "write" =>
           /\ Resolve(k) \in {last[k], c.value}
           /\ c.stored.kind = "ref" => ring[c.stored.n] = c.value
           /\ c.stored.kind # "ref" => c.stored.n = c.value
Sound ==
  /\ \A k \in ConfigKeys \ disturbed :
       (\A h \in Holders : op[h].todo # <<>> => Key(h) # k) => Resolve(k) = last[k]
  /\ \A h \in Holders : op[h].todo # <<>> /\ Key(h) \notin disturbed => WriteIsSound(h)

\* Without leave no secret is about to be written in plaintext, and only a password
\* can be from before.
Sealed ==
  allow = {} =>
    /\ \A h \in Holders : spc[h] = "write" /\ Key(h) # Public => op[h].stored.kind # "plain"
    /\ raw[Token].kind # "plain" /\ raw[Private].kind # "plain"
    /\ up # {} => raw[Pass].kind # "plain"

\* Both halves of the pair were set last by one call, or the second is to be.
PairInv ==
  Public \notin disturbed /\ Private \notin disturbed =>
    /\ (\A h \in Holders : op[h].todo # <<Private>>) => last[Public] = last[Private]
    /\ \A h \in Holders : op[h].todo = <<Private>> => last[Public] = op[h].value

\* A token that is gone by is the last one, or the one that is about to be it.
TokenInv ==
  Token \notin disturbed =>
    /\ \A g \in Holders \ overtaken : token[g] # 0 =>
         \/ token[g] = last[Token]
         \/ \E h \in Holders : op[h].todo = <<Token>> /\ spc[h] = "write" /\ token[g] = op[h].value
    /\ \A h \in Holders : op[h].minting =>
         /\ last[Token] = 0
         /\ \A g \in Holders \ overtaken : token[g] \in {0, op[h].value}

SecretInv ==
  /\ SecretTypeOK /\ (\A h \in Holders : CallIsKnown(h)) /\ PublicIsPlain /\ ClaimsAreApart
  /\ OneWriter /\ Sound /\ Sealed /\ PairInv /\ TokenInv

-----------------------------------------------------------------------------
KeysIn(todo) == {todo[i] : i \in DOMAIN todo}

\* What is still to be written: nothing, one key, or the pair.
LEMMA TodoFacts ==
  /\ KeysIn(<<>>) = {} /\ KeysIn(<<Pass>>) = {Pass} /\ KeysIn(<<Token>>) = {Token}
  /\ KeysIn(<<Private>>) = {Private} /\ KeysIn(<<Public, Private>>) = {Public, Private}
  /\ <<Pass>>[1] = Pass /\ <<Token>>[1] = Token /\ <<Private>>[1] = Private
  /\ <<Public, Private>>[1] = Public
  /\ Len(<<>>) = 0 /\ Len(<<Pass>>) = 1 /\ Len(<<Token>>) = 1 /\ Len(<<Private>>) = 1
  /\ Len(<<Public, Private>>) = 2
<1>1. KeysIn(<<>>) = {}
  BY DEF KeysIn
<1>2. \A k : KeysIn(<<k>>) = {k}
  <2>1. \A k : DOMAIN <<k>> = {1}
    OBVIOUS
  <2> QED
    BY <2>1 DEF KeysIn
<1>3. KeysIn(<<Public, Private>>) = {Public, Private}
  <2>1. DOMAIN <<Public, Private>> = {1, 2}
    OBVIOUS
  <2> QED
    BY <2>1 DEF KeysIn
<1> QED
  BY <1>1, <1>2, <1>3

LEMMA KeyFacts ==
  /\ ConfigKeys = {Pass, Token, Public, Private}
  /\ Pass # Token /\ Pass # Public /\ Pass # Private /\ Token # Public /\ Token # Private /\ Public # Private
  /\ \A k \in ConfigKeys : IsSensitive(k) <=> k \in SensitiveKeys
BY DEF ConfigKeys, Pass, Token, Public, Private, IsSensitive, SensitiveKeys

LEMMA TodosDiffer ==
  /\ <<>> # <<Pass>> /\ <<>> # <<Token>> /\ <<>> # <<Private>> /\ <<>> # <<Public, Private>>
  /\ <<Pass>> # <<Token>> /\ <<Pass>> # <<Private>> /\ <<Pass>> # <<Public, Private>>
  /\ <<Token>> # <<Private>> /\ <<Token>> # <<Public, Private>> /\ <<Private>> # <<Public, Private>>
BY TodoFacts, KeyFacts

LEMMA RawFacts ==
  /\ None \in Raw /\ \A n \in 1..MaxSets : Plain(n) \in Raw /\ Ref(n) \in Raw
  /\ \A r \in Raw : /\ r.kind \in {"none", "plain", "ref"} /\ r.n \in 0..MaxSets
                    /\ r.kind = "none" => r = None /\ r.n = 0
                    /\ r.kind = "plain" => r = Plain(r.n) /\ r.n \in 1..MaxSets
                    /\ r.kind = "ref" => r = Ref(r.n) /\ r.n \in 1..MaxSets
  /\ None.kind = "none" /\ None.n = 0
  /\ \A n \in 0..MaxSets : Plain(n).kind = "plain" /\ Plain(n).n = n /\ Ref(n).kind = "ref" /\ Ref(n).n = n
<1>1. None \in Raw /\ None.kind = "none" /\ None.n = 0
  BY DEF None, Raw
<1>2. \A n \in 1..MaxSets : Plain(n) \in Raw /\ Ref(n) \in Raw
  BY DEF Raw
<1>3. \A n \in 0..MaxSets : Plain(n).kind = "plain" /\ Plain(n).n = n /\ Ref(n).kind = "ref" /\ Ref(n).n = n
  BY DEF Plain, Ref
<1>4. ASSUME NEW r \in Raw
      PROVE  /\ r.kind \in {"none", "plain", "ref"} /\ r.n \in 0..MaxSets
             /\ r.kind = "none" => r = None /\ r.n = 0
             /\ r.kind = "plain" => r = Plain(r.n) /\ r.n \in 1..MaxSets
             /\ r.kind = "ref" => r = Ref(r.n) /\ r.n \in 1..MaxSets
  <2>1. CASE r = None
    BY <2>1, <1>1, SecretAssumption
  <2>2. CASE \E n \in 1..MaxSets : r = Plain(n)
    BY <2>2, <1>3
  <2>3. CASE \E n \in 1..MaxSets : r = Ref(n)
    BY <2>3, <1>3
  <2> QED
    BY <2>1, <2>2, <2>3 DEF Raw
<1> QED
  BY <1>1, <1>2, <1>3, <1>4

LEMMA CallFacts ==
  /\ NoOp \in Calls /\ NoOp.todo = <<>> /\ NoOp.value = 0
  /\ ~NoOp.ignoresErrors /\ ~NoOp.opening /\ ~NoOp.minting /\ ~NoOp.rotating
  /\ \A todo \in Todos, v \in 0..MaxSets :
       /\ Call(todo, v) \in Calls /\ Call(todo, v).todo = todo /\ Call(todo, v).value = v
       /\ Call(todo, v).existing = None /\ Call(todo, v).stored = None
       /\ ~Call(todo, v).ignoresErrors /\ ~Call(todo, v).opening
       /\ ~Call(todo, v).minting /\ ~Call(todo, v).rotating
<1>1. NoOp \in Calls
  BY RawFacts, SecretAssumption DEF NoOp, Calls, Todos
<1>2. /\ NoOp.todo = <<>> /\ NoOp.value = 0
      /\ ~NoOp.ignoresErrors /\ ~NoOp.opening /\ ~NoOp.minting /\ ~NoOp.rotating
      /\ NoOp.existing = None /\ NoOp.stored = None
  BY DEF NoOp
<1>3. ASSUME NEW todo \in Todos, NEW v \in 0..MaxSets
      PROVE  /\ Call(todo, v) \in Calls /\ Call(todo, v).todo = todo /\ Call(todo, v).value = v
             /\ Call(todo, v).existing = None /\ Call(todo, v).stored = None
             /\ ~Call(todo, v).ignoresErrors /\ ~Call(todo, v).opening
             /\ ~Call(todo, v).minting /\ ~Call(todo, v).rotating
  BY <1>1, <1>2 DEF Call, Calls
<1> QED
  BY <1>1, <1>2, <1>3

Others(h) == \A g \in Holders \ {h} : op'[g] = op[g] /\ spc'[g] = spc[g]

LEMMA TodoKeys ==
  /\ ~(<<>> \in {<<Pass>>, <<Token>>, <<Private>>, <<Public, Private>>})
  /\ \A todo \in Todos :
       /\ KeysIn(todo) \subseteq ConfigKeys
       /\ todo = <<>> <=> KeysIn(todo) = {}
       /\ todo # <<>> => todo[1] \in KeysIn(todo) /\ todo[1] \in ConfigKeys
       /\ todo = <<Pass>> <=> Pass \in KeysIn(todo)
       /\ todo = <<Token>> <=> Token \in KeysIn(todo)
       /\ todo = <<Public, Private>> <=> Public \in KeysIn(todo)
       /\ todo \in {<<Private>>, <<Public, Private>>} <=> Private \in KeysIn(todo)
       /\ todo # <<>> /\ todo # <<Public, Private>> => KeysIn(todo) = {todo[1]} /\ Len(todo) = 1
       /\ todo # <<>> /\ todo[1] = Public => todo = <<Public, Private>>
       /\ todo # <<>> /\ todo[1] = Private => todo = <<Private>>
BY TodoFacts, TodosDiffer, KeyFacts DEF Todos

LEMMA KeysOfIs == \A h : KeysOf(h) = KeysIn(op[h].todo)
BY DEF KeysOf, KeysIn

\* What the types say of one call.
LEMMA OpFacts ==
  ASSUME SecretTypeOK, NEW h \in Holders
  PROVE  /\ op[h] \in Calls /\ op[h].todo \in Todos /\ op[h].value \in 0..MaxSets
         /\ op[h].existing \in Raw /\ op[h].stored \in Raw
         /\ KeysOf(h) = KeysIn(op[h].todo) /\ KeysOf(h) \subseteq ConfigKeys
         /\ op[h].todo # <<>> => Key(h) \in KeysOf(h) /\ Key(h) \in ConfigKeys
<1>1. op[h] \in Calls
  BY DEF SecretTypeOK
<1>2. op[h].todo \in Todos /\ op[h].value \in 0..MaxSets /\ op[h].existing \in Raw /\ op[h].stored \in Raw
  BY <1>1 DEF Calls
<1> QED
  BY <1>1, <1>2, TodoKeys, KeysOfIs DEF Key

LEMMA ClaimsKeep ==
  ASSUME SecretInv, NEW h \in Holders, NEW key, Others(h),
         used' \in 0..MaxSets, used <= used',
         \A k \in SensitiveKeys, n \in 1..MaxSets : raw'[k].n = n => Claimed(k, n),
         \A k \in SensitiveKeys, n \in 1..MaxSets :
           OwnClaim(h, k, n)' => Claimed(k, n) \/ (k = key /\ used < n /\ n <= used')
  PROVE  ClaimsAreApart'
<1>1. used \in 0..MaxSets /\ MaxSets \in Nat
  BY SecretAssumption DEF SecretInv, SecretTypeOK
<1>2. ASSUME NEW k \in SensitiveKeys, NEW n \in 1..MaxSets, Claimed(k, n)'
      PROVE  Claimed(k, n) \/ (k = key /\ used < n /\ n <= used')
  <2>1. CASE raw'[k].n = n
    BY <2>1
  <2>2. ASSUME NEW g \in Holders, OwnClaim(g, k, n)' PROVE Claimed(k, n) \/ (k = key /\ used < n /\ n <= used')
    <3>1. CASE g = h
      BY <2>2, <3>1
    <3>2. CASE g # h
      BY <2>2, <3>2 DEF Others, OwnClaim, Claimed, KeysOf, Key
    <3> QED
      BY <3>1, <3>2
  <2> QED
    BY <1>2, <2>1, <2>2 DEF Claimed
<1>3. \A k \in SensitiveKeys, n \in 0..MaxSets : Claimed(k, n) => n <= used
  BY DEF SecretInv, ClaimsAreApart
<1>4. \A k \in SensitiveKeys, n \in 0..MaxSets : Claimed(k, n)' => n <= used'
  <2> SUFFICES ASSUME NEW k \in SensitiveKeys, NEW n \in 0..MaxSets, Claimed(k, n)' PROVE n <= used'
    OBVIOUS
  <2>1. CASE n = 0
    BY <2>1, <1>1
  <2>2. CASE n # 0
    <3>1. n \in 1..MaxSets
      BY <1>1, <2>2
    <3> QED
      BY <1>1, <1>2, <1>3, <3>1
  <2> QED
    BY <2>1, <2>2
<1>5. \A k, m \in SensitiveKeys : \A n \in 1..MaxSets : Claimed(k, n)' /\ Claimed(m, n)' => k = m
  <2> SUFFICES ASSUME NEW k \in SensitiveKeys, NEW m \in SensitiveKeys, NEW n \in 1..MaxSets,
                      Claimed(k, n)', Claimed(m, n)'
               PROVE  k = m
    OBVIOUS
  <2>1. /\ Claimed(k, n) => n <= used
        /\ Claimed(m, n) => n <= used
    BY <1>1, <1>3
  <2>2. Claimed(k, n) /\ Claimed(m, n) => k = m
    BY DEF SecretInv, ClaimsAreApart
  <2> QED
    BY <1>1, <1>2, <2>1, <2>2
<1> QED
  BY <1>4, <1>5 DEF ClaimsAreApart

LEMMA OneWriterKeeps ==
  ASSUME SecretInv, NEW h \in Holders, Others(h), disturbed \subseteq disturbed',
         \A k \in KeysOf(h)' : k \in KeysOf(h) \/ \A g \in Holders \ {h} : k \in KeysOf(g) => k \in disturbed'
  PROVE  OneWriter'
<1> SUFFICES ASSUME NEW k \in ConfigKeys \ disturbed', NEW f \in Holders, NEW g \in Holders,
                    k \in KeysOf(f)', k \in KeysOf(g)'
             PROVE  f = g
  BY DEF OneWriter
<1>1. \A e \in Holders \ {h} : KeysOf(e)' = KeysOf(e)
  BY DEF Others, KeysOf
<1>2. \A e, d \in Holders : k \in KeysOf(e) /\ k \in KeysOf(d) => e = d
  BY DEF SecretInv, OneWriter
<1> QED
  BY <1>1, <1>2

\* A step that changes neither rows nor keyring.
LEMMA SoundKeeps ==
  ASSUME SecretInv, NEW h \in Holders, Others(h), UNCHANGED <<raw, ring, last>>, disturbed \subseteq disturbed',
         spc[h] # "write" \/ KeysOf(h) \subseteq disturbed',
         op'[h].todo # <<>> /\ Key(h)' \notin disturbed' => WriteIsSound(h)'
  PROVE  Sound'
<1>1. ASSUME NEW g \in Holders, op'[g].todo # <<>>, Key(g)' \notin disturbed' PROVE WriteIsSound(g)'
  <2>1. CASE g = h
    BY <1>1, <2>1
  <2>2. CASE g # h
    BY <1>1, <2>2 DEF Others, SecretInv, Sound, WriteIsSound, Key, Resolve
  <2> QED
    BY <2>1, <2>2
<1>2. ASSUME NEW k \in ConfigKeys \ disturbed', \A g \in Holders : op'[g].todo # <<>> => Key(g)' # k
      PROVE  Resolve(k)' = last'[k]
  <2>1. CASE op[h].todo # <<>> /\ Key(h) = k
    <3>1. k \in KeysOf(h)
      BY <2>1, OpFacts DEF SecretInv
    <3>2. spc[h] # "write" /\ WriteIsSound(h)
      BY <1>2, <2>1, <3>1 DEF SecretInv, Sound
    <3> QED
      BY <2>1, <3>2 DEF WriteIsSound, Resolve
  <2>2. CASE ~(op[h].todo # <<>> /\ Key(h) = k)
    <3>1. \A g \in Holders : op[g].todo # <<>> => Key(g) # k
      BY <1>2, <2>2 DEF Others, Key
    <3>2. Resolve(k) = last[k]
      BY <1>2, <3>1 DEF SecretInv, Sound
    <3> QED
      BY <3>2 DEF Resolve
  <2> QED
    BY <2>1, <2>2
<1> QED
  BY <1>1, <1>2 DEF Sound

\* What a step of one program does to what is known of the others' calls.
LEMMA OthersKnown ==
  ASSUME SecretInv, NEW h \in Holders, Others(h), up \subseteq up' \cup {h},
         \A g \in Holders \ {h} : token'[g] \in {token[g], 0}, CallIsKnown(h)'
  PROVE  \A g \in Holders : CallIsKnown(g)'
<1> SUFFICES ASSUME NEW g \in Holders PROVE CallIsKnown(g)'
  OBVIOUS
<1>1. CASE g = h
  BY <1>1
<1>2. CASE g # h
  <2>1. CallIsKnown(g) /\ op'[g] = op[g] /\ spc'[g] = spc[g]
    BY <1>2 DEF SecretInv, Others
  <2>2. token[g] = 0 => token'[g] = 0
    BY <1>2
  <2>3. g \in up => g \in up'
    BY <1>2
  <2> QED
    BY <2>1, <2>2, <2>3 DEF CallIsKnown
<1> QED
  BY <1>1, <1>2

\* A call begins.
LEMMA StartKeeps ==
  ASSUME SecretInv, NEW h \in Holders, NEW call \in Calls, NEW pc \in {"read", "ring"},
         spc[h] \in {"down", "idle"}, op'[h] = call, spc'[h] = pc, Others(h),
         op' \in [Holders -> Calls], spc' \in [Holders -> {"down", "idle", "read", "ring", "write"}],
         UNCHANGED <<raw, ring, last, allow, up, token, overtaken>>,
         disturbed \subseteq disturbed', disturbed' \subseteq ConfigKeys, mishaps' \in Nat,
         \A k \in KeysIn(call.todo), g \in Holders \ {h} : k \in KeysOf(g) => k \in disturbed',
         used' \in 0..MaxSets, used <= used',
         call.todo \notin {<<>>, <<Private>>}, call.existing = None,
         \/ call.value = 0
         \/ call.value = used + 1 /\ call.value = used'
         \/ call.opening /\ raw[Pass] = Plain(call.value),
         pc = "ring" <=> call.opening, call.opening => call.todo = <<Pass>> /\ raw[Pass] = Plain(call.value),
         call.ignoresErrors <=> call.todo = <<Public, Private>>,
         call.ignoresErrors \/ call.minting \/ call.rotating \/ call.opening => call.value # 0,
         call.minting \/ call.rotating <=> call.todo = <<Token>>, ~(call.minting /\ call.rotating),
         call.minting => token[h] = 0 /\ (Token \notin disturbed' => Resolve(Token) = 0),
         ~call.opening => h \in up
  PROVE  SecretInv'
<1>0. /\ SecretTypeOK /\ op[h].todo = <<>> /\ (\A g \in Holders : CallIsKnown(g))
      /\ KeysOf(h) = {} /\ used \in 0..MaxSets /\ MaxSets \in Nat
  BY SecretAssumption, OpFacts, TodoKeys DEF SecretInv, CallIsKnown, SecretTypeOK
<1>1. SecretTypeOK'
  BY <1>0 DEF SecretTypeOK
<1>2. /\ call.todo \in Todos /\ call.todo # <<>> /\ call.todo # <<Private>> /\ call.value \in 0..MaxSets
      /\ KeysOf(h)' = KeysIn(call.todo) /\ Key(h)' = call.todo[1]
      /\ Key(h)' \in KeysIn(call.todo) /\ Key(h)' \in ConfigKeys
  BY <1>0, <1>1, OpFacts, TodoKeys DEF Calls, Key, KeysOf, KeysIn
<1>3. \A g \in Holders : CallIsKnown(g)'
  <2>1. CallIsKnown(h)'
    BY <1>2 DEF CallIsKnown
  <2> QED
    BY <2>1, OthersKnown
<1>4. PublicIsPlain'
  BY DEF SecretInv, PublicIsPlain, Others
<1>5. ClaimsAreApart'
  <2> DEFINE key == IF call.todo = <<Public, Private>> THEN Private ELSE call.todo[1]
  <2>1. \A k \in SensitiveKeys : k \in KeysIn(call.todo) => k = key
    BY <1>2, TodoKeys, TodoFacts, KeyFacts DEF SensitiveKeys
  <2>2. ASSUME NEW k \in SensitiveKeys, NEW n \in 1..MaxSets, OwnClaim(h, k, n)'
        PROVE  Claimed(k, n) \/ (k = key /\ used < n /\ n <= used')
    <3>1. k \in KeysIn(call.todo) /\ call.value = n
      <4>1. call.existing.n = 0
        BY RawFacts
      <4> QED
        BY <1>0, <1>2, <2>2, <4>1 DEF OwnClaim
    <3>2. CASE call.value = used + 1 /\ call.value = used'
      BY <1>0, <2>1, <3>1, <3>2
    <3>3. CASE call.opening /\ raw[Pass] = Plain(call.value)
      <4>1. k = Pass /\ raw[k].n = n
        BY <1>2, <3>1, <3>3, RawFacts, TodoFacts
      <4> QED
        BY <4>1 DEF Claimed
    <3> QED
      BY <1>0, <3>1, <3>2, <3>3
  <2>3. \A k \in SensitiveKeys, n \in 1..MaxSets : raw'[k].n = n => Claimed(k, n)
    BY DEF Claimed
  <2> HIDE DEF key
  <2>4. SecretInv /\ Others(h) /\ used' \in 0..MaxSets /\ used <= used'
    OBVIOUS
  <2> QED
    BY ONLY <2>2, <2>3, <2>4, ClaimsKeep
<1>6. OneWriter'
  BY <1>0, <1>2, OneWriterKeeps
<1>7. Key(h)' \notin disturbed' => Resolve(Key(h)') = last[Key(h)']
  <2> SUFFICES ASSUME Key(h)' \notin disturbed' PROVE Resolve(Key(h)') = last[Key(h)']
    OBVIOUS
  <2>1. \A g \in Holders : op[g].todo # <<>> => Key(g) # Key(h)'
    BY <1>0, <1>2, OpFacts
  <2> QED
    BY <1>2, <2>1 DEF SecretInv, Sound
<1>8. Sound'
  <2>1. op'[h].todo # <<>> /\ Key(h)' \notin disturbed' => WriteIsSound(h)'
    <3> SUFFICES ASSUME Key(h)' \notin disturbed' PROVE WriteIsSound(h)'
      OBVIOUS
    <3>1. Resolve(Key(h))' = last'[Key(h)']
      BY <1>7 DEF Resolve
    <3>2. pc = "ring" => raw'[Key(h)'] = Plain(call.value) /\ call.opening
      BY <1>2, TodoFacts
    <3> QED
      BY <3>1, <3>2 DEF WriteIsSound
  <2> QED
    BY <1>0, <2>1, SoundKeeps
<1>9. Sealed'
  BY DEF SecretInv, Sealed, Others, Key
<1>10. PairInv'
  <2>1. \A g \in Holders : op'[g].todo = <<Private>> <=> op[g].todo = <<Private>>
    BY <1>0, <1>2, TodosDiffer DEF Others
  <2>2. \A g \in Holders : op'[g].todo = <<Private>> => op'[g].value = op[g].value
    BY <1>2 DEF Others
  <2> QED
    BY <2>1, <2>2 DEF SecretInv, PairInv
<1>11. TokenInv'
  <2> SUFFICES ASSUME Token \notin disturbed' PROVE TokenInv'
    BY DEF TokenInv
  <2>1. \A g \in Holders : op[g].todo = <<Token>> /\ spc[g] = "write"
                           => op'[g].todo = <<Token>> /\ spc'[g] = "write" /\ op'[g].value = op[g].value
    BY DEF Others
  <2>2. \A g \in Holders \ overtaken : token[g] # 0 =>
          \/ token[g] = last[Token]
          \/ \E f \in Holders : op[f].todo = <<Token>> /\ spc[f] = "write" /\ token[g] = op[f].value
    BY DEF SecretInv, TokenInv
  <2>3. ASSUME call.minting
        PROVE  last[Token] = 0 /\ \A g \in Holders \ overtaken : token[g] = 0
    <3>1. Key(h)' = Token /\ Token \in KeysIn(call.todo)
      BY <1>2, <2>3, TodoFacts
    <3>2. last[Token] = 0
      BY <1>7, <2>3, <3>1
    <3>3. \A f \in Holders : op[f].todo # <<Token>>
      BY <1>0, <3>1, TodoFacts, TodosDiffer, KeysOfIs
    <3> QED
      BY <2>2, <3>2, <3>3
  <2>4. \A f \in Holders \ {h} : op[f].minting =>
          last[Token] = 0 /\ \A g \in Holders \ overtaken : token[g] \in {0, op[f].value}
    BY DEF SecretInv, TokenInv
  <2>5. \A g \in Holders \ overtaken' : token'[g] # 0 =>
          \/ token'[g] = last'[Token]
          \/ \E f \in Holders : op'[f].todo = <<Token>> /\ spc'[f] = "write" /\ token'[g] = op'[f].value
    <3> SUFFICES ASSUME NEW g \in Holders \ overtaken, token[g] # 0, token[g] # last[Token]
                 PROVE  \E f \in Holders : op'[f].todo = <<Token>> /\ spc'[f] = "write" /\ token[g] = op'[f].value
      OBVIOUS
    <3>1. PICK f \in Holders : op[f].todo = <<Token>> /\ spc[f] = "write" /\ token[g] = op[f].value
      BY <2>2
    <3> QED
      BY <2>1, <3>1
  <2>6. \A f \in Holders : op'[f].minting =>
          last'[Token] = 0 /\ \A g \in Holders \ overtaken' : token'[g] \in {0, op'[f].value}
    BY <2>3, <2>4 DEF Others
  <2> QED
    BY <2>5, <2>6 DEF TokenInv
<1> QED
  BY <1>1, <1>3, <1>4, <1>5, <1>6, <1>8, <1>9, <1>10, <1>11 DEF SecretInv

\* A call ends that has written nothing more.
LEMMA EndsKeeps ==
  ASSUME SecretInv, NEW h \in Holders, NEW pc \in {"down", "idle"},
         op'[h] = NoOp, spc'[h] = pc, Others(h),
         op' \in [Holders -> Calls], spc' \in [Holders -> {"down", "idle", "read", "ring", "write"}],
         UNCHANGED <<raw, ring, last, allow, used>>,
         disturbed \subseteq disturbed', disturbed' \subseteq ConfigKeys, mishaps' \in Nat,
         spc[h] # "write" \/ KeysOf(h) \subseteq disturbed',
         Private \in KeysOf(h) => Private \in disturbed',
         token' \in [Holders -> 0..MaxSets], \A g \in Holders : token'[g] \in {token[g], 0},
         up' \subseteq up, up \subseteq up' \cup {h}, pc = "idle" => h \in up',
         overtaken' \subseteq Holders, \A g \in Holders \ overtaken' : g \notin overtaken \/ token'[g] = 0
  PROVE  SecretInv'
<1>0. /\ SecretTypeOK /\ used \in 0..MaxSets /\ MaxSets \in Nat
      /\ NoOp.todo = <<>> /\ KeysOf(h)' = {} /\ op[h].todo \in Todos
  BY SecretAssumption, OpFacts, CallFacts, TodoFacts, KeysOfIs DEF SecretInv, SecretTypeOK, KeysOf, KeysIn
<1>1. SecretTypeOK'
  BY <1>0 DEF SecretTypeOK
<1>2. \A g \in Holders : CallIsKnown(g)'
  <2>1. CallIsKnown(h)'
    BY CallFacts, TodosDiffer DEF CallIsKnown
  <2> QED
    BY <2>1, OthersKnown
<1>3. PublicIsPlain'
  BY DEF SecretInv, PublicIsPlain, Others
<1>4. ClaimsAreApart'
  <2>1. \A k \in SensitiveKeys, n \in 1..MaxSets : ~OwnClaim(h, k, n)'
    BY <1>0 DEF OwnClaim
  <2>2. \A k \in SensitiveKeys, n \in 1..MaxSets : raw'[k].n = n => Claimed(k, n)
    BY DEF Claimed
  <2> QED
    BY <1>0, <2>1, <2>2, ClaimsKeep
<1>5. OneWriter'
  BY <1>0, OneWriterKeeps
<1>6. Sound'
  BY <1>0, SoundKeeps
<1>7. Sealed'
  BY DEF SecretInv, Sealed, Others, Key
<1>8. PairInv'
  <2> SUFFICES ASSUME Public \notin disturbed', Private \notin disturbed' PROVE PairInv'
    BY DEF PairInv
  <2>1. op[h].todo # <<Private>>
    BY <1>0, TodoKeys, KeysOfIs
  <2>2. \A g \in Holders : op'[g].todo = <<Private>> => op[g].todo = <<Private>> /\ op'[g].value = op[g].value
    BY <1>0, TodosDiffer DEF Others
  <2>3. \A g \in Holders : op[g].todo = <<Private>> => op'[g].todo = <<Private>>
    BY <2>1 DEF Others
  <2> QED
    BY <2>2, <2>3 DEF SecretInv, PairInv
<1>9. TokenInv'
  <2> SUFFICES ASSUME Token \notin disturbed' PROVE TokenInv'
    BY DEF TokenInv
  <2>1. \A g \in Holders : op[g].todo = <<Token>> /\ spc[g] = "write" =>
          op'[g].todo = <<Token>> /\ spc'[g] = "write" /\ op'[g].value = op[g].value
    BY TodoFacts, KeysOfIs DEF Others
  <2>2. \A g \in Holders \ overtaken' : token'[g] # 0 => g \notin overtaken /\ token'[g] = token[g]
    OBVIOUS
  <2>3. \A g \in Holders : op'[g].minting => op[g].minting /\ op'[g].value = op[g].value
    BY CallFacts DEF Others
  <2>4. \A g \in Holders \ overtaken' : token'[g] # 0 =>
         \/ token'[g] = last'[Token]
         \/ \E f \in Holders : op'[f].todo = <<Token>> /\ spc'[f] = "write" /\ token'[g] = op'[f].value
    <3> SUFFICES ASSUME NEW g \in Holders \ overtaken', token'[g] # 0, token'[g] # last'[Token]
                 PROVE  \E f \in Holders : op'[f].todo = <<Token>> /\ spc'[f] = "write" /\ token'[g] = op'[f].value
      OBVIOUS
    <3>1. g \notin overtaken /\ token'[g] = token[g]
      BY <2>2
    <3>2. PICK f \in Holders : op[f].todo = <<Token>> /\ spc[f] = "write" /\ token[g] = op[f].value
      BY <3>1 DEF SecretInv, TokenInv
    <3> QED
      BY <2>1, <3>1, <3>2
  <2>5. ASSUME NEW f \in Holders, op'[f].minting
        PROVE  last'[Token] = 0 /\ \A g \in Holders \ overtaken' : token'[g] \in {0, op'[f].value}
    BY <2>2, <2>3, <2>5 DEF SecretInv, TokenInv
  <2> QED
    BY <2>4, <2>5 DEF TokenInv
<1> QED
  BY <1>1, <1>2, <1>3, <1>4, <1>5, <1>6, <1>7, <1>8, <1>9 DEF SecretInv

\* A call goes from one step to the next, and its rows stay what they are.
LEMMA GoesOn ==
  ASSUME SecretInv, NEW h \in Holders, Others(h), UNCHANGED <<token, overtaken, last>>,
         disturbed \subseteq disturbed',
         op'[h].todo = op[h].todo, op'[h].value = op[h].value, op'[h].minting = op[h].minting,
         spc[h] # "write"
  PROVE  PairInv' /\ TokenInv' /\ OneWriter'
<1>1. PairInv'
  <2>1. \A g \in Holders : op'[g].todo = op[g].todo /\ op'[g].value = op[g].value
    BY DEF Others
  <2> QED
    BY <2>1 DEF SecretInv, PairInv
<1>2. TokenInv'
  <2> SUFFICES ASSUME Token \notin disturbed' PROVE TokenInv'
    BY DEF TokenInv
  <2>1. \A g \in Holders : op'[g].todo = op[g].todo /\ op'[g].value = op[g].value /\ op'[g].minting = op[g].minting
    BY DEF Others
  <2>2. \A g \in Holders : spc[g] = "write" => spc'[g] = "write"
    BY DEF Others
  <2> QED
    BY <2>1, <2>2 DEF SecretInv, TokenInv
<1>3. OneWriter'
  BY OneWriterKeeps DEF KeysOf
<1> QED
  BY <1>1, <1>2, <1>3

LEMMA ReadKeeps ==
  ASSUME SecretInv, NEW h \in Holders, ReadRaw(h) PROVE SecretInv'
<1>0. /\ SecretTypeOK /\ CallIsKnown(h) /\ MaxSets \in Nat /\ used \in 0..MaxSets
      /\ op[h].todo # <<>> /\ ~op[h].opening /\ Key(h) \in ConfigKeys /\ Key(h) \in KeysOf(h)
      /\ raw[Key(h)] \in Raw
  BY SecretAssumption, OpFacts DEF SecretInv, SecretTypeOK, CallIsKnown, ReadRaw
<1>1. op'[h] = [op[h] EXCEPT !.existing = raw[Key(h)]] /\ spc'[h] = "ring" /\ Others(h)
  BY <1>0 DEF ReadRaw, SecretTypeOK, Others
<1>2. /\ op[h] \in Calls /\ op'[h] \in Calls /\ op'[h].todo = op[h].todo /\ op'[h].value = op[h].value
      /\ op'[h].existing = raw[Key(h)] /\ op'[h].ignoresErrors = op[h].ignoresErrors
      /\ op'[h].opening = op[h].opening /\ op'[h].minting = op[h].minting /\ op'[h].rotating = op[h].rotating
  BY <1>0, <1>1 DEF SecretTypeOK, Calls
<1>3. SecretTypeOK'
  <2>1. op' \in [Holders -> Calls]
    BY <1>0, <1>1, <1>2 DEF ReadRaw, SecretTypeOK
  <2>2. spc' \in [Holders -> {"down", "idle", "read", "ring", "write"}]
    BY <1>0 DEF ReadRaw, SecretTypeOK
  <2> QED
    BY <1>0, <2>1, <2>2 DEF ReadRaw, SecretTypeOK
<1>4. \A g \in Holders : CallIsKnown(g)'
  <2>1. CallIsKnown(h)'
    BY <1>0, <1>1, <1>2 DEF CallIsKnown, ReadRaw
  <2> QED
    BY <1>1, <2>1, OthersKnown DEF ReadRaw
<1>5. PublicIsPlain'
  BY <1>1 DEF SecretInv, PublicIsPlain, Others, ReadRaw
<1>6. ClaimsAreApart'
  <2>1. \A k \in SensitiveKeys, n \in 1..MaxSets : OwnClaim(h, k, n)' => Claimed(k, n)
    BY <1>1, <1>2 DEF OwnClaim, Claimed, KeysOf, Key
  <2>2. \A k \in SensitiveKeys, n \in 1..MaxSets : raw'[k].n = n => Claimed(k, n)
    BY DEF Claimed, ReadRaw
  <2> QED
    BY <1>0, <1>1, <2>1, <2>2, ClaimsKeep DEF ReadRaw
<1>7. PairInv' /\ TokenInv' /\ OneWriter'
  BY <1>1, <1>2, GoesOn DEF ReadRaw
<1>8. Sound'
  <2>1. op'[h].todo # <<>> /\ Key(h)' \notin disturbed' => WriteIsSound(h)'
    <3> SUFFICES ASSUME Key(h)' \notin disturbed' PROVE WriteIsSound(h)'
      OBVIOUS
    <3>1. Key(h)' = Key(h) /\ Resolve(Key(h))' = Resolve(Key(h)) /\ raw' = raw /\ last' = last
      BY <1>2 DEF Key, Resolve, ReadRaw
    <3>2. WriteIsSound(h)
      BY <1>0, <3>1 DEF SecretInv, Sound, ReadRaw
    <3> QED
      BY <1>0, <1>1, <1>2, <3>1, <3>2 DEF WriteIsSound, ReadRaw
  <2> QED
    BY <1>1, <2>1, SoundKeeps DEF ReadRaw
<1>9. Sealed'
  BY <1>1 DEF SecretInv, Sealed, Others, Key, ReadRaw
<1> QED
  BY <1>3, <1>4, <1>5, <1>6, <1>7, <1>8, <1>9 DEF SecretInv

\* The keyring refuses a value, and it may go to the row in plaintext.
LEMMA FallsBackKeeps ==
  ASSUME SecretInv, NEW h \in Holders, spc[h] = "ring", IsSensitive(Key(h)), op[h].value # 0,
         h \in allow, op' = [op EXCEPT ![h].stored = Plain(op[h].value)], spc' = [spc EXCEPT ![h] = "write"],
         mishaps' = mishaps + 1,
         UNCHANGED <<up, token, disturbed, raw, ring, allow, used, last, overtaken>>
  PROVE  SecretInv'
<1>0. /\ SecretTypeOK /\ CallIsKnown(h) /\ MaxSets \in Nat /\ used \in 0..MaxSets
      /\ op[h].todo # <<>> /\ Key(h) \in ConfigKeys /\ Key(h) \in KeysOf(h)
      /\ op[h].value \in 1..MaxSets
  <2>1. SecretTypeOK /\ CallIsKnown(h) /\ MaxSets \in Nat /\ used \in 0..MaxSets
    BY SecretAssumption DEF SecretInv, SecretTypeOK
  <2>2. op[h].todo # <<>>
    BY <2>1 DEF CallIsKnown
  <2>3. op[h].value \in 1..MaxSets
    BY <2>1, OpFacts
  <2> QED
    BY <2>1, <2>2, <2>3, OpFacts
<1>1. op'[h] = [op[h] EXCEPT !.stored = Plain(op[h].value)] /\ spc'[h] = "write" /\ Others(h)
  BY <1>0 DEF SecretTypeOK, Others
<1>2. /\ op[h] \in Calls /\ op'[h] \in Calls /\ op'[h].todo = op[h].todo /\ op'[h].value = op[h].value
      /\ op'[h].stored = Plain(op[h].value) /\ op'[h].ignoresErrors = op[h].ignoresErrors
      /\ op'[h].opening = op[h].opening /\ op'[h].minting = op[h].minting /\ op'[h].rotating = op[h].rotating
      /\ op'[h].stored.kind = "plain" /\ op'[h].stored.n = op[h].value
  <2>1. Plain(op[h].value) \in Raw /\ Plain(op[h].value).kind = "plain" /\ Plain(op[h].value).n = op[h].value
    BY <1>0, RawFacts
  <2>2. op[h] \in Calls
    BY <1>0 DEF SecretTypeOK
  <2> QED
    BY <1>1, <2>1, <2>2 DEF Calls
<1>3. SecretTypeOK'
  <2>1. op' \in [Holders -> Calls]
    BY <1>0, <1>1, <1>2 DEF SecretTypeOK
  <2>2. spc' \in [Holders -> {"down", "idle", "read", "ring", "write"}]
    BY <1>0 DEF SecretTypeOK
  <2> QED
    BY <1>0, <2>1, <2>2 DEF SecretTypeOK
<1>4. \A g \in Holders : CallIsKnown(g)'
  <2>1. CallIsKnown(h)'
    BY <1>0, <1>1, <1>2 DEF CallIsKnown
  <2> QED
    BY <1>1, <2>1, OthersKnown
<1>5. PublicIsPlain'
  BY <1>1, <1>2 DEF SecretInv, PublicIsPlain, Others
<1>6. ClaimsAreApart'
  <2>1. \A k \in SensitiveKeys, n \in 1..MaxSets : OwnClaim(h, k, n)' => Claimed(k, n)
    BY <1>0, <1>1, <1>2 DEF OwnClaim, Claimed, KeysOf, Key
  <2>2. \A k \in SensitiveKeys, n \in 1..MaxSets : raw'[k].n = n => Claimed(k, n)
    BY DEF Claimed
  <2> QED
    BY <1>0, <1>1, <2>1, <2>2, ClaimsKeep
<1>7. PairInv' /\ TokenInv' /\ OneWriter'
  BY <1>1, <1>2, GoesOn
<1>8. Sound'
  <2>1. op'[h].todo # <<>> /\ Key(h)' \notin disturbed' => WriteIsSound(h)'
    <3> SUFFICES ASSUME Key(h)' \notin disturbed' PROVE WriteIsSound(h)'
      OBVIOUS
    <3>1. Key(h)' = Key(h) /\ Resolve(Key(h))' = Resolve(Key(h)) /\ last' = last
      BY <1>2 DEF Key, Resolve
    <3>2. WriteIsSound(h)
      BY <1>0, <3>1 DEF SecretInv, Sound
    <3> QED
      BY <1>0, <1>1, <1>2, <3>1, <3>2 DEF WriteIsSound
  <2> QED
    BY <1>1, <2>1, SoundKeeps
<1>9. Sealed'
  BY DEF Sealed
<1> QED
  BY <1>3, <1>4, <1>5, <1>6, <1>7, <1>8, <1>9 DEF SecretInv

\* What the keyring is told is the value of one secret, and of no other.
LEMMA SecureKeeps ==
  ASSUME SecretInv, NEW h \in Holders, Secure(h) PROVE SecretInv'
<1>a. PICK key, old, v : key = Key(h) /\ old = op[h].existing /\ v = op[h].value
  OBVIOUS
<1>0. /\ key = Key(h) /\ old = op[h].existing /\ v = op[h].value
      /\ SecretTypeOK /\ CallIsKnown(h) /\ MaxSets \in Nat /\ used \in 0..MaxSets
      /\ op[h].todo # <<>> /\ key \in ConfigKeys /\ key \in KeysOf(h) /\ op[h].todo \in Todos
      /\ v \in 0..MaxSets /\ old \in Raw /\ op[h] \in Calls /\ spc[h] = "ring"
  <2>1. SecretTypeOK /\ CallIsKnown(h) /\ MaxSets \in Nat /\ used \in 0..MaxSets /\ spc[h] = "ring"
    BY SecretAssumption DEF SecretInv, SecretTypeOK, Secure
  <2>2. op[h].todo # <<>>
    BY <2>1 DEF CallIsKnown
  <2> QED
    BY <1>a, <2>1, <2>2, OpFacts
<1>1. PICK ref : ref = RefFor(h) /\ ref = IF old.kind = "ref" THEN old.n ELSE v
  BY <1>a DEF RefFor
<1>2. PICK r : /\ op' = [op EXCEPT ![h].stored = r]
               /\ \/ IsSensitive(key) /\ v # 0 /\ ring' = [ring EXCEPT ![ref] = v] /\ r = Ref(ref)
                  \/ /\ IsSensitive(key) /\ v = 0 /\ r = None
                     /\ ring' = IF old.kind = "ref" THEN [ring EXCEPT ![old.n] = 0] ELSE ring
                  \/ ~IsSensitive(key) /\ r = Plain(v) /\ ring' = ring
  BY <1>a, <1>1 DEF Secure
<1>3. /\ spc' = [spc EXCEPT ![h] = "write"]
      /\ UNCHANGED <<raw, up, allow, token, used, mishaps, last, disturbed, overtaken>>
  BY DEF Secure
<1>4. key = Public => op[h].todo = <<Public, Private>> /\ v # 0
  BY <1>0, TodoKeys DEF CallIsKnown, Key
<1>5. /\ v # 0 \/ old.kind = "ref" => ref \in 1..MaxSets
      /\ old.kind = "ref" => old.n \in 1..MaxSets
  BY <1>0, <1>1, RawFacts
<1>6. /\ r \in Raw
      /\ r.kind = "plain" => key = Public /\ r.n = v
      /\ r.kind = "none" => v = 0 /\ r.n = 0
      /\ r.kind = "ref" => r.n = ref /\ v # 0 /\ key # Public
  <2>1. IsSensitive(key) <=> key # Public
    BY DEF IsSensitive
  <2>2. CASE IsSensitive(key) /\ v # 0 /\ r = Ref(ref)
    BY <1>5, <2>1, <2>2, RawFacts
  <2>3. CASE v = 0 /\ r = None
    BY <2>3, RawFacts
  <2>4. CASE ~IsSensitive(key) /\ r = Plain(v)
    BY <1>0, <1>4, <2>1, <2>4, RawFacts
  <2> QED
    BY <1>2, <2>2, <2>3, <2>4
<1>7. op'[h] = [op[h] EXCEPT !.stored = r] /\ spc'[h] = "write" /\ Others(h)
  BY <1>0, <1>2, <1>3 DEF SecretTypeOK, Others
<1>8. /\ op'[h] \in Calls /\ op'[h].todo = op[h].todo /\ op'[h].value = v
      /\ op'[h].stored = r /\ op'[h].ignoresErrors = op[h].ignoresErrors
      /\ op'[h].opening = op[h].opening /\ op'[h].minting = op[h].minting /\ op'[h].rotating = op[h].rotating
  <2>1. op'[h] \in Calls
    BY <1>0, <1>6, <1>7 DEF Calls
  <2> QED
    BY <1>0, <1>7, <2>1 DEF Calls
<1>9. ring' \in [1..MaxSets -> 0..MaxSets]
  <2>1. ring \in [1..MaxSets -> 0..MaxSets] /\ 0 \in 0..MaxSets
    BY <1>0 DEF SecretTypeOK
  <2> QED
    BY <1>0, <1>2, <1>5, <2>1
<1>10. SecretTypeOK'
  <2>1. op' \in [Holders -> Calls]
    BY <1>0, <1>2, <1>7, <1>8 DEF SecretTypeOK
  <2>2. spc' \in [Holders -> {"down", "idle", "read", "ring", "write"}]
    BY <1>0, <1>3 DEF SecretTypeOK
  <2> QED
    BY <1>0, <1>3, <1>9, <2>1, <2>2 DEF SecretTypeOK
<1>11. \A g \in Holders : CallIsKnown(g)'
  <2>1. CallIsKnown(h)'
    BY <1>0, <1>3, <1>7, <1>8 DEF CallIsKnown
  <2> QED
    BY <1>3, <1>7, <2>1, OthersKnown
<1>12. PublicIsPlain'
  <2>1. op[h].todo = <<Public, Private>> => r.kind # "ref"
    BY <1>0, <1>6, TodoFacts DEF Key
  <2> QED
    BY <1>3, <1>7, <1>8, <2>1 DEF SecretInv, PublicIsPlain, Others
<1>13. key \in SensitiveKeys /\ (v # 0 \/ old.kind = "ref") => Claimed(key, ref)
  <2>1. CASE old.kind = "ref"
    BY <1>0, <1>1, <2>1 DEF Claimed, OwnClaim
  <2>2. CASE old.kind # "ref"
    BY <1>0, <1>1, <2>2 DEF Claimed, OwnClaim
  <2> QED
    BY <2>1, <2>2
<1>14. ClaimsAreApart'
  <2>1. ASSUME NEW k \in SensitiveKeys, NEW n \in 1..MaxSets, OwnClaim(h, k, n)' PROVE Claimed(k, n)
    <3>1. CASE k \in KeysOf(h)' /\ op'[h].value = n
      BY <1>0, <1>8, <3>1 DEF KeysOf, OwnClaim, Claimed
    <3>2. CASE k = key /\ r.n = n
      <4>1. k # Public
        BY KeyFacts, <2>1 DEF SensitiveKeys
      <4>2. r.kind = "ref" /\ n = ref /\ v # 0
        BY <1>6, <3>2, <4>1, RawFacts
      <4> QED
        BY <1>13, <3>2, <4>2
    <3> QED
      BY <1>0, <1>7, <1>8, <2>1, <3>1, <3>2 DEF OwnClaim, Key
  <2>2. \A k \in SensitiveKeys, n \in 1..MaxSets : raw'[k].n = n => Claimed(k, n)
    BY <1>3 DEF Claimed
  <2> QED
    BY <1>0, <1>3, <1>7, <2>1, <2>2, ClaimsKeep
<1>15. PairInv' /\ TokenInv' /\ OneWriter'
  BY <1>0, <1>3, <1>7, <1>8, GoesOn
<1>16. ASSUME NEW k \in SensitiveKeys, NEW n \in 1..MaxSets, Claimed(k, n), k # key
       PROVE  ring'[n] = ring[n]
  <2>1. CASE key \in SensitiveKeys /\ (v # 0 \/ old.kind = "ref")
    <3>1. ref \in 1..MaxSets /\ Claimed(key, ref)
      BY <1>5, <1>13, <2>1
    <3>2. n # ref
      BY <1>16, <2>1, <3>1 DEF SecretInv, ClaimsAreApart
    <3>3. ring \in [1..MaxSets -> 0..MaxSets]
      BY <1>0 DEF SecretTypeOK
    <3> QED
      BY <1>1, <1>2, <1>5, <3>1, <3>2, <3>3
  <2>2. CASE ~(key \in SensitiveKeys /\ (v # 0 \/ old.kind = "ref"))
    <3>1. ring' = ring
      BY <1>0, <1>2, <2>2, KeyFacts, RawFacts
    <3> QED
      BY <3>1
  <2> QED
    BY <2>1, <2>2
<1>17. ASSUME NEW k \in ConfigKeys, k # key PROVE Resolve(k)' = Resolve(k)
  <2>1. CASE raw[k].kind = "ref"
    <3>1. k \in SensitiveKeys
      BY <2>1, KeyFacts DEF SecretInv, PublicIsPlain, SensitiveKeys
    <3>2. raw[k].n \in 1..MaxSets /\ Claimed(k, raw[k].n)
      BY <1>0, <2>1, RawFacts DEF SecretTypeOK, Claimed
    <3> QED
      BY <1>3, <1>16, <1>17, <2>1, <3>1, <3>2 DEF Resolve
  <2>2. CASE raw[k].kind # "ref"
    BY <1>3, <2>2 DEF Resolve
  <2> QED
    BY <2>1, <2>2
<1>18. ASSUME key \notin disturbed PROVE WriteIsSound(h)'
  <2>1. WriteIsSound(h)
    BY <1>0, <1>18 DEF SecretInv, Sound
  <2>2. /\ Resolve(key) = last[key] /\ raw[key] \in Raw
        /\ old = raw[key] \/ (old = None /\ raw[key] = Plain(v))
    <3>1. raw[key] \in Raw
      BY <1>0 DEF SecretTypeOK
    <3>2. CASE op[h].opening
      BY <1>0, <2>1, <3>1, <3>2 DEF WriteIsSound
    <3>3. CASE ~op[h].opening
      BY <1>0, <2>1, <3>1, <3>3 DEF WriteIsSound
    <3> QED
      BY <3>2, <3>3
  <2>3. ring \in [1..MaxSets -> 0..MaxSets]
    BY <1>0 DEF SecretTypeOK
  <2>4. Resolve(key)' \in {last[key], v}
    <3>1. CASE ring' = ring
      BY <1>3, <2>2, <3>1 DEF Resolve
    <3>2. CASE v # 0 /\ ring' = [ring EXCEPT ![ref] = v]
      <4>1. ring'[ref] = v
        BY <1>5, <2>3, <3>2
      <4>2. CASE old = raw[key]
        <5>1. CASE old.kind = "ref"
          BY <1>1, <1>3, <4>1, <4>2, <5>1 DEF Resolve
        <5>2. CASE old.kind # "ref"
          BY <1>3, <2>2, <4>2, <5>2 DEF Resolve
        <5> QED
          BY <5>1, <5>2
      <4>3. CASE old = None /\ raw[key] = Plain(v)
        <5>1. raw[key].kind = "plain" /\ raw[key].n = v
          BY <1>0, <4>3, RawFacts
        <5> QED
          BY <1>3, <5>1 DEF Resolve
      <4> QED
        BY <2>2, <4>2, <4>3
    <3>3. CASE v = 0 /\ old.kind = "ref" /\ ring' = [ring EXCEPT ![old.n] = 0]
      <4>1. ring'[old.n] = 0
        BY <1>5, <2>3, <3>3
      <4>2. old = raw[key]
        BY <2>2, <3>3, RawFacts
      <4> QED
        BY <1>3, <3>3, <4>1, <4>2 DEF Resolve
    <3> QED
      BY <1>2, <3>1, <3>2, <3>3
  <2>5. r.kind = "ref" => ring'[r.n] = v
    <3> SUFFICES ASSUME r.kind = "ref" PROVE ring'[r.n] = v
      OBVIOUS
    <3>1. r.n = ref /\ v # 0 /\ key # Public
      BY <1>6
    <3>2. ring' = [ring EXCEPT ![ref] = v]
      BY <1>2, <3>1 DEF IsSensitive
    <3> QED
      BY <1>5, <2>3, <3>1, <3>2
  <2>6. r.kind # "ref" => r.n = v
    BY <1>6, RawFacts
  <2>7. Key(h)' = key /\ last' = last
    BY <1>0, <1>3, <1>8 DEF Key
  <2>8. Resolve(Key(h))' \in {last'[Key(h)'], v}
    BY <2>4, <2>7 DEF Resolve
  <2> QED
    BY <1>7, <1>8, <2>5, <2>6, <2>8 DEF WriteIsSound
<1>19. ASSUME NEW g \in Holders \ {h}, op[g].todo # <<>>, Key(g) \notin disturbed PROVE WriteIsSound(g)'
  <2>1. WriteIsSound(g) /\ Key(g) \in KeysOf(g) /\ Key(g) \in ConfigKeys /\ op[g].stored \in Raw
    BY <1>0, <1>19, OpFacts DEF SecretInv, Sound
  <2>2. Key(g) # key
    BY <1>0, <1>19, <2>1 DEF SecretInv, OneWriter
  <2>3. op'[g] = op[g] /\ spc'[g] = spc[g] /\ Key(g)' = Key(g) /\ last' = last /\ raw' = raw
    BY <1>3, <1>7, <1>19 DEF Others, Key
  <2>4. Resolve(Key(g))' = Resolve(Key(g))
    BY <1>17, <2>1, <2>2, <2>3 DEF Resolve
  <2>5. spc[g] = "write" /\ op[g].stored.kind = "ref" => ring'[op[g].stored.n] = ring[op[g].stored.n]
    <3> SUFFICES ASSUME spc[g] = "write", op[g].stored.kind = "ref"
                 PROVE  ring'[op[g].stored.n] = ring[op[g].stored.n]
      OBVIOUS
    <3>1. op[g].todo # <<Public, Private>>
      BY DEF SecretInv, PublicIsPlain
    <3>2. Key(g) \in SensitiveKeys
      BY <1>0, <1>19, <2>1, <3>1, OpFacts, TodoKeys, KeyFacts DEF Key, SensitiveKeys
    <3>3. op[g].stored.n \in 1..MaxSets /\ Claimed(Key(g), op[g].stored.n)
      BY <2>1, RawFacts DEF Claimed, OwnClaim
    <3> QED
      BY <1>16, <2>2, <3>2, <3>3
  <2> QED
    BY <2>1, <2>3, <2>4, <2>5 DEF WriteIsSound
<1>20. Sound'
  <2>1. \A g \in Holders : op'[g].todo = op[g].todo /\ Key(g)' = Key(g)
    BY <1>7, <1>8 DEF Others, Key
  <2>2. ASSUME NEW k \in ConfigKeys \ disturbed', \A g \in Holders : op'[g].todo # <<>> => Key(g)' # k
        PROVE  Resolve(k)' = last'[k]
    <3>1. k # key /\ Resolve(k) = last[k] /\ k \in ConfigKeys
      BY <1>0, <1>3, <2>1, <2>2 DEF SecretInv, Sound
    <3> QED
      BY <1>3, <1>17, <3>1
  <2>3. ASSUME NEW g \in Holders, op'[g].todo # <<>>, Key(g)' \notin disturbed' PROVE WriteIsSound(g)'
    <3>1. op[g].todo # <<>> /\ Key(g) \notin disturbed
      BY <1>3, <2>1, <2>3
    <3> QED
      BY <1>0, <1>18, <1>19, <3>1
  <2> QED
    BY <2>2, <2>3 DEF Sound
<1>21. Sealed'
  <2> SUFFICES ASSUME allow' = {} PROVE Sealed'
    BY DEF Sealed
  <2>1. \A g \in Holders : Key(g)' = Key(g)
    BY <1>7, <1>8 DEF Others, Key
  <2>2. \A g \in Holders : spc'[g] = "write" /\ Key(g)' # Public => op'[g].stored.kind # "plain"
    BY <1>0, <1>3, <1>6, <1>7, <1>8, <2>1 DEF SecretInv, Sealed, Others
  <2> QED
    BY <1>3, <2>2 DEF SecretInv, Sealed
<1> QED
  BY <1>10, <1>11, <1>12, <1>14, <1>15, <1>20, <1>21 DEF SecretInv

\* The row is written: the call returns, or goes on to the second half of a pair.
LEMMA WriteKeeps ==
  ASSUME SecretInv, NEW h \in Holders, WriteConfig(h) PROVE SecretInv'
<1>a. PICK key, v, r : key = Key(h) /\ v = op[h].value /\ r = op[h].stored
  OBVIOUS
<1>0. /\ key = Key(h) /\ v = op[h].value /\ r = op[h].stored
      /\ SecretTypeOK /\ CallIsKnown(h) /\ MaxSets \in Nat /\ used \in 0..MaxSets
      /\ op[h].todo # <<>> /\ key \in ConfigKeys /\ key \in KeysOf(h) /\ op[h].todo \in Todos
      /\ KeysOf(h) = KeysIn(op[h].todo)
      /\ v \in 0..MaxSets /\ r \in Raw /\ op[h] \in Calls /\ spc[h] = "write"
  <2>1. SecretTypeOK /\ CallIsKnown(h) /\ MaxSets \in Nat /\ used \in 0..MaxSets /\ spc[h] = "write"
    BY SecretAssumption DEF SecretInv, SecretTypeOK, WriteConfig
  <2>2. op[h].todo # <<>>
    BY <2>1 DEF CallIsKnown
  <2> QED
    BY <1>a, <2>1, <2>2, OpFacts
<1>1. /\ raw' = [raw EXCEPT ![key] = r] /\ last' = [last EXCEPT ![key] = v]
      /\ overtaken' = IF op[h].rotating THEN {g \in Holders : token[g] # 0} ELSE overtaken
      /\ Returns(h, TRUE)
      /\ UNCHANGED <<ring, allow, used, mishaps, disturbed>>
  BY <1>0 DEF WriteConfig
<1>2. /\ raw' \in [ConfigKeys -> Raw] /\ last' \in [ConfigKeys -> 0..MaxSets] /\ overtaken' \subseteq Holders
      /\ raw'[key] = r /\ last'[key] = v
      /\ \A k \in ConfigKeys : k # key => raw'[k] = raw[k] /\ last'[k] = last[k]
  BY <1>0, <1>1 DEF SecretTypeOK
<1>3. \/ /\ op[h].todo = <<Public, Private>> /\ key = Public
         /\ op' = [op EXCEPT ![h].todo = <<Private>>, ![h].existing = None]
         /\ spc' = [spc EXCEPT ![h] = "read"] /\ up' = up /\ token' = token
      \/ /\ op[h].todo # <<Public, Private>> /\ KeysOf(h) = {key}
         /\ op' = [op EXCEPT ![h] = NoOp] /\ spc' = [spc EXCEPT ![h] = "idle"] /\ up' = up \cup {h}
         /\ token' = IF op[h].minting THEN [token EXCEPT ![h] = v] ELSE token
  <2>1. Len(op[h].todo) = 2 <=> op[h].todo = <<Public, Private>>
    BY <1>0, TodoKeys, TodoFacts
  <2>2. op[h].todo # <<Public, Private>> => KeysOf(h) = {key}
    BY <1>0, TodoKeys DEF Key
  <2>3. op[h].todo = <<Public, Private>> => key = Public
    BY <1>0, TodoFacts DEF Key
  <2> QED
    BY <1>0, <1>1, <2>1, <2>2, <2>3 DEF Returns, Ends
<1>4. Others(h)
  BY <1>0, <1>3 DEF Others, SecretTypeOK
<1>5. \/ /\ op[h].todo = <<Public, Private>> /\ key = Public /\ spc'[h] = "read"
         /\ op'[h] \in Calls /\ op'[h].todo = <<Private>> /\ op'[h].existing = None /\ op'[h].value = v
         /\ op'[h].ignoresErrors = op[h].ignoresErrors
         /\ op'[h].opening = op[h].opening /\ op'[h].minting = op[h].minting /\ op'[h].rotating = op[h].rotating
      \/ op[h].todo # <<Public, Private>> /\ spc'[h] = "idle" /\ op'[h] = NoOp /\ op'[h] \in Calls
  <2>1. CASE op[h].todo = <<Public, Private>>
    <3>1. op'[h] = [op[h] EXCEPT !.todo = <<Private>>, !.existing = None] /\ spc'[h] = "read"
      BY <1>0, <1>3, <2>1 DEF SecretTypeOK
    <3>2. <<Private>> \in Todos /\ None \in Raw
      BY RawFacts DEF Todos
    <3>3. op'[h] \in Calls
      BY <1>0, <3>1, <3>2 DEF Calls
    <3> QED
      BY <1>0, <1>3, <2>1, <3>1, <3>3 DEF Calls
  <2>2. CASE op[h].todo # <<Public, Private>>
    BY <1>0, <1>3, <2>2, CallFacts DEF SecretTypeOK
  <2> QED
    BY <2>1, <2>2
<1>6. SecretTypeOK'
  <2>1. op' \in [Holders -> Calls]
    <3>1. \E c : op' = [op EXCEPT ![h] = c]
      BY <1>0, <1>3 DEF SecretTypeOK
    <3> QED
      BY <1>0, <1>5, <3>1 DEF SecretTypeOK
  <2>2. spc' \in [Holders -> {"down", "idle", "read", "ring", "write"}]
    BY <1>0, <1>3 DEF SecretTypeOK
  <2>3. up' \subseteq Holders /\ token' \in [Holders -> 0..MaxSets]
    BY <1>0, <1>3 DEF SecretTypeOK
  <2> QED
    BY <1>0, <1>1, <1>2, <2>1, <2>2, <2>3 DEF SecretTypeOK
<1>7. \A g \in Holders : CallIsKnown(g)'
  <2>1. CallIsKnown(h)'
    <3>1. CASE op[h].todo = <<Public, Private>>
      BY <1>0, <1>3, <1>5, <3>1, TodosDiffer DEF CallIsKnown
    <3>2. CASE op[h].todo # <<Public, Private>>
      BY <1>3, <1>5, <3>2, CallFacts, TodosDiffer DEF CallIsKnown
    <3> QED
      BY <3>1, <3>2
  <2>2. up \subseteq up' \cup {h} /\ \A g \in Holders \ {h} : token'[g] \in {token[g], 0}
    BY <1>0, <1>3 DEF SecretTypeOK
  <2> QED
    BY <1>4, <2>1, <2>2, OthersKnown
<1>8. PublicIsPlain'
  <2>1. key = Public => r.kind # "ref"
    BY <1>0, TodoKeys DEF SecretInv, PublicIsPlain, Key
  <2>2. raw'[Public].kind # "ref"
    BY <1>2, <2>1, KeyFacts DEF SecretInv, PublicIsPlain
  <2> QED
    BY <1>4, <1>5, <2>2 DEF SecretInv, PublicIsPlain, Others
<1>9. KeysOf(h)' \subseteq KeysOf(h)
  BY <1>0, <1>5, TodoFacts, CallFacts DEF KeysOf, KeysIn
<1>10. ClaimsAreApart'
  <2>1. ASSUME NEW k \in SensitiveKeys, NEW n \in 1..MaxSets, OwnClaim(h, k, n)' PROVE Claimed(k, n)
    <3>1. k \in KeysOf(h)' /\ op'[h].value = n
      BY <1>5, <2>1 DEF OwnClaim
    <3>2. op[h].value = n
      BY <1>0, <1>5, <3>1, CallFacts
    <3> QED
      BY <1>9, <3>1, <3>2 DEF OwnClaim, Claimed
  <2>2. ASSUME NEW k \in SensitiveKeys, NEW n \in 1..MaxSets, raw'[k].n = n PROVE Claimed(k, n)
    BY <1>0, <1>2, <2>2, KeyFacts DEF Claimed, OwnClaim, SensitiveKeys
  <2> QED
    BY <1>0, <1>1, <1>4, <2>1, <2>2, ClaimsKeep
<1>11. OneWriter'
  BY <1>1, <1>4, <1>9, OneWriterKeeps
<1>12. \A k \in ConfigKeys : k # key => Resolve(k)' = Resolve(k) /\ last'[k] = last[k]
  BY <1>1, <1>2 DEF Resolve
<1>13. ASSUME key \notin disturbed
       PROVE  /\ Resolve(key)' = v /\ last'[key] = v
              /\ \A g \in Holders \ {h} : key \notin KeysOf(g)
  <2>1. WriteIsSound(h)
    BY <1>0, <1>13 DEF SecretInv, Sound
  <2>2. r.kind = "ref" => ring[r.n] = v
    BY <1>0, <2>1 DEF WriteIsSound
  <2>3. r.kind # "ref" => r.n = v
    BY <1>0, <2>1 DEF WriteIsSound
  <2> QED
    BY <1>0, <1>1, <1>2, <1>13, <2>2, <2>3 DEF Resolve, SecretInv, OneWriter
<1>14. Sound'
  <2>1. ASSUME NEW k \in ConfigKeys \ disturbed', \A g \in Holders : op'[g].todo # <<>> => Key(g)' # k
        PROVE  Resolve(k)' = last'[k]
    <3>1. CASE k = key
      BY <1>1, <1>13, <2>1, <3>1
    <3>2. CASE k # key
      <4>1. \A g \in Holders : op[g].todo # <<>> => Key(g) # k
        BY <1>0, <1>4, <2>1, <3>2 DEF Others, Key
      <4>2. Resolve(k) = last[k]
        BY <1>1, <2>1, <4>1 DEF SecretInv, Sound
      <4> QED
        BY <1>12, <2>1, <3>2, <4>2
    <3> QED
      BY <3>1, <3>2
  <2>2. ASSUME NEW g \in Holders \ {h}, op'[g].todo # <<>>, Key(g)' \notin disturbed' PROVE WriteIsSound(g)'
    <3>1. op'[g] = op[g] /\ spc'[g] = spc[g] /\ Key(g)' = Key(g) /\ Key(g) \in KeysOf(g) /\ Key(g) \in ConfigKeys
      BY <1>0, <1>4, <2>2, OpFacts DEF Others, Key
    <3>2. WriteIsSound(g) /\ Key(g) # key
      BY <1>0, <1>1, <1>13, <2>2, <3>1 DEF SecretInv, Sound
    <3>3. raw'[Key(g)] = raw[Key(g)] /\ last'[Key(g)] = last[Key(g)] /\ Resolve(Key(g))' = Resolve(Key(g)) /\ ring' = ring
      BY <1>1, <1>2, <3>1, <3>2 DEF Resolve
    <3> QED
      BY <3>1, <3>2, <3>3 DEF WriteIsSound
  <2>3. ASSUME op'[h].todo # <<>>, Key(h)' \notin disturbed' PROVE WriteIsSound(h)'
    <3>1. op[h].todo = <<Public, Private>> /\ key = Public /\ spc'[h] = "read" /\ Key(h)' = Private
      BY <1>5, <2>3, CallFacts, TodoFacts DEF Key
    <3>2. Private \in KeysOf(h) /\ Private \in ConfigKeys \ disturbed /\ Private # key
      BY <1>0, <1>1, <2>3, <3>1, TodoFacts, KeyFacts
    <3>3. \A g \in Holders : op[g].todo # <<>> => Key(g) # Private
      <4>1. \A g \in Holders : Private \in KeysOf(g) => g = h
        BY <3>2 DEF SecretInv, OneWriter
      <4>2. Key(h) # Private
        BY <1>0, <3>1, <3>2
      <4> QED
        BY <1>0, <4>1, <4>2, OpFacts
    <3>4. Resolve(Private) = last[Private]
      BY <3>2, <3>3 DEF SecretInv, Sound
    <3>5. Resolve(Key(h))' = last'[Key(h)']
      BY <1>1, <1>2, <3>1, <3>2, <3>4 DEF Resolve
    <3> QED
      BY <3>1, <3>5 DEF WriteIsSound
  <2> QED
    BY <2>1, <2>2, <2>3 DEF Sound
<1>15. Sealed'
  <2> SUFFICES ASSUME allow = {} PROVE Sealed'
    BY <1>1 DEF Sealed
  <2>1. \A g \in Holders : spc'[g] = "write" /\ Key(g)' # Public => op'[g].stored.kind # "plain"
    BY <1>4, <1>5 DEF SecretInv, Sealed, Others, Key
  <2>2. key # Public => r.kind # "plain"
    BY <1>0 DEF SecretInv, Sealed
  <2>3. raw'[Token].kind # "plain" /\ raw'[Private].kind # "plain"
    BY <1>2, <2>2, KeyFacts DEF SecretInv, Sealed
  <2>4. ASSUME up' # {} PROVE raw'[Pass].kind # "plain"
    <3>1. CASE key = Pass
      BY <1>2, <2>2, <3>1, KeyFacts
    <3>2. CASE key # Pass
      <4>1. ~op[h].opening
        BY <1>0, <3>2, TodoFacts DEF CallIsKnown, Key
      <4>2. up # {}
        BY <1>0, <4>1 DEF CallIsKnown
      <4> QED
        BY <1>2, <3>2, <4>2, KeyFacts DEF SecretInv, Sealed
    <3> QED
      BY <3>1, <3>2
  <2> QED
    BY <2>1, <2>3, <2>4 DEF Sealed
<1>16. PairInv'
  <2> SUFFICES ASSUME Public \notin disturbed, Private \notin disturbed PROVE PairInv'
    BY <1>1 DEF PairInv
  <2>1. \A g \in Holders \ {h} : op'[g] = op[g] /\ (op[g].todo = <<Private>> <=> Private \in KeysOf(g) /\ Public \notin KeysOf(g))
    <3> TAKE g \in Holders \ {h}
    <3>1. op'[g] = op[g]
      BY <1>4 DEF Others
    <3>2. op[g].todo \in Todos /\ KeysOf(g) = KeysIn(op[g].todo)
      BY <1>0, OpFacts
    <3>3. \A todo \in Todos : todo = <<Private>> <=> Private \in KeysIn(todo) /\ Public \notin KeysIn(todo)
      BY TodoFacts, TodosDiffer, KeyFacts DEF Todos
    <3> QED
      BY ONLY <3>1, <3>2, <3>3
  <2>2. Private \in KeysOf(h) => \A g \in Holders \ {h} : Private \notin KeysOf(g)
    <3>1. OneWriter /\ Private \in ConfigKeys \ disturbed
      BY KeyFacts DEF SecretInv
    <3> QED
      BY ONLY <3>1, h \in Holders DEF OneWriter
  <2>3. CASE op[h].todo = <<Public, Private>>
    <3>1. last'[Public] = v /\ op'[h].todo = <<Private>> /\ op'[h].value = v
      BY <1>2, <1>5, <2>3
    <3>2. \A g \in Holders \ {h} : op'[g].todo # <<Private>>
      BY <1>0, <2>1, <2>2, <2>3, TodoFacts
    <3> QED
      BY <3>1, <3>2 DEF PairInv
  <2>4. CASE op[h].todo = <<Private>>
    <3>1. key = Private /\ last'[Private] = v /\ last'[Public] = last[Public] /\ last[Public] = v
      BY <1>0, <1>2, <2>4, TodoFacts, KeyFacts DEF Key, SecretInv, PairInv
    <3>2. \A g \in Holders \ {h} : op'[g].todo # <<Private>>
      BY <1>0, <2>1, <2>2, <2>4, TodoFacts
    <3>3. op'[h].todo # <<Private>>
      BY <1>5, <2>4, CallFacts, TodosDiffer
    <3> QED
      BY <3>1, <3>2, <3>3 DEF PairInv
  <2>5. CASE op[h].todo # <<Public, Private>> /\ op[h].todo # <<Private>>
    <3>1. last'[Public] = last[Public] /\ last'[Private] = last[Private]
      BY <1>0, <1>2, <2>5, TodoKeys, KeyFacts DEF Key
    <3>2. op'[h].todo # <<Private>>
      BY <1>5, <2>5, CallFacts, TodosDiffer
    <3>3. \A g \in Holders : op'[g].todo = <<Private>> => op[g].todo = <<Private>> /\ op'[g].value = op[g].value
      BY <2>1, <3>2
    <3>4. \A g \in Holders : op[g].todo = <<Private>> => op'[g].todo = <<Private>>
      BY <2>1, <2>5
    <3> QED
      BY <3>1, <3>3, <3>4 DEF SecretInv, PairInv
  <2> QED
    BY <2>3, <2>4, <2>5
<1>17. TokenInv'
  <2> SUFFICES ASSUME Token \notin disturbed PROVE TokenInv'
    BY <1>1 DEF TokenInv
  <2>1. op[h].minting \/ op[h].rotating <=> op[h].todo = <<Token>>
    BY <1>0 DEF CallIsKnown
  <2>2. CASE op[h].todo = <<Token>>
    <3>1. key = Token /\ last'[Token] = v
      BY <1>0, <1>2, <2>2, TodoFacts DEF Key
    <3>2. \A g \in Holders \ {h} : op'[g].todo # <<Token>>
      BY <1>0, <1>4, <1>13, <2>2, <3>1, OpFacts, TodoFacts DEF Others
    <3>3. \A g \in Holders : ~op'[g].minting
      <4>1. ~op'[h].minting
        BY <1>5, <2>2, TodosDiffer, CallFacts
      <4> QED
        BY <1>7, <3>2, <4>1 DEF CallIsKnown
    <3>4. ASSUME NEW g \in Holders \ overtaken', token'[g] # 0 PROVE token'[g] = last'[Token]
      <4>1. CASE op[h].minting
        <5>1. ~op[h].rotating /\ overtaken' = overtaken
          BY <1>0, <1>1, <4>1 DEF CallIsKnown
        <5>2. token' = [token EXCEPT ![h] = v]
          BY <1>3, <2>2, <4>1, TodosDiffer
        <5>3. token[g] \in {0, v}
          BY <1>0, <3>4, <4>1, <5>1 DEF SecretInv, TokenInv
        <5> QED
          BY <1>0, <3>1, <3>4, <5>2, <5>3 DEF SecretTypeOK
      <4>2. CASE ~op[h].minting
        <5>1. op[h].rotating /\ token' = token
          BY <1>3, <2>1, <2>2, <4>2, TodosDiffer
        <5> QED
          BY <1>1, <3>4, <5>1
      <4> QED
        BY <4>1, <4>2
    <3> QED
      BY <3>3, <3>4 DEF TokenInv
  <2>3. CASE op[h].todo # <<Token>>
    <3>1. ~op[h].minting /\ ~op[h].rotating
      BY <2>1, <2>3
    <3>2. token' = token /\ overtaken' = overtaken
      BY <1>1, <1>3, <3>1
    <3>3. last'[Token] = last[Token]
      BY <1>0, <1>2, <2>3, TodoKeys, KeyFacts
    <3>4. ~op'[h].minting
      BY <1>5, <3>1, CallFacts
    <3>5. \A f \in Holders : op[f].todo = <<Token>> => op'[f] = op[f] /\ spc'[f] = spc[f]
      BY <1>4, <2>3 DEF Others
    <3>6. ASSUME NEW g \in Holders \ overtaken', token'[g] # 0, token'[g] # last'[Token]
          PROVE  \E f \in Holders : op'[f].todo = <<Token>> /\ spc'[f] = "write" /\ token'[g] = op'[f].value
      <4>1. PICK f \in Holders : op[f].todo = <<Token>> /\ spc[f] = "write" /\ token[g] = op[f].value
        BY <3>2, <3>3, <3>6 DEF SecretInv, TokenInv
      <4> QED
        BY <3>2, <3>5, <4>1
    <3>7. ASSUME NEW f \in Holders, op'[f].minting
          PROVE  last'[Token] = 0 /\ \A g \in Holders \ overtaken' : token'[g] \in {0, op'[f].value}
      <4>1. f # h /\ op'[f] = op[f]
        BY <1>4, <3>4, <3>7 DEF Others
      <4> QED
        BY <3>2, <3>3, <3>7, <4>1 DEF SecretInv, TokenInv
    <3> QED
      BY <3>6, <3>7 DEF TokenInv
  <2> QED
    BY <2>2, <2>3
<1> QED
  BY <1>6, <1>7, <1>8, <1>10, <1>11, <1>14, <1>15, <1>16, <1>17 DEF SecretInv

\* A write of half a pair fails, and nobody looks: the other half is written.
LEMMA HalfFailsKeeps ==
  ASSUME SecretInv, NEW h \in Holders, WriteFails(h), op[h].todo = <<Public, Private>>
  PROVE  SecretInv'
<1>0. /\ SecretTypeOK /\ CallIsKnown(h) /\ MaxSets \in Nat /\ used \in 0..MaxSets
      /\ KeysOf(h) = {Public, Private} /\ op[h] \in Calls /\ spc[h] = "write" /\ op[h].value \in 0..MaxSets
  BY SecretAssumption, OpFacts, TodoFacts DEF SecretInv, SecretTypeOK, WriteFails
<1>1. /\ op' = [op EXCEPT ![h].todo = <<Private>>, ![h].existing = None] /\ spc' = [spc EXCEPT ![h] = "read"]
      /\ mishaps' = mishaps + 1 /\ disturbed' = disturbed \cup KeysOf(h)
      /\ UNCHANGED <<raw, ring, allow, used, last, overtaken, up, token>>
  <2>1. op[h].ignoresErrors
    BY <1>0 DEF CallIsKnown
  <2> QED
    BY <1>0, <2>1, TodoFacts DEF WriteFails, Returns
<1>2. op'[h] = [op[h] EXCEPT !.todo = <<Private>>, !.existing = None] /\ spc'[h] = "read" /\ Others(h)
  BY <1>0, <1>1 DEF SecretTypeOK, Others
<1>3. /\ op'[h] \in Calls /\ op'[h].todo = <<Private>> /\ op'[h].value = op[h].value
      /\ op'[h].ignoresErrors = op[h].ignoresErrors
      /\ op'[h].opening = op[h].opening /\ op'[h].minting = op[h].minting /\ op'[h].rotating = op[h].rotating
  <2>1. <<Private>> \in Todos /\ None \in Raw
    BY RawFacts DEF Todos
  <2>2. op'[h] \in Calls
    BY <1>0, <1>2, <2>1 DEF Calls
  <2> QED
    BY <1>0, <1>2, <2>2 DEF Calls
<1>4. SecretTypeOK'
  <2>1. op' \in [Holders -> Calls]
    BY <1>0, <1>1, <1>2, <1>3 DEF SecretTypeOK
  <2>2. spc' \in [Holders -> {"down", "idle", "read", "ring", "write"}]
    BY <1>0, <1>1 DEF SecretTypeOK
  <2> QED
    BY <1>0, <1>1, <2>1, <2>2, KeyFacts DEF SecretTypeOK
<1>5. \A g \in Holders : CallIsKnown(g)'
  <2>1. CallIsKnown(h)'
    BY <1>0, <1>1, <1>2, <1>3, TodosDiffer DEF CallIsKnown
  <2> QED
    BY <1>1, <1>2, <2>1, OthersKnown
<1>6. PublicIsPlain'
  BY <1>1, <1>2 DEF SecretInv, PublicIsPlain, Others
<1>7. KeysOf(h)' = {Private}
  BY <1>3, TodoFacts DEF KeysOf, KeysIn
<1>8. ClaimsAreApart'
  <2>1. \A k \in SensitiveKeys, n \in 1..MaxSets : OwnClaim(h, k, n)' => Claimed(k, n)
    BY <1>0, <1>2, <1>3, <1>7 DEF OwnClaim, Claimed
  <2>2. \A k \in SensitiveKeys, n \in 1..MaxSets : raw'[k].n = n => Claimed(k, n)
    BY <1>1 DEF Claimed
  <2> QED
    BY <1>0, <1>1, <1>2, <2>1, <2>2, ClaimsKeep
<1>9. OneWriter'
  BY <1>0, <1>1, <1>2, <1>7, OneWriterKeeps
<1>10. Sound'
  <2>1. Key(h)' = Private
    BY <1>3, TodoFacts DEF Key
  <2> QED
    BY <1>0, <1>1, <1>2, <2>1, SoundKeeps
<1>11. Sealed'
  BY <1>1, <1>2 DEF SecretInv, Sealed, Others, Key
<1>12. PairInv'
  BY <1>0, <1>1 DEF PairInv
<1>13. TokenInv'
  <2> SUFFICES ASSUME Token \notin disturbed' PROVE TokenInv'
    BY DEF TokenInv
  <2>1. op[h].todo # <<Token>> /\ op'[h].todo # <<Token>>
    BY <1>3, TodosDiffer
  <2>2. ~op'[h].minting
    BY <1>0, <1>3, TodosDiffer DEF CallIsKnown
  <2>3. \A f \in Holders : op[f].todo = <<Token>> => op'[f] = op[f] /\ spc'[f] = spc[f]
    BY <1>2, <2>1 DEF Others
  <2>4. \A f \in Holders : op'[f].minting => op'[f] = op[f]
    BY <1>2, <2>2 DEF Others
  <2>5. Token \notin disturbed
    BY <1>1
  <2>6. ASSUME NEW g \in Holders \ overtaken', token'[g] # 0, token'[g] # last'[Token]
        PROVE  \E f \in Holders : op'[f].todo = <<Token>> /\ spc'[f] = "write" /\ token'[g] = op'[f].value
    <3>1. PICK f \in Holders : op[f].todo = <<Token>> /\ spc[f] = "write" /\ token[g] = op[f].value
      BY <1>1, <2>5, <2>6 DEF SecretInv, TokenInv
    <3> QED
      BY <1>1, <2>3, <3>1
  <2>7. ASSUME NEW f \in Holders, op'[f].minting
        PROVE  last'[Token] = 0 /\ \A g \in Holders \ overtaken' : token'[g] \in {0, op'[f].value}
    BY <1>1, <2>4, <2>5, <2>7 DEF SecretInv, TokenInv
  <2> QED
    BY <2>6, <2>7 DEF TokenInv
<1> QED
  BY <1>4, <1>5, <1>6, <1>8, <1>9, <1>10, <1>11, <1>12, <1>13 DEF SecretInv

\* A call that wrote nothing more returns its error.
LEMMA ErrorKeeps ==
  ASSUME SecretInv, NEW h \in Holders, spc[h] # "idle", spc[h] # "down",
         op[h].todo # <<Public, Private>>, Returns(h, FALSE),
         UNCHANGED <<raw, ring, last, allow, used, overtaken>>,
         disturbed \subseteq disturbed', disturbed' \subseteq ConfigKeys, mishaps' \in Nat,
         spc[h] # "write" \/ KeysOf(h) \subseteq disturbed',
         Private \in KeysOf(h) => Private \in disturbed'
  PROVE  SecretInv'
<1>1. /\ SecretTypeOK /\ CallIsKnown(h) /\ op[h].todo # <<>> /\ op[h].todo \in Todos /\ op[h] \in Calls
  BY OpFacts DEF SecretInv, CallIsKnown
<1>2. PICK pc \in {"down", "idle"} : pc = IF op[h].opening THEN "down" ELSE "idle"
  OBVIOUS
<1>3. op' = [op EXCEPT ![h] = NoOp] /\ spc' = [spc EXCEPT ![h] = pc] /\ UNCHANGED <<up, token>>
  <2>1. Len(op[h].todo) # 2
    BY <1>1, TodoKeys
  <2> QED
    BY <1>2, <2>1 DEF Returns, Ends
<1>4. /\ op'[h] = NoOp /\ spc'[h] = pc /\ Others(h) /\ op' \in [Holders -> Calls]
      /\ spc' \in [Holders -> {"down", "idle", "read", "ring", "write"}]
  BY <1>1, <1>3, CallFacts DEF SecretTypeOK, Others
<1>5. pc = "idle" => h \in up'
  BY <1>1, <1>2, <1>3 DEF CallIsKnown
<1>6. token' \in [Holders -> 0..MaxSets] /\ \A g \in Holders : token'[g] \in {token[g], 0}
  BY <1>1, <1>3 DEF SecretTypeOK
<1>7. overtaken' \subseteq Holders /\ \A g \in Holders \ overtaken' : g \notin overtaken \/ token'[g] = 0
  BY <1>1 DEF SecretTypeOK
<1> QED
  BY <1>3, <1>4, <1>5, <1>6, <1>7, EndsKeeps

\* What Starts comes to.
LEMMA StartsIs ==
  ASSUME SecretTypeOK, NEW h \in Holders, NEW call \in Calls, NEW pc \in {"read", "ring"},
         op' = [op EXCEPT ![h] = call], spc' = [spc EXCEPT ![h] = pc]
  PROVE  /\ op'[h] = call /\ spc'[h] = pc /\ Others(h) /\ op' \in [Holders -> Calls]
         /\ spc' \in [Holders -> {"down", "idle", "read", "ring", "write"}]
BY DEF SecretTypeOK, Others

LEMMA StartsDisturbs ==
  ASSUME SecretTypeOK, NEW h \in Holders, NEW call \in Calls, NEW pc, Starts(h, call, pc)
  PROVE  /\ op' = [op EXCEPT ![h] = call] /\ spc' = [spc EXCEPT ![h] = pc]
         /\ disturbed \subseteq disturbed' /\ disturbed' \subseteq ConfigKeys
         /\ \A k \in KeysIn(call.todo), g \in Holders \ {h} : k \in KeysOf(g) => k \in disturbed'
<1>1. KeysIn(call.todo) \subseteq ConfigKeys
  BY TodoKeys DEF Calls
<1> QED
  BY <1>1 DEF Starts, SecretTypeOK, KeysIn

\* A call that is told to do one thing more than to write.
LEMMA CallWith ==
  ASSUME NEW todo \in Todos, NEW v \in 0..MaxSets
  PROVE  /\ \E d \in Calls : /\ d = [Call(todo, v) EXCEPT !.opening = TRUE] /\ d.todo = todo /\ d.value = v
                           /\ d.existing = None /\ d.opening /\ ~d.minting /\ ~d.rotating /\ ~d.ignoresErrors
         /\ \E d \in Calls : /\ d = [Call(todo, v) EXCEPT !.minting = TRUE] /\ d.todo = todo /\ d.value = v
                           /\ d.existing = None /\ ~d.opening /\ d.minting /\ ~d.rotating /\ ~d.ignoresErrors
         /\ \E d \in Calls : /\ d = [Call(todo, v) EXCEPT !.rotating = TRUE] /\ d.todo = todo /\ d.value = v
                           /\ d.existing = None /\ ~d.opening /\ ~d.minting /\ d.rotating /\ ~d.ignoresErrors
         /\ \E d \in Calls : /\ d = [Call(todo, v) EXCEPT !.ignoresErrors = TRUE] /\ d.todo = todo /\ d.value = v
                           /\ d.existing = None /\ ~d.opening /\ ~d.minting /\ ~d.rotating /\ d.ignoresErrors
<1>1. PICK c \in Calls : /\ c = Call(todo, v) /\ c.todo = todo /\ c.value = v /\ c.existing = None
                         /\ ~c.ignoresErrors /\ ~c.opening /\ ~c.minting /\ ~c.rotating
  BY CallFacts
<1>2. \E d \in Calls : /\ d = [c EXCEPT !.opening = TRUE] /\ d.todo = todo /\ d.value = v
                    /\ d.existing = None /\ d.opening /\ ~d.minting /\ ~d.rotating /\ ~d.ignoresErrors
  <2> DEFINE d == [c EXCEPT !.opening = TRUE]
  <2>1. d \in Calls
    BY <1>1 DEF Calls
  <2>2. d.todo = todo /\ d.value = v /\ d.existing = None /\ d.opening /\ ~d.minting /\ ~d.rotating /\ ~d.ignoresErrors
    BY <1>1 DEF Calls
  <2> QED
    BY <2>1, <2>2
<1>3. \E d \in Calls : /\ d = [c EXCEPT !.minting = TRUE] /\ d.todo = todo /\ d.value = v
                    /\ d.existing = None /\ ~d.opening /\ d.minting /\ ~d.rotating /\ ~d.ignoresErrors
  <2> DEFINE d == [c EXCEPT !.minting = TRUE]
  <2>1. d \in Calls
    BY <1>1 DEF Calls
  <2>2. d.todo = todo /\ d.value = v /\ d.existing = None /\ ~d.opening /\ d.minting /\ ~d.rotating /\ ~d.ignoresErrors
    BY <1>1 DEF Calls
  <2> QED
    BY <2>1, <2>2
<1>4. \E d \in Calls : /\ d = [c EXCEPT !.rotating = TRUE] /\ d.todo = todo /\ d.value = v
                    /\ d.existing = None /\ ~d.opening /\ ~d.minting /\ d.rotating /\ ~d.ignoresErrors
  <2> DEFINE d == [c EXCEPT !.rotating = TRUE]
  <2>1. d \in Calls
    BY <1>1 DEF Calls
  <2>2. d.todo = todo /\ d.value = v /\ d.existing = None /\ ~d.opening /\ ~d.minting /\ d.rotating /\ ~d.ignoresErrors
    BY <1>1 DEF Calls
  <2> QED
    BY <2>1, <2>2
<1>5. \E d \in Calls : /\ d = [c EXCEPT !.ignoresErrors = TRUE] /\ d.todo = todo /\ d.value = v
                    /\ d.existing = None /\ ~d.opening /\ ~d.minting /\ ~d.rotating /\ d.ignoresErrors
  <2> DEFINE d == [c EXCEPT !.ignoresErrors = TRUE]
  <2>1. d \in Calls
    BY <1>1 DEF Calls
  <2>2. d.todo = todo /\ d.value = v /\ d.existing = None /\ ~d.opening /\ ~d.minting /\ ~d.rotating /\ d.ignoresErrors
    BY <1>1 DEF Calls
  <2> QED
    BY <2>1, <2>2
<1> QED
  BY <1>1, <1>2, <1>3, <1>4, <1>5

LEMMA OpenKeeps ==
  ASSUME SecretInv, NEW h \in Holders, OpenSecrets(h) PROVE SecretInv'
<1>0. /\ SecretTypeOK /\ CallIsKnown(h) /\ spc[h] = "down" /\ op[h].todo = <<>> /\ raw[Pass] \in Raw
      /\ used \in 0..MaxSets
  BY KeyFacts DEF SecretInv, SecretTypeOK, CallIsKnown, OpenSecrets
<1>1. CASE raw[Pass].kind = "plain"
  <2>1. PICK v \in 1..MaxSets : raw[Pass] = Plain(v) /\ raw[Pass].n = v
    BY <1>0, <1>1, RawFacts
  <2>2. <<Pass>> \in Todos /\ v \in 0..MaxSets
    BY DEF Todos
  <2>3. PICK call \in Calls :
          /\ call = [Call(<<Pass>>, v) EXCEPT !.opening = TRUE]
          /\ call.todo = <<Pass>> /\ call.value = v /\ call.existing = None
          /\ call.opening /\ ~call.minting /\ ~call.rotating /\ ~call.ignoresErrors
    BY <2>2, CallWith
  <2>4. Starts(h, call, "ring") /\ UNCHANGED <<raw, ring, last, allow, up, token, overtaken, used, mishaps>>
    BY <1>1, <2>1, <2>3 DEF OpenSecrets
  <2>5. /\ op' = [op EXCEPT ![h] = call] /\ spc' = [spc EXCEPT ![h] = "ring"]
        /\ disturbed \subseteq disturbed' /\ disturbed' \subseteq ConfigKeys
        /\ \A k \in KeysIn(call.todo), g \in Holders \ {h} : k \in KeysOf(g) => k \in disturbed'
    BY <1>0, <2>4, StartsDisturbs
  <2>6. /\ op'[h] = call /\ spc'[h] = "ring" /\ Others(h) /\ op' \in [Holders -> Calls]
        /\ spc' \in [Holders -> {"down", "idle", "read", "ring", "write"}]
    BY <1>0, <2>5, StartsIs
  <2>7. mishaps' \in Nat /\ used' \in 0..MaxSets /\ used <= used' /\ v # 0
    BY <1>0, <2>4 DEF SecretTypeOK
  <2> QED
    BY <1>0, <2>1, <2>3, <2>4, <2>5, <2>6, <2>7, TodosDiffer, StartKeeps
<1>2. CASE raw[Pass].kind # "plain"
  <2>1. /\ spc' = [spc EXCEPT ![h] = "idle"] /\ up' = up \cup {h}
        /\ UNCHANGED <<raw, ring, allow, token, used, mishaps, last, overtaken, op, disturbed>>
    BY <1>2 DEF OpenSecrets
  <2>2. spc'[h] = "idle" /\ Others(h)
    BY <1>0, <2>1 DEF SecretTypeOK, Others
  <2>3. SecretTypeOK'
    BY <1>0, <2>1 DEF SecretTypeOK
  <2>4. CallIsKnown(h)'
    BY <1>0, <2>1, <2>2, TodosDiffer DEF CallIsKnown
  <2>5. \A g \in Holders : CallIsKnown(g)'
    BY <2>1, <2>2, <2>4, OthersKnown
  <2>6. PublicIsPlain'
    BY <2>1, <2>2 DEF SecretInv, PublicIsPlain, Others
  <2>7. \A k, n : OwnClaim(h, k, n)' => OwnClaim(h, k, n)
    BY <2>1, <2>2 DEF OwnClaim, KeysOf
  <2>8. ClaimsAreApart'
    BY <1>0, <2>1, <2>2, <2>7, ClaimsKeep DEF Claimed
  <2>9. OneWriter'
    BY <2>1 DEF SecretInv, OneWriter, KeysOf
  <2>10. Sound'
    <3>1. op'[h].todo = <<>>
      BY <1>0, <2>1
    <3> QED
      BY <1>0, <2>1, <2>2, <3>1, SoundKeeps
  <2>11. Sealed'
    BY <1>2, <2>1, <2>2 DEF SecretInv, Sealed, Others, Key
  <2>12. PairInv'
    BY <2>1 DEF SecretInv, PairInv
  <2>13. TokenInv'
    <3>1. \A g \in Holders : spc[g] = "write" => spc'[g] = "write"
      BY <1>0, <2>2 DEF Others
    <3> QED
      BY <2>1, <3>1 DEF SecretInv, TokenInv
  <2> QED
    BY <2>3, <2>5, <2>6, <2>8, <2>9, <2>10, <2>11, <2>12, <2>13 DEF SecretInv
<1> QED
  BY <1>1, <1>2

LEMMA SetKeeps ==
  ASSUME SecretInv, NEW h \in Holders, SetConfig(h) PROVE SecretInv'
<1>0. /\ SecretTypeOK /\ CallIsKnown(h) /\ spc[h] = "idle" /\ op[h].todo = <<>> /\ used \in 0..MaxSets
      /\ MaxSets \in Nat /\ <<Pass>> \in Todos
      /\ UNCHANGED <<raw, ring, up, allow, token, mishaps, last, overtaken>>
  BY SecretAssumption DEF SecretInv, SecretTypeOK, CallIsKnown, SetConfig, Todos
<1>1. PICK v \in 0..MaxSets :
        /\ Starts(h, Call(<<Pass>>, v), "read") /\ used' \in 0..MaxSets /\ used <= used'
        /\ v = 0 \/ (v = used + 1 /\ v = used')
  BY <1>0 DEF SetConfig
<1>2. PICK call \in Calls :
        /\ call = Call(<<Pass>>, v) /\ call.todo = <<Pass>> /\ call.value = v /\ call.existing = None
        /\ ~call.opening /\ ~call.minting /\ ~call.rotating /\ ~call.ignoresErrors
  BY <1>0, CallFacts
<1>3. /\ op' = [op EXCEPT ![h] = call] /\ spc' = [spc EXCEPT ![h] = "read"]
      /\ disturbed \subseteq disturbed' /\ disturbed' \subseteq ConfigKeys
      /\ \A k \in KeysIn(call.todo), g \in Holders \ {h} : k \in KeysOf(g) => k \in disturbed'
  BY <1>0, <1>1, <1>2, StartsDisturbs
<1>4. /\ op'[h] = call /\ spc'[h] = "read" /\ Others(h) /\ op' \in [Holders -> Calls]
      /\ spc' \in [Holders -> {"down", "idle", "read", "ring", "write"}]
  BY <1>0, <1>3, StartsIs
<1>5. mishaps' \in Nat /\ h \in up
  BY <1>0, TodosDiffer DEF SecretTypeOK, CallIsKnown
<1> QED
  BY <1>0, <1>1, <1>2, <1>3, <1>4, <1>5, TodosDiffer, StartKeeps

\* A new value is set: one of a token, or of a pair.
LEMMA NewKeeps ==
  ASSUME SecretInv, NEW h \in Holders, NEW call \in Calls, spc[h] = "idle",
         op' = [op EXCEPT ![h] = call], spc' = [spc EXCEPT ![h] = "read"],
         UNCHANGED <<raw, ring, up, allow, token, last, overtaken>>, mishaps' \in Nat,
         disturbed \subseteq disturbed', disturbed' \subseteq ConfigKeys,
         \A k \in KeysIn(call.todo), g \in Holders \ {h} : k \in KeysOf(g) => k \in disturbed',
         used < MaxSets, used' = used + 1, call.value = used + 1, call.existing = None, ~call.opening,
         call.todo \in {<<Token>>, <<Public, Private>>},
         call.ignoresErrors <=> call.todo = <<Public, Private>>,
         call.minting \/ call.rotating <=> call.todo = <<Token>>, ~(call.minting /\ call.rotating),
         call.minting => token[h] = 0 /\ (Token \notin disturbed' => Resolve(Token) = 0)
  PROVE  SecretInv'
<1>1. /\ SecretTypeOK /\ CallIsKnown(h) /\ op[h].todo = <<>> /\ used \in 0..MaxSets /\ MaxSets \in Nat
  BY SecretAssumption DEF SecretInv, SecretTypeOK, CallIsKnown
<1>2. /\ op'[h] = call /\ spc'[h] = "read" /\ Others(h) /\ op' \in [Holders -> Calls]
      /\ spc' \in [Holders -> {"down", "idle", "read", "ring", "write"}]
  BY <1>1, StartsIs
<1>3. h \in up /\ used' \in 0..MaxSets /\ used <= used' /\ call.value # 0
  BY <1>1, TodosDiffer DEF CallIsKnown
<1>4. call.todo \notin {<<>>, <<Private>>}
  BY TodosDiffer
<1> QED
  BY <1>1, <1>2, <1>3, <1>4, StartKeeps

LEMMA TokenTodos == <<Token>> \in Todos /\ <<Public, Private>> \in Todos
BY DEF Todos

LEMMA EnsureKeeps ==
  ASSUME SecretInv, NEW h \in Holders, EnsureToken(h) PROVE SecretInv'
<1>0. /\ SecretTypeOK /\ CallIsKnown(h) /\ spc[h] = "idle" /\ token[h] = 0 /\ op[h].todo = <<>>
      /\ used \in 0..MaxSets /\ MaxSets \in Nat
      /\ UNCHANGED <<raw, ring, up, allow, mishaps, last, overtaken>>
  BY SecretAssumption DEF SecretInv, SecretTypeOK, CallIsKnown, EnsureToken
<1>1. CASE Resolve(Token) = 0
  <2>1. /\ used < MaxSets /\ used' = used + 1 /\ UNCHANGED token
        /\ Starts(h, [Call(<<Token>>, used + 1) EXCEPT !.minting = TRUE], "read")
    BY <1>1 DEF EnsureToken
  <2>2. PICK call \in Calls :
          /\ call = [Call(<<Token>>, used + 1) EXCEPT !.minting = TRUE]
          /\ call.todo = <<Token>> /\ call.value = used + 1 /\ call.existing = None
          /\ ~call.opening /\ call.minting /\ ~call.rotating /\ ~call.ignoresErrors
    <3>1. used + 1 \in 0..MaxSets
      BY <1>0, <2>1
    <3> QED
      BY <3>1, TokenTodos, CallWith
  <2>3. /\ op' = [op EXCEPT ![h] = call] /\ spc' = [spc EXCEPT ![h] = "read"]
        /\ disturbed \subseteq disturbed' /\ disturbed' \subseteq ConfigKeys
        /\ \A k \in KeysIn(call.todo), g \in Holders \ {h} : k \in KeysOf(g) => k \in disturbed'
    BY <1>0, <2>1, <2>2, StartsDisturbs
  <2>4. mishaps' \in Nat
    BY <1>0 DEF SecretTypeOK
  <2> QED
    BY <1>0, <1>1, <2>1, <2>2, <2>3, <2>4, TodosDiffer, NewKeeps
<1>2. CASE Resolve(Token) # 0
  <2>1. token' = [token EXCEPT ![h] = Resolve(Token)] /\ UNCHANGED <<spc, op, used, disturbed>>
    BY <1>2 DEF EnsureToken
  <2>2. Resolve(Token) \in 0..MaxSets
    <3>1. raw[Token] \in Raw /\ ring \in [1..MaxSets -> 0..MaxSets]
      BY <1>0, KeyFacts DEF SecretTypeOK
    <3> QED
      BY <3>1, RawFacts DEF Resolve
  <2>3. SecretTypeOK'
    BY <1>0, <2>1, <2>2 DEF SecretTypeOK
  <2>4. \A g \in Holders : CallIsKnown(g)'
    <3>1. token'[h] = Resolve(Token) /\ \A g \in Holders \ {h} : token'[g] = token[g]
      BY <1>0, <2>1 DEF SecretTypeOK
    <3>2. ~op[h].minting
      BY <1>0, TodosDiffer DEF CallIsKnown
    <3>3. CallIsKnown(h)'
      BY <1>0, <2>1, <3>2 DEF CallIsKnown
    <3> QED
      BY <1>0, <2>1, <3>1, <3>3, OthersKnown DEF Others
  <2>5. PublicIsPlain' /\ OneWriter' /\ Sealed' /\ PairInv'
    BY <1>0, <2>1 DEF SecretInv, PublicIsPlain, OneWriter, Sealed, PairInv, KeysOf, Key
  <2>6. ClaimsAreApart'
    BY <1>0, <2>1 DEF SecretInv, ClaimsAreApart, Claimed, OwnClaim, KeysOf, Key
  <2>7. Sound'
    BY <1>0, <2>1 DEF SecretInv, Sound, WriteIsSound, Key, Resolve
  <2>8. TokenInv'
    <3> SUFFICES ASSUME Token \notin disturbed PROVE TokenInv'
      BY <2>1 DEF TokenInv
    <3>1. \/ Resolve(Token) = last[Token]
          \/ \E f \in Holders : op[f].todo = <<Token>> /\ spc[f] = "write" /\ Resolve(Token) = op[f].value
      <4>1. CASE \A f \in Holders : op[f].todo # <<>> => Key(f) # Token
        BY <4>1, KeyFacts DEF SecretInv, Sound
      <4>2. ASSUME NEW f \in Holders, op[f].todo # <<>>, Key(f) = Token
            PROVE  \/ Resolve(Token) = last[Token]
                   \/ op[f].todo = <<Token>> /\ spc[f] = "write" /\ Resolve(Token) = op[f].value
        <5>1. WriteIsSound(f) /\ op[f].todo = <<Token>>
          BY <1>0, <4>2, OpFacts, TodoKeys DEF SecretInv, Sound
        <5> QED
          BY <4>2, <5>1 DEF WriteIsSound
      <4> QED
        BY <4>1, <4>2
    <3>2. \A f \in Holders : op[f].todo = <<Token>> => Token \in KeysOf(f)
      BY TodoFacts, KeysOfIs
    <3>3. ASSUME NEW f \in Holders, op[f].minting PROVE Resolve(Token) \in {0, op[f].value}
      <4>1. op[f].todo = <<Token>> /\ last[Token] = 0
        BY <3>3 DEF SecretInv, CallIsKnown, TokenInv
      <4>2. \A g \in Holders : op[g].todo = <<Token>> => g = f
        BY <3>2, <4>1, KeyFacts DEF SecretInv, OneWriter
      <4> QED
        BY <3>1, <4>1, <4>2
    <3>4. \A g \in Holders : token'[g] = IF g = h THEN Resolve(Token) ELSE token[g]
      BY <1>0, <2>1 DEF SecretTypeOK
    <3>5. ASSUME NEW g \in Holders \ overtaken', token'[g] # 0, token'[g] # last'[Token]
          PROVE  \E f \in Holders : op'[f].todo = <<Token>> /\ spc'[f] = "write" /\ token'[g] = op'[f].value
      <4>1. CASE g = h
        BY <1>0, <2>1, <3>1, <3>4, <3>5, <4>1
      <4>2. CASE g # h
        <5>1. g \in Holders \ overtaken /\ token[g] # 0 /\ token[g] # last[Token] /\ token'[g] = token[g]
          BY <1>0, <3>4, <3>5, <4>2
        <5>2. PICK f \in Holders : op[f].todo = <<Token>> /\ spc[f] = "write" /\ token[g] = op[f].value
          BY <5>1 DEF SecretInv, TokenInv
        <5> QED
          BY <2>1, <5>1, <5>2
      <4> QED
        BY <4>1, <4>2
    <3>6. ASSUME NEW f \in Holders, op'[f].minting
          PROVE  last'[Token] = 0 /\ \A g \in Holders \ overtaken' : token'[g] \in {0, op'[f].value}
      BY <1>0, <2>1, <3>3, <3>4, <3>6 DEF SecretInv, TokenInv
    <3> QED
      BY <3>5, <3>6 DEF TokenInv
  <2> QED
    BY <2>3, <2>4, <2>5, <2>6, <2>7, <2>8 DEF SecretInv
<1> QED
  BY <1>1, <1>2

LEMMA UnreadableKeeps ==
  ASSUME SecretInv, NEW h \in Holders, TokenUnreadable(h) PROVE SecretInv'
<1>0. /\ SecretTypeOK /\ spc[h] = "idle" /\ token[h] = 0 /\ used \in 0..MaxSets /\ MaxSets \in Nat
      /\ used < MaxSets /\ used' = used + 1 /\ disturbed' = disturbed \cup {Token} /\ mishaps' \in Nat
      /\ UNCHANGED <<raw, ring, up, allow, token, last, overtaken>>
  BY SecretAssumption DEF SecretInv, SecretTypeOK, TokenUnreadable
<1>1. PICK call \in Calls :
        /\ call = [Call(<<Token>>, used + 1) EXCEPT !.minting = TRUE]
        /\ call.todo = <<Token>> /\ call.value = used + 1 /\ call.existing = None
        /\ ~call.opening /\ call.minting /\ ~call.rotating /\ ~call.ignoresErrors
  <2>1. used + 1 \in 0..MaxSets
    BY <1>0
  <2> QED
    BY <2>1, TokenTodos, CallWith
<1>2. op' = [op EXCEPT ![h] = call] /\ spc' = [spc EXCEPT ![h] = "read"]
  BY <1>1 DEF TokenUnreadable
<1>3. disturbed' \subseteq ConfigKeys /\ KeysIn(call.todo) = {Token}
  BY <1>0, <1>1, TodoFacts, KeyFacts DEF SecretTypeOK
<1> QED
  BY <1>0, <1>1, <1>2, <1>3, TodosDiffer, NewKeeps

LEMMA VAPIDKeeps ==
  ASSUME SecretInv, NEW h \in Holders, VAPIDKey(h) PROVE SecretInv'
<1>0. /\ SecretTypeOK /\ spc[h] = "idle" /\ used \in 0..MaxSets /\ MaxSets \in Nat
      /\ used < MaxSets /\ used' = used + 1 /\ mishaps' \in Nat
      /\ UNCHANGED <<raw, ring, up, allow, token, last, overtaken>>
  BY SecretAssumption DEF SecretInv, SecretTypeOK, VAPIDKey
<1>1. PICK call \in Calls :
        /\ call = [Call(<<Public, Private>>, used + 1) EXCEPT !.ignoresErrors = TRUE]
        /\ call.todo = <<Public, Private>> /\ call.value = used + 1 /\ call.existing = None
        /\ ~call.opening /\ ~call.minting /\ ~call.rotating /\ call.ignoresErrors
  <2>1. used + 1 \in 0..MaxSets
    BY <1>0
  <2> QED
    BY <2>1, TokenTodos, CallWith
<1>2. Starts(h, call, "read")
  BY <1>1 DEF VAPIDKey
<1>3. /\ op' = [op EXCEPT ![h] = call] /\ spc' = [spc EXCEPT ![h] = "read"]
      /\ disturbed \subseteq disturbed' /\ disturbed' \subseteq ConfigKeys
      /\ \A k \in KeysIn(call.todo), g \in Holders \ {h} : k \in KeysOf(g) => k \in disturbed'
  BY <1>0, <1>2, StartsDisturbs
<1> QED
  BY <1>0, <1>1, <1>3, TodosDiffer, NewKeeps

LEMMA RotateKeeps ==
  ASSUME SecretInv, NEW h \in Holders, RotateToken(h) PROVE SecretInv'
<1>0. /\ SecretTypeOK /\ spc[h] = "idle" /\ used \in 0..MaxSets /\ MaxSets \in Nat
      /\ used < MaxSets /\ used' = used + 1 /\ mishaps' \in Nat
      /\ UNCHANGED <<raw, ring, up, allow, token, last, overtaken>>
  BY SecretAssumption DEF SecretInv, SecretTypeOK, RotateToken
<1>1. PICK call \in Calls :
        /\ call = [Call(<<Token>>, used + 1) EXCEPT !.rotating = TRUE]
        /\ call.todo = <<Token>> /\ call.value = used + 1 /\ call.existing = None
        /\ ~call.opening /\ ~call.minting /\ call.rotating /\ ~call.ignoresErrors
  <2>1. used + 1 \in 0..MaxSets
    BY <1>0
  <2> QED
    BY <2>1, TokenTodos, CallWith
<1>2. Starts(h, call, "read")
  BY <1>1 DEF RotateToken
<1>3. /\ op' = [op EXCEPT ![h] = call] /\ spc' = [spc EXCEPT ![h] = "read"]
      /\ disturbed \subseteq disturbed' /\ disturbed' \subseteq ConfigKeys
      /\ \A k \in KeysIn(call.todo), g \in Holders \ {h} : k \in KeysOf(g) => k \in disturbed'
  BY <1>0, <1>2, StartsDisturbs
<1> QED
  BY <1>0, <1>1, <1>3, TodosDiffer, NewKeeps

LEMMA KeyringFailsKeeps ==
  ASSUME SecretInv, NEW h \in Holders, KeyringFails(h) PROVE SecretInv'
<1>0. /\ SecretTypeOK /\ CallIsKnown(h) /\ op[h].todo # <<>> /\ op[h].todo \in Todos /\ op[h] \in Calls
      /\ spc[h] = "ring" /\ IsSensitive(Key(h)) /\ op[h].value # 0 /\ mishaps' = mishaps + 1
      /\ UNCHANGED <<raw, ring, allow, used, last, overtaken>>
  <2>1. SecretTypeOK /\ CallIsKnown(h) /\ spc[h] = "ring"
    BY DEF SecretInv, KeyringFails
  <2>2. op[h].todo # <<>>
    BY <2>1 DEF CallIsKnown
  <2> QED
    BY <2>1, <2>2, OpFacts DEF KeyringFails
<1>1. CASE h \in allow
  <2>1. /\ op' = [op EXCEPT ![h].stored = Plain(op[h].value)] /\ spc' = [spc EXCEPT ![h] = "write"]
        /\ UNCHANGED <<up, token, disturbed>>
    BY <1>1 DEF KeyringFails, FallsBack
  <2> QED
    BY <1>0, <1>1, <2>1, FallsBackKeeps
<1>2. CASE h \notin allow
  <2>1. disturbed' = disturbed \cup ({Private} \cap {Key(h)}) /\ Returns(h, FALSE)
    BY <1>2 DEF KeyringFails, FallsBack
  <2>2. op[h].todo # <<Public, Private>>
    BY <1>0, TodoFacts DEF IsSensitive, Key
  <2>3. KeysOf(h) = {Key(h)}
    BY <1>0, <2>2, TodoKeys, KeysOfIs DEF Key
  <2>4. disturbed \subseteq disturbed' /\ disturbed' \subseteq ConfigKeys /\ mishaps' \in Nat
    BY <1>0, <2>1, KeyFacts DEF SecretTypeOK
  <2> QED
    BY <1>0, <2>1, <2>2, <2>3, <2>4, ErrorKeeps
<1> QED
  BY <1>1, <1>2

LEMMA WriteFailsKeeps ==
  ASSUME SecretInv, NEW h \in Holders, WriteFails(h) PROVE SecretInv'
<1>1. CASE op[h].todo = <<Public, Private>>
  BY <1>1, HalfFailsKeeps
<1>2. CASE op[h].todo # <<Public, Private>>
  <2>1. /\ SecretTypeOK /\ spc[h] = "write" /\ Returns(h, FALSE) /\ disturbed' = disturbed \cup KeysOf(h)
        /\ UNCHANGED <<raw, ring, allow, used, last, overtaken>> /\ mishaps' = mishaps + 1
    BY DEF SecretInv, WriteFails
  <2>2. disturbed \subseteq disturbed' /\ disturbed' \subseteq ConfigKeys /\ mishaps' \in Nat
    BY <2>1, OpFacts DEF SecretTypeOK
  <2> QED
    BY <1>2, <2>1, <2>2, ErrorKeeps
<1> QED
  BY <1>1, <1>2

LEMMA DiesKeeps ==
  ASSUME SecretInv, NEW h \in Holders, DiesHolding(h) PROVE SecretInv'
<1>1. /\ SecretTypeOK /\ op' = [op EXCEPT ![h] = NoOp] /\ spc' = [spc EXCEPT ![h] = "down"]
      /\ disturbed' = disturbed \cup KeysOf(h) /\ up' = up \ {h} /\ token' = [token EXCEPT ![h] = 0]
      /\ overtaken' = overtaken \ {h} /\ mishaps' = mishaps + 1
      /\ UNCHANGED <<raw, ring, last, allow, used>>
  BY DEF SecretInv, DiesHolding, Ends
<1>2. /\ op'[h] = NoOp /\ spc'[h] = "down" /\ Others(h) /\ op' \in [Holders -> Calls]
      /\ spc' \in [Holders -> {"down", "idle", "read", "ring", "write"}]
  BY <1>1, CallFacts DEF SecretTypeOK, Others
<1>3. disturbed \subseteq disturbed' /\ disturbed' \subseteq ConfigKeys /\ mishaps' \in Nat
  BY <1>1, OpFacts DEF SecretTypeOK
<1>4. /\ token' \in [Holders -> 0..MaxSets] /\ token'[h] = 0
      /\ \A g \in Holders : token'[g] \in {token[g], 0}
  <2>1. 0 \in 0..MaxSets
    BY SecretAssumption
  <2> QED
    BY <1>1, <2>1 DEF SecretTypeOK
<1>5. /\ up' \subseteq up /\ up \subseteq up' \cup {h} /\ overtaken' \subseteq Holders
      /\ \A g \in Holders \ overtaken' : g \notin overtaken \/ token'[g] = 0
  BY <1>1, <1>4 DEF SecretTypeOK
<1> QED
  BY <1>1, <1>2, <1>3, <1>4, <1>5, EndsKeeps

LEMMA SecretStarts == SecretInit => SecretInv
<1> SUFFICES ASSUME SecretInit PROVE SecretInv
  OBVIOUS
<1>1. /\ spc = [h \in Holders |-> "down"] /\ op = [h \in Holders |-> NoOp] /\ up = {}
      /\ token = [h \in Holders |-> 0] /\ mishaps = 0 /\ disturbed = {} /\ overtaken = {}
      /\ ring = [n \in 1..MaxSets |-> 0]
  BY DEF SecretInit, SecretNew, SecretUsed, SecretIdle
<1>2. PICK r \in {None, Plain(1)} :
        /\ raw = [k \in ConfigKeys |-> IF k = Pass THEN r ELSE None]
        /\ last = [k \in ConfigKeys |-> IF k = Pass THEN r.n ELSE 0]
        /\ used = r.n
  <2>1. MaxSets >= 1 /\ MaxSets \in Nat
    BY SecretAssumption
  <2>2. CASE SecretNew
    BY <2>2, RawFacts DEF SecretNew
  <2>3. CASE SecretUsed
    BY <2>1, <2>3, RawFacts DEF SecretUsed
  <2> QED
    BY <2>2, <2>3 DEF SecretInit
<1>3. /\ MaxSets \in Nat /\ 1 \in 1..MaxSets /\ r \in Raw /\ r.n \in 0..MaxSets /\ r.kind # "ref"
      /\ None.kind = "none" /\ None.n = 0
  BY SecretAssumption, RawFacts
<1>4. SecretTypeOK
  <2>1. raw \in [ConfigKeys -> Raw] /\ last \in [ConfigKeys -> 0..MaxSets]
    BY <1>2, <1>3, RawFacts
  <2>2. ring \in [1..MaxSets -> 0..MaxSets] /\ token \in [Holders -> 0..MaxSets]
    BY <1>1, <1>3
  <2>3. op \in [Holders -> Calls]
    BY <1>1, CallFacts, Zenon
  <2>4. spc \in [Holders -> {"down", "idle", "read", "ring", "write"}]
    BY <1>1
  <2> QED
    BY <1>1, <1>2, <1>3, <2>1, <2>2, <2>3, <2>4 DEF SecretTypeOK
<1>5. \A h \in Holders : op[h] = NoOp /\ spc[h] = "down" /\ KeysOf(h) = {} /\ op[h].todo = <<>>
  <2>1. \A h \in Holders : op[h] = NoOp /\ spc[h] = "down"
    BY <1>1
  <2> QED
    BY <2>1, CallFacts, TodoFacts, KeysOfIs
<1>6. \A h \in Holders : CallIsKnown(h)
  BY <1>5, CallFacts, TodosDiffer DEF CallIsKnown
<1>7. \A k \in ConfigKeys : /\ raw[k] = IF k = Pass THEN r ELSE None
                            /\ last[k] = raw[k].n /\ raw[k].kind # "ref"
  BY <1>2, <1>3
<1>8. PublicIsPlain
  BY <1>5, <1>7, KeyFacts DEF PublicIsPlain
<1>9. \A k \in SensitiveKeys : \A n : Claimed(k, n) => raw[k].n = n
  BY <1>5 DEF Claimed, OwnClaim
<1>10. ClaimsAreApart
  <2>1. SensitiveKeys \subseteq ConfigKeys
    BY KeyFacts DEF SensitiveKeys
  <2>2. \A k \in SensitiveKeys : raw[k].n \in {0, used} /\ (raw[k].n # 0 => k = Pass)
    BY <1>2, <1>3, <1>7, <2>1
  <2>3. used \in 0..MaxSets
    BY <1>2, <1>3
  <2> QED
    BY <1>3, <1>9, <2>2, <2>3 DEF ClaimsAreApart
<1>11. OneWriter
  BY <1>5 DEF OneWriter
<1>12. Sound
  BY <1>5, <1>7 DEF Sound, Resolve
<1>13. Sealed
  BY <1>1, <1>3, <1>5, <1>7, KeyFacts DEF Sealed
<1>14. PairInv
  BY <1>3, <1>5, <1>7, KeyFacts, TodosDiffer DEF PairInv
<1>15. TokenInv
  BY <1>1, <1>5, CallFacts DEF TokenInv
<1> QED
  BY <1>4, <1>6, <1>8, <1>10, <1>11, <1>12, <1>13, <1>14, <1>15 DEF SecretInv

LEMMA SecretSteps == SecretInv /\ [SecretNext]_secretVars => SecretInv'
<1> SUFFICES ASSUME SecretInv, [SecretNext]_secretVars PROVE SecretInv'
  OBVIOUS
<1>1. CASE UNCHANGED secretVars
  <2>1. SecretTypeOK' /\ \A h \in Holders : CallIsKnown(h)'
    BY <1>1 DEF secretVars, SecretInv, SecretTypeOK, CallIsKnown
  <2>2. PublicIsPlain' /\ OneWriter' /\ Sealed' /\ PairInv' /\ TokenInv'
    BY <1>1 DEF secretVars, SecretInv, PublicIsPlain, OneWriter, KeysOf, Sealed, Key, PairInv, TokenInv
  <2>3. ClaimsAreApart'
    BY <1>1 DEF secretVars, SecretInv, ClaimsAreApart, Claimed, OwnClaim, KeysOf, Key
  <2>4. Sound'
    BY <1>1 DEF secretVars, SecretInv, Sound, WriteIsSound, Key, Resolve
  <2> QED
    BY <2>1, <2>2, <2>3, <2>4 DEF SecretInv
<1>2. CASE SecretNext
  BY <1>2, OpenKeeps, SetKeeps, EnsureKeeps, UnreadableKeeps, RotateKeeps, VAPIDKeeps, ReadKeeps,
     SecureKeeps, KeyringFailsKeeps, WriteKeeps, WriteFailsKeeps, DiesKeeps DEF SecretNext
<1> QED
  BY <1>1, <1>2

LEMMA SecretInvSuffices == SecretInv => SecretsHold
<1> SUFFICES ASSUME SecretInv PROVE SecretsHold
  OBVIOUS
<1>0. SecretTypeOK
  BY DEF SecretInv
<1>1. \A k \in ConfigKeys : ~Writing(k) => \A h \in Holders : op[h].todo # <<>> => Key(h) # k
  BY <1>0, OpFacts DEF Writing
<1>2. ReadsBack
  BY <1>1 DEF SecretInv, Sound, ReadsBack
<1>3. NoPlaintext
  BY KeyFacts DEF SecretInv, Sealed, NoPlaintext, SensitiveKeys
<1>4. PairMatches
  <2> SUFFICES ASSUME Public \notin disturbed, Private \notin disturbed, ~Writing(Private)
               PROVE  Resolve(Public) = Resolve(Private)
    BY DEF PairMatches
  <2>1. \A h \in Holders : op[h].todo # <<Private>> /\ op[h].todo # <<Public, Private>>
    BY TodoFacts, KeysOfIs DEF Writing
  <2>2. last[Public] = last[Private]
    BY <2>1 DEF SecretInv, PairInv
  <2>3. \A h \in Holders : op[h].todo # <<>> => Key(h) # Public /\ Key(h) # Private
    BY <1>0, <2>1, OpFacts, TodoKeys DEF Key
  <2>4. Resolve(Public) = last[Public] /\ Resolve(Private) = last[Private]
    BY <2>3, KeyFacts DEF SecretInv, Sound
  <2> QED
    BY <2>2, <2>4
<1>5. TokensAgree
  <2> SUFFICES ASSUME Token \notin disturbed, ~Writing(Token), NEW h \in Holders \ overtaken, token[h] # 0
               PROVE  token[h] = Resolve(Token)
    BY DEF TokensAgree
  <2>1. \A g \in Holders : op[g].todo # <<Token>>
    BY TodoFacts, KeysOfIs DEF Writing
  <2>2. token[h] = last[Token]
    BY <2>1 DEF SecretInv, TokenInv
  <2>3. Resolve(Token) = last[Token]
    BY <1>1, KeyFacts DEF SecretInv, Sound
  <2> QED
    BY <2>2, <2>3
<1> QED
  BY <1>2, <1>3, <1>4, <1>5 DEF SecretsHold

\* However programs that share a database set, clear, move, create and rotate secrets,
\* with keyrings that refuse, writes that fail and programs that die at any step: a key
\* that was not written twice at once, and no write of which failed, reads back what was
\* set last; without leave no secret is left in plaintext; the halves of the VAPID pair
\* belong together, and programs go by the stored token (secrets.go, dashboard_token.go).
THEOREM SecretsAlwaysHold == SecretSpec => []SecretsHold
<1>1. SecretSpec => []SecretInv
  BY SecretStarts, SecretSteps, PTL DEF SecretSpec
<1> QED
  BY <1>1, SecretInvSuffices, PTL

-----------------------------------------------------------------------------
(* Migrations (SchemaMigration)                                            *)

\* Accounts are told apart by their numbers, and the next number is free.
Numbered(set) ==
  /\ \A a \in set : a.id <= Cardinality(set)
  /\ \A a, b \in set : a.id = b.id => a = b

\* What a program has left behind it is in the schema.
Progress ==
  /\ VersionIsHonest
  /\ \A p \in Programs :
       /\ (1..seen[p]) \ {13} \subseteq schema
       /\ (1..(step[p] - 1)) \ {13} \subseteq schema
       /\ upc[p] = "record" => step[p] \in schema \cup {13}
       /\ upc[p] \in {"apply", "record"} => step[p] <= LastVersion

\* A program that has met no other has read the version it left, or found.
VersionIsIts(p) ==
  /\ step[p] - 1 <= version /\ seen[p] <= version
  /\ version = seen[p] \/ version = step[p] - 1 \/ 4 <= step[p]
  /\ upc[p] \in {"apply", "record"} => version = step[p] - 1
OneMigrates ==
  ~met => \A p \in Programs : Migrating(p) =>
    /\ VersionIsIts(p)
    /\ \A q \in Programs : Migrating(q) => q = p

\* Before v12 nothing but Antigravity snapshots names an account.
EarlyRows ==
  ~met /\ version < 12 =>
    /\ \A a, b \in accts : a.email = b.email => a = b
    /\ \A r \in rows : r.table = "antigravity" \/ r.owner = Nobody

\* Rows name accounts there are: from v21 on in all tables.
OwnersExist ==
  \A r \in rows :
    r.owner # Nobody /\ (21 \in schema \/ r.table \notin {"codex", "cursor", "copilot", "subscriptions"}) =>
      Exists(r.owner)

RowsDiffer == \A r, s \in rows : r.id = s.id => r = s

\* What v25 has copied: nothing before, and while no programs meet, all rows once, or
\* again only after one stopped in between.
CopyIsDue(r) ==
  /\ CopiesOf(r) # {}
  /\ ~torn => Cardinality(CopiesOf(r)) = 1
  /\ \A c \in CopiesOf(r) : \E a \in accts :
       /\ a.id = c.account
       /\ r.owner # Nobody => a.id = r.owner
       /\ r.owner = Nobody => a.provider = r.table /\ a.email = LocalName(r.table, r.email)
CopiesAreDue ==
  /\ 25 \notin schema => copies = {}
  /\ ~met /\ 25 \in schema =>
       /\ version >= 24
       /\ \A r \in rows : r.table \in Copied => CopyIsDue(r)
       /\ ~torn /\ version < 25 => \E p \in Programs : upc[p] = "record" /\ step[p] = 25

SchemaInv ==
  /\ SchemaTypeOK /\ Numbered(accts) /\ Progress /\ ServesWhole /\ OneMigrates /\ EarlyRows
  /\ StopsOnlyAtTwelve /\ OwnersExist /\ RowsDiffer /\ CopiesAreDue

-----------------------------------------------------------------------------
\* A one-to-one image of a finite set is as large.
LEMMA ImageIsFinite ==
  ASSUME NEW S, IsFiniteSet(S), NEW T, NEW f, f \in [S -> T], \A t \in T : \E x \in S : f[x] = t
  PROVE  /\ IsFiniteSet(T)
         /\ (\A x, y \in S : f[x] = f[y] => x = y) => Cardinality(T) = Cardinality(S)
<1>1. f \in Surjection(S, T)
  BY DEF Surjection
<1>2. (\A x, y \in S : f[x] = f[y] => x = y) => f \in Injection(S, T)
  BY DEF Injection, IsInjective
<1>3. IsFiniteSet(T) /\ (Cardinality(T) = Cardinality(S) <=> f \in Injection(S, T))
  BY <1>1, FS_Surjection
<1> QED
  BY <1>2, <1>3

AccountRecords == [id : Nat \ {Nobody}, provider : NamingTables, email : Names]

\* Accounts that are there stay, those asked for are there, and numbers stay distinct.
LEMMA WithAccountsIs ==
  ASSUME SchemaTypeOK, Numbered(accts), NEW keys, IsFiniteSet(keys),
         \A k \in keys : k[1] \in NamingTables /\ k[2] \in Names
  PROVE  /\ accts \subseteq WithAccounts(keys) /\ WithAccounts(keys) \subseteq AccountRecords
         /\ IsFiniteSet(WithAccounts(keys)) /\ Numbered(WithAccounts(keys))
         /\ \A k \in keys : \E a \in WithAccounts(keys) : a.provider = k[1] /\ a.email = k[2]
<1>0. PICK new, N, C, order :
        /\ new = {k \in keys : ~\E a \in accts : a.provider = k[1] /\ a.email = k[2]}
        /\ N = Cardinality(new) /\ C = Cardinality(accts)
        /\ order = CHOOSE f \in Bijection(1..N, new) : TRUE
  OBVIOUS
<1>1. PICK added : added = [n \in 1..N |-> Account(C + n, order[n][1], order[n][2])]
  OBVIOUS
<1> DEFINE News == {added[n] : n \in 1..N}
           all == WithAccounts(keys)
<1>a. all = accts \cup News
  BY <1>0, <1>1 DEF WithAccounts
<1>2. IsFiniteSet(new) /\ N \in Nat /\ C \in Nat /\ IsFiniteSet(accts)
  <2>1. new \in SUBSET keys /\ IsFiniteSet(accts)
    BY <1>0 DEF SchemaTypeOK
  <2> QED
    BY <1>0, <2>1, FS_Subset, FS_CardinalityType
<1>3. order \in Bijection(1..N, new)
  <2>1. ExistsBijection(1..N, new)
    BY <1>0, <1>2, FS_CardinalityType
  <2>2. \E f \in Bijection(1..N, new) : TRUE
    BY <2>1, Zenon DEF ExistsBijection
  <2> QED
    BY <1>0, <2>2
<1>4. order \in [1..N -> new] /\ \A k \in new : \E n \in 1..N : order[n] = k
  BY <1>3 DEF Bijection, Injection, Surjection
<1>5. ASSUME NEW n \in 1..N
      PROVE  /\ added[n] \in AccountRecords /\ added[n].id = C + n
             /\ added[n].provider = order[n][1] /\ added[n].email = order[n][2]
  <2>1. order[n][1] \in NamingTables /\ order[n][2] \in Names
    <3>1. order[n] \in keys
      BY <1>0, <1>4
    <3> QED
      BY <3>1
  <2>2. C + n \in Nat \ {Nobody}
    BY <1>2 DEF Nobody
  <2> QED
    BY <1>1, <2>1, <2>2 DEF Account, AccountRecords
<1>6. IsFiniteSet(News) /\ Cardinality(News) = N
  <2>1. PICK S, T : S = 1..N /\ T = {added[n] : n \in S}
    OBVIOUS
  <2>4. added \in [S -> T] /\ \A t \in T : \E n \in S : added[n] = t
    BY <1>1, <2>1
  <2>2. \A m, n \in 1..N : added[m] = added[n] => m = n
    BY <1>2, <1>5
  <2>3. IsFiniteSet(1..N) /\ Cardinality(1..N) = N
    BY <1>2, FS_Interval
  <2>5. IsFiniteSet(T) /\ Cardinality(T) = N
    <3> HIDE DEF News
    <3>0. IsFiniteSet(S)
      BY <2>1, <2>3
    <3>1. /\ IsFiniteSet(T)
          /\ (\A x, y \in S : added[x] = added[y] => x = y) => Cardinality(T) = Cardinality(S)
      BY ONLY <3>0, <2>4, ImageIsFinite
    <3> QED
      BY <2>1, <2>2, <2>3, <3>1
  <2> QED
    BY <2>1, <2>5
<1>7. \A a \in accts : a \in AccountRecords /\ a.id <= C
  BY <1>0 DEF SchemaTypeOK, Numbered, AccountRecords
<1>8. \A a \in accts, b \in News : a.id # b.id
  BY <1>2, <1>5, <1>7 DEF AccountRecords
<1>9. IsFiniteSet(all) /\ Cardinality(all) = C + N
  <2>1. accts \cap News = {}
    BY <1>8
  <2>0. PICK S, T : S = accts /\ T = News
    OBVIOUS
  <2> HIDE DEF News
  <2>2. S \cap T = {} /\ IsFiniteSet(S) /\ IsFiniteSet(T) /\ Cardinality(S) = C /\ Cardinality(T) = N
    BY <2>0, <2>1, <1>0, <1>2, <1>6
  <2>3. Cardinality(S \cap T) = 0
    BY <2>2, FS_EmptySet
  <2>4. IsFiniteSet(S \cup T) /\ Cardinality(S \cup T) = Cardinality(S) + Cardinality(T) - Cardinality(S \cap T)
    BY ONLY <2>2, FS_Union
  <2>5. S \cup T = all
    BY <1>a, <2>0
  <2> QED
    BY <1>2, <2>2, <2>3, <2>4, <2>5
<1>10. Numbered(all)
  <2>1. \A a \in all : a.id <= C + N
    BY <1>a, <1>2, <1>5, <1>7 DEF AccountRecords
  <2>2. \A a, b \in accts : a.id = b.id => a = b
    BY DEF Numbered
  <2>3. \A a, b \in News : a.id = b.id => a = b
    BY <1>2, <1>5
  <2>4. \A a, b \in all : a.id = b.id => a = b
    BY <1>a, <1>8, <2>2, <2>3
  <2> QED
    BY <1>9, <2>1, <2>4 DEF Numbered
<1>11. ASSUME NEW k \in keys PROVE \E a \in all : a.provider = k[1] /\ a.email = k[2]
  <2>1. CASE k \in new
    <3>1. PICK n \in 1..N : order[n] = k
      BY <1>4, <2>1
    <3>2. added[n] \in News /\ added[n].provider = k[1] /\ added[n].email = k[2]
      BY <1>5, <3>1
    <3> QED
      BY <1>a, <3>2
  <2>2. CASE k \notin new
    BY <1>0, <1>a, <2>2
  <2> QED
    BY <2>1, <2>2
<1>12. all \subseteq AccountRecords
  BY <1>a, <1>5, <1>7
<1> QED
  BY <1>a, <1>9, <1>10, <1>11, <1>12

LEMMA TableFacts ==
  /\ Nobody = 0 /\ Nobody \in Nat /\ LastVersion = 25 /\ Migrations = 1..25
  /\ \A t \in {"antigravity", "claude", "codex", "cursor", "copilot", "plugin"} : t \in Copied /\ t \in NamingTables
  /\ Copied \subseteq NamingTables /\ NamingTables \subseteq Names /\ NoEmail \in Names /\ Emails \subseteq Names
  /\ \A n : n \in Adds \cup {24} => n \in (1..11) \cup (13..19) \cup {22, 24}
BY DEF Nobody, LastVersion, Migrations, Copied, NamingTables, Names, Adds, AddsCore, AddsTracking,
   AddsColumns, AddsProviders, AddsChannels, AddsPlans

RowRecords == [id : Nat, table : NamingTables, owner : Nat, email : Names]

\* Migrations that move rows change their owners only.
LEMMA OwnersMove ==
  ASSUME SchemaTypeOK, RowsDiffer, NEW f \in [rows -> RowRecords],
         \A r \in rows : f[r].id = r.id /\ f[r].table = r.table,
         rows' = {f[r] : r \in rows}
  PROVE  /\ rows' \subseteq RowRecords /\ IsFiniteSet(rows') /\ RowsDiffer'
         /\ (\E r \in rows : r.table = "antigravity") => \E r \in rows' : r.table = "antigravity"
<1>1. IsFiniteSet(rows')
  <2>1. PICK S, T : S = rows /\ T = rows'
    OBVIOUS
  <2>2. IsFiniteSet(S) /\ f \in [S -> T] /\ \A t \in T : \E r \in S : f[r] = t
    BY <2>1 DEF SchemaTypeOK
  <2>3. IsFiniteSet(T)
    BY ONLY <2>2, ImageIsFinite
  <2> QED
    BY <2>1, <2>3
<1>2. RowsDiffer'
  BY DEF RowsDiffer
<1> QED
  BY <1>1, <1>2

CopyRecords == [row : Nat, run : Nat, account : Nat]

\* What the migrations of data must leave in order.
TablesAreSound ==
  /\ accts \subseteq AccountRecords /\ IsFiniteSet(accts) /\ Numbered(accts)
  /\ rows \subseteq RowRecords /\ IsFiniteSet(rows) /\ RowsDiffer /\ OwnersExist
  /\ copies \subseteq CopyRecords /\ IsFiniteSet(copies)
HasAntigravity == \E r \in rows : r.table = "antigravity"

LEMMA TablesNow == SchemaInv => TablesAreSound
BY DEF SchemaInv, TablesAreSound, SchemaTypeOK, AccountRecords, RowRecords, CopyRecords

LEMMA DropKeeps ==
  ASSUME SchemaInv, DropAccounts, schema' = schema \cup {12}, MayDropAccounts
  PROVE  /\ TablesAreSound' /\ copies' = {} /\ (HasAntigravity => HasAntigravity')
         /\ \A a, b \in accts' : a.email = b.email => a = b
         /\ \A r \in rows' : r.owner = Nobody \/ r \in rows
<1>1. TablesAreSound /\ SchemaTypeOK /\ RowsDiffer /\ OwnersExist /\ Numbered(accts)
  BY TablesNow DEF SchemaInv
<1>2. PICK g : g = [a \in accts |-> [a EXCEPT !.provider = "antigravity"]]
  OBVIOUS
<1>3. \A a \in accts : g[a] \in AccountRecords /\ g[a].id = a.id /\ g[a].email = a.email
                       /\ g[a].provider = "antigravity"
  BY <1>1, <1>2, TableFacts DEF TablesAreSound, AccountRecords
<1>4. accts' = {g[a] : a \in accts}
  BY <1>2 DEF DropAccounts
<1>5. \A a, b \in accts : g[a] = g[b] => a = b
  BY <1>1, <1>3 DEF Numbered
<1>6. IsFiniteSet(accts') /\ Cardinality(accts') = Cardinality(accts)
  <2>1. PICK S, T : S = accts /\ T = accts'
    OBVIOUS
  <2>2. IsFiniteSet(S) /\ g \in [S -> T] /\ \A t \in T : \E a \in S : g[a] = t
    BY <1>1, <1>2, <1>4, <2>1 DEF TablesAreSound
  <2>3. IsFiniteSet(T) /\ ((\A x, y \in S : g[x] = g[y] => x = y) => Cardinality(T) = Cardinality(S))
    BY ONLY <2>2, ImageIsFinite
  <2> QED
    BY <1>5, <2>1, <2>3
<1>7. Numbered(accts)'
  BY <1>1, <1>3, <1>4, <1>6 DEF Numbered
<1>8. PICK f : f = [r \in rows |-> IF 21 \in schema THEN [r EXCEPT !.owner = Nobody] ELSE r]
  OBVIOUS
<1>9. \A r \in rows : f[r] \in RowRecords /\ f[r].id = r.id /\ f[r].table = r.table
                      /\ (21 \in schema => f[r].owner = Nobody) /\ (21 \notin schema => f[r] = r)
  BY <1>1, <1>8, TableFacts DEF TablesAreSound, RowRecords
<1>10. rows' = {f[r] : r \in rows} /\ f \in [rows -> RowRecords]
  BY <1>8, <1>9 DEF DropAccounts
<1>11. rows' \subseteq RowRecords /\ IsFiniteSet(rows') /\ RowsDiffer'
       /\ (HasAntigravity => HasAntigravity')
  BY <1>1, <1>9, <1>10, OwnersMove DEF HasAntigravity
<1>12. OwnersExist'
  <2> SUFFICES ASSUME NEW r \in rows', r.owner # Nobody,
                      21 \in schema' \/ r.table \notin {"codex", "cursor", "copilot", "subscriptions"}
               PROVE  \E a \in accts' : a.id = r.owner
    BY DEF OwnersExist, Exists
  <2>1. 21 \notin schema /\ r \in rows
    BY <1>9, <1>10
  <2>2. PICK a \in accts : a.id = r.owner
    BY <1>1, <2>1 DEF OwnersExist, Exists
  <2> QED
    BY <1>3, <1>4, <2>2
<1>13. \A a, b \in accts' : a.email = b.email => a = b
  BY <1>3, <1>4 DEF MayDropAccounts
<1>14. copies' = {} /\ IsFiniteSet({})
  BY FS_EmptySet DEF DropAccounts
<1>15. \A r \in rows' : r.owner = Nobody \/ r \in rows
  BY <1>9, <1>10
<1>16. accts' \subseteq AccountRecords
  BY <1>3, <1>4
<1> QED
  BY <1>6, <1>7, <1>11, <1>12, <1>13, <1>14, <1>15, <1>16 DEF TablesAreSound

LEMMA OwnKeeps ==
  ASSUME SchemaInv, OwnByEmail, schema' = schema \cup {20}
  PROVE  TablesAreSound' /\ (HasAntigravity => HasAntigravity')
<1>1. TablesAreSound /\ SchemaTypeOK /\ RowsDiffer /\ OwnersExist
  BY TablesNow DEF SchemaInv
<1> DEFINE Has(r) == r.table = "codex" /\ r.owner = Nobody /\ r.email # NoEmail
                     /\ \E a \in accts : a.provider = "codex" /\ a.email = r.email
<1>2. PICK f : f = [r \in rows |-> IF Has(r) THEN [r EXCEPT !.owner = AccountFor(accts, "codex", r.email).id]
                                   ELSE r]
  OBVIOUS
<1>3. \A r \in rows : Has(r) => AccountFor(accts, "codex", r.email) \in accts
  BY DEF AccountFor
<1>4. \A r \in rows : f[r] \in RowRecords /\ f[r].id = r.id /\ f[r].table = r.table
                      /\ (f[r] = r \/ \E a \in accts : a.id = f[r].owner)
  <2> TAKE r \in rows
  <2>1. CASE Has(r)
    <3>1. AccountFor(accts, "codex", r.email).id \in Nat
      BY <1>1, <1>3, <2>1 DEF TablesAreSound, AccountRecords
    <3>2. f[r] = [r EXCEPT !.owner = AccountFor(accts, "codex", r.email).id]
      BY <1>2, <2>1
    <3> HIDE DEF Has
    <3>3. r \in RowRecords
      BY <1>1 DEF TablesAreSound
    <3>4. f[r] \in RowRecords /\ f[r].id = r.id /\ f[r].table = r.table
          /\ f[r].owner = AccountFor(accts, "codex", r.email).id
      BY <3>1, <3>2, <3>3 DEF RowRecords
    <3> QED
      BY <1>3, <2>1, <3>4
  <2>2. CASE ~Has(r)
    BY <1>1, <1>2, <2>2 DEF TablesAreSound
  <2> QED
    BY <2>1, <2>2
<1>5. rows' = {f[r] : r \in rows} /\ f \in [rows -> RowRecords] /\ accts' = accts /\ copies' = copies
  BY <1>2, <1>4 DEF OwnByEmail
<1>6. rows' \subseteq RowRecords /\ IsFiniteSet(rows') /\ RowsDiffer'
       /\ (HasAntigravity => HasAntigravity')
  BY <1>1, <1>4, <1>5, OwnersMove DEF HasAntigravity
<1>7. OwnersExist'
  <2> SUFFICES ASSUME NEW r \in rows', r.owner # Nobody,
                      21 \in schema' \/ r.table \notin {"codex", "cursor", "copilot", "subscriptions"}
               PROVE  \E a \in accts' : a.id = r.owner
    BY DEF OwnersExist, Exists
  <2>1. PICK s \in rows : r = f[s]
    BY <1>5
  <2>2. CASE r = s
    BY <1>1, <1>5, <2>1, <2>2 DEF OwnersExist, Exists
  <2> QED
    BY <1>4, <1>5, <2>1, <2>2
<1> QED
  BY <1>1, <1>5, <1>6, <1>7 DEF TablesAreSound

LEMMA CutKeeps ==
  ASSUME SchemaInv, CutDangling, schema' = schema \cup {21}
  PROVE  TablesAreSound' /\ (HasAntigravity => HasAntigravity')
<1>1. TablesAreSound /\ SchemaTypeOK /\ RowsDiffer /\ OwnersExist
  BY TablesNow DEF SchemaInv
<1> DEFINE Cut(r) == r.table \in {"codex", "cursor", "copilot", "subscriptions"} /\ ~Exists(r.owner)
<1>2. PICK f : f = [r \in rows |-> IF Cut(r) THEN [r EXCEPT !.owner = Nobody] ELSE r]
  OBVIOUS
<1>3. \A r \in rows : f[r] \in RowRecords /\ f[r].id = r.id /\ f[r].table = r.table
                      /\ (Cut(r) => f[r].owner = Nobody) /\ (~Cut(r) => f[r] = r)
  <2> TAKE r \in rows
  <2>1. r \in RowRecords
    BY <1>1 DEF TablesAreSound
  <2> HIDE DEF Cut
  <2> QED
    BY <1>2, <2>1, TableFacts DEF RowRecords
<1>4. rows' = {f[r] : r \in rows} /\ f \in [rows -> RowRecords] /\ accts' = accts /\ copies' = copies
  BY <1>2, <1>3 DEF CutDangling
<1>5. rows' \subseteq RowRecords /\ IsFiniteSet(rows') /\ RowsDiffer'
       /\ (HasAntigravity => HasAntigravity')
  BY <1>1, <1>3, <1>4, OwnersMove DEF HasAntigravity
<1>6. OwnersExist'
  <2> SUFFICES ASSUME NEW r \in rows', r.owner # Nobody
               PROVE  \E a \in accts' : a.id = r.owner
    BY DEF OwnersExist, Exists
  <2>1. PICK s \in rows : r = f[s]
    BY <1>4
  <2>2. ~Cut(s) /\ r = s
    BY <1>3, <2>1
  <2> QED
    BY <1>1, <1>4, <2>2 DEF OwnersExist, Exists
<1> QED
  BY <1>1, <1>4, <1>5, <1>6 DEF TablesAreSound

\* The accounts that rows ask for are as many as the rows at most, and can be stored.
LEMMA AskedFor ==
  ASSUME SchemaInv, NEW asking, asking \subseteq rows, NEW name, name \in [asking -> Names],
         NEW keys, \A r \in asking : <<r.table, name[r]>> \in keys,
         \A k \in keys : \E r \in asking : k = <<r.table, name[r]>>
  PROVE  /\ accts \subseteq WithAccounts(keys) /\ WithAccounts(keys) \subseteq AccountRecords
         /\ IsFiniteSet(WithAccounts(keys)) /\ Numbered(WithAccounts(keys))
         /\ \A r \in asking : \E a \in WithAccounts(keys) : a.provider = r.table /\ a.email = name[r]
<1>1. SchemaTypeOK /\ Numbered(accts) /\ TablesAreSound
  BY TablesNow DEF SchemaInv
<1>2. PICK f : f = [r \in asking |-> <<r.table, name[r]>>]
  OBVIOUS
<1>3. \A r \in asking : f[r][1] \in NamingTables /\ f[r][2] \in Names /\ f[r][1] = r.table /\ f[r][2] = name[r]
  BY <1>1, <1>2 DEF TablesAreSound, RowRecords
<1>4. (\A r \in asking : f[r] \in keys) /\ (\A k \in keys : \E r \in asking : f[r] = k)
  BY <1>2
<1>5. IsFiniteSet(keys)
  <2>1. IsFiniteSet(asking)
    BY <1>1, FS_Subset DEF TablesAreSound
  <2>2. f \in [asking -> keys] /\ \A k \in keys : \E r \in asking : f[r] = k
    BY <1>2, <1>4
  <2> QED
    BY ONLY <2>1, <2>2, ImageIsFinite
<1>6. \A k \in keys : k[1] \in NamingTables /\ k[2] \in Names
  BY <1>3, <1>4
<1>7. /\ accts \subseteq WithAccounts(keys) /\ WithAccounts(keys) \subseteq AccountRecords
      /\ IsFiniteSet(WithAccounts(keys)) /\ Numbered(WithAccounts(keys))
      /\ \A k \in keys : \E a \in WithAccounts(keys) : a.provider = k[1] /\ a.email = k[2]
  BY <1>1, <1>5, <1>6, WithAccountsIs
<1>8. ASSUME NEW r \in asking PROVE \E a \in WithAccounts(keys) : a.provider = r.table /\ a.email = name[r]
  <2>1. f[r] \in keys
    BY <1>4
  <2> QED
    BY <1>3, <1>7, <2>1
<1> QED
  BY <1>7, <1>8

LEMMA BackfillKeeps ==
  ASSUME SchemaInv, BackfillOwners, schema' = schema \cup {23}
  PROVE  TablesAreSound' /\ (HasAntigravity => HasAntigravity')
<1>1. TablesAreSound /\ SchemaTypeOK /\ RowsDiffer /\ OwnersExist
  BY TablesNow DEF SchemaInv
<1>2. PICK all, asking, keys :
        /\ asking = Ownerless23 /\ keys = {<<r.table, r.email>> : r \in Ownerless23}
        /\ all = WithAccounts(keys) /\ accts' = all
        /\ rows' = {IF r \in Ownerless23 THEN [r EXCEPT !.owner = AccountFor(all, r.table, r.email).id]
                    ELSE r : r \in rows}
        /\ copies' = copies
  BY DEF BackfillOwners
<1>3. asking \subseteq rows
  BY <1>2 DEF Ownerless23
<1>4. PICK name : name = [r \in asking |-> r.email]
  OBVIOUS
<1>5. name \in [asking -> Names] /\ (\A r \in asking : <<r.table, name[r]>> \in keys)
     /\ (\A k \in keys : \E r \in asking : k = <<r.table, name[r]>>)
  BY <1>1, <1>2, <1>3, <1>4 DEF TablesAreSound, RowRecords
<1>6. /\ accts \subseteq all /\ all \subseteq AccountRecords /\ IsFiniteSet(all) /\ Numbered(all)
      /\ \A r \in asking : \E a \in all : a.provider = r.table /\ a.email = name[r]
  <2>1. /\ accts \subseteq WithAccounts(keys) /\ WithAccounts(keys) \subseteq AccountRecords
        /\ IsFiniteSet(WithAccounts(keys)) /\ Numbered(WithAccounts(keys))
        /\ \A r \in asking : \E a \in WithAccounts(keys) : a.provider = r.table /\ a.email = name[r]
    BY ONLY SchemaInv, <1>3, <1>5, AskedFor
  <2> QED
    BY <1>2, <2>1
<1>7. \A r \in asking : AccountFor(all, r.table, r.email) \in all
  BY <1>4, <1>6 DEF AccountFor
<1>8. PICK f : f = [r \in rows |-> IF r \in asking THEN [r EXCEPT !.owner = AccountFor(all, r.table, r.email).id]
                                   ELSE r]
  OBVIOUS
<1>9. \A r \in rows : f[r] \in RowRecords /\ f[r].id = r.id /\ f[r].table = r.table
                      /\ (f[r] = r \/ \E a \in all : a.id = f[r].owner)
  <2> TAKE r \in rows
  <2>1. CASE r \in asking
    <3>1. AccountFor(all, r.table, r.email).id \in Nat
      BY <1>6, <1>7, <2>1 DEF AccountRecords
    <3>2. f[r] = [r EXCEPT !.owner = AccountFor(all, r.table, r.email).id]
      BY <1>8, <2>1
    <3>3. r \in RowRecords
      BY <1>1 DEF TablesAreSound
    <3>4. f[r] \in RowRecords /\ f[r].id = r.id /\ f[r].table = r.table
          /\ f[r].owner = AccountFor(all, r.table, r.email).id
      BY <3>1, <3>2, <3>3 DEF RowRecords
    <3> QED
      BY <1>7, <2>1, <3>4
  <2>2. CASE r \notin asking
    BY <1>1, <1>8, <2>2 DEF TablesAreSound
  <2> QED
    BY <2>1, <2>2
<1>10. rows' = {f[r] : r \in rows} /\ f \in [rows -> RowRecords]
  BY <1>2, <1>8, <1>9
<1>11. rows' \subseteq RowRecords /\ IsFiniteSet(rows') /\ RowsDiffer'
       /\ (HasAntigravity => HasAntigravity')
  BY <1>1, <1>9, <1>10, OwnersMove DEF HasAntigravity
<1>12. OwnersExist'
  <2> SUFFICES ASSUME NEW r \in rows', r.owner # Nobody,
                      21 \in schema' \/ r.table \notin {"codex", "cursor", "copilot", "subscriptions"}
               PROVE  \E a \in accts' : a.id = r.owner
    BY DEF OwnersExist, Exists
  <2>1. PICK s \in rows : r = f[s]
    BY <1>10
  <2>2. CASE r = s
    <3>1. 21 \in schema \/ r.table \notin {"codex", "cursor", "copilot", "subscriptions"}
      OBVIOUS
    <3>2. \E a \in accts : a.id = r.owner
      BY <1>1, <2>2, <3>1 DEF OwnersExist, Exists
    <3> QED
      BY <1>2, <1>6, <3>2
  <2> QED
    BY <1>2, <1>9, <2>1, <2>2
<1>13. Numbered(accts)'
  BY <1>2, <1>6 DEF Numbered
<1> QED
  BY <1>1, <1>2, <1>6, <1>11, <1>12, <1>13 DEF TablesAreSound

\* What v25 has added of each row: one copy, to the account the row has or asks for.
LEMMA CopyKeeps ==
  ASSUME SchemaInv, CopyToUnified, schema' = schema \cup {25}
  PROVE  /\ TablesAreSound' /\ rows' = rows /\ accts \subseteq accts'
         /\ \E made : /\ \A c : c \in copies' <=> (c \in copies \/ \E r \in rows : r.table \in Copied /\ c = made[r])
                      /\ \A r \in rows : r.table \in Copied =>
                           /\ made[r].row = r.id
                           /\ r.owner # Nobody => made[r].account = r.owner
                           /\ r.owner = Nobody => \E a \in accts' :
                                /\ a.id = made[r].account
                                /\ a.provider = r.table /\ a.email = LocalName(r.table, r.email)
<1>1. TablesAreSound /\ SchemaTypeOK /\ RowsDiffer /\ OwnersExist
  BY TablesNow DEF SchemaInv
<1>a. PICK asking, run : asking = {r \in rows : NeedsAccount(r)} /\ run = Cardinality(copies)
  OBVIOUS
<1>b. PICK keys, all :
        /\ keys = {<<r.table, LocalName(r.table, r.email)>> : r \in {x \in rows : NeedsAccount(x)}}
        /\ all = WithAccounts(keys)
  OBVIOUS
<1>2. /\ asking = {r \in rows : NeedsAccount(r)}
      /\ (\A r \in asking : <<r.table, LocalName(r.table, r.email)>> \in keys)
      /\ (\A k \in keys : \E r \in asking : k = <<r.table, LocalName(r.table, r.email)>>)
      /\ all = WithAccounts(keys) /\ accts' = all /\ run = Cardinality(copies)
      /\ rows' = rows
      /\ \A c : c \in copies' <=> (c \in copies \/ \E r \in rows : r.table \in Copied /\ c = CopyOf(r, all, run))
  BY <1>a, <1>b DEF CopyToUnified
<1>3. asking \subseteq rows
  BY <1>2
<1>4. PICK name : name = [r \in asking |-> LocalName(r.table, r.email)]
  OBVIOUS
<1>5. name \in [asking -> Names] /\ (\A r \in asking : <<r.table, name[r]>> \in keys)
     /\ (\A k \in keys : \E r \in asking : k = <<r.table, name[r]>>)
  <2>1. \A r \in asking : LocalName(r.table, r.email) \in Names
    BY <1>1, <1>3, TableFacts DEF TablesAreSound, RowRecords, LocalName
  <2> QED
    BY <1>2, <1>4, <2>1
<1>6. /\ accts \subseteq all /\ all \subseteq AccountRecords /\ IsFiniteSet(all) /\ Numbered(all)
      /\ \A r \in asking : \E a \in all : a.provider = r.table /\ a.email = name[r]
  <2>1. /\ accts \subseteq WithAccounts(keys) /\ WithAccounts(keys) \subseteq AccountRecords
        /\ IsFiniteSet(WithAccounts(keys)) /\ Numbered(WithAccounts(keys))
        /\ \A r \in asking : \E a \in WithAccounts(keys) : a.provider = r.table /\ a.email = name[r]
    BY <1>3, <1>5, AskedFor
  <2> QED
    BY <1>2, <2>1
<1>7. \A r \in asking : /\ AccountFor(all, r.table, LocalName(r.table, r.email)) \in all
                        /\ AccountFor(all, r.table, LocalName(r.table, r.email)).provider = r.table
                        /\ AccountFor(all, r.table, LocalName(r.table, r.email)).email = LocalName(r.table, r.email)
  BY <1>4, <1>6 DEF AccountFor
<1>8. PICK copied : copied = {x \in rows : x.table \in Copied}
  OBVIOUS
<1>9. PICK made : made = [r \in copied |-> CopyOf(r, all, run)]
  OBVIOUS
<1>10. ASSUME NEW r \in rows, r.table \in Copied
       PROVE  /\ made[r] \in CopyRecords /\ made[r].row = r.id
              /\ r.owner # Nobody => made[r].account = r.owner
              /\ r.owner = Nobody => \E a \in all :
                   /\ a.id = made[r].account
                   /\ a.provider = r.table /\ a.email = LocalName(r.table, r.email)
  <2>1. r \in RowRecords /\ run \in Nat
    BY <1>1, <1>2, FS_CardinalityType DEF TablesAreSound
  <2>2. made[r] = CopyOf(r, all, run)
    BY <1>8, <1>9, <1>10
  <2>3. CASE r.owner # Nobody
    BY <2>1, <2>2, <2>3 DEF CopyOf, CopyRecords, RowRecords
  <2>4. CASE r.owner = Nobody
    <3>1. r \in asking
      BY <1>2, <1>10, <2>4 DEF NeedsAccount
    <3>2. PICK a : a = AccountFor(all, r.table, LocalName(r.table, r.email))
      OBVIOUS
    <3>3. a \in all /\ a.provider = r.table /\ a.email = LocalName(r.table, r.email) /\ a.id \in Nat
      BY <1>6, <1>7, <3>1, <3>2 DEF AccountRecords
    <3>4. made[r] = [row |-> r.id, run |-> run, account |-> a.id]
      BY <2>2, <2>4, <3>2 DEF CopyOf
    <3> QED
      BY <2>1, <2>4, <3>3, <3>4 DEF CopyRecords, RowRecords
  <2> QED
    BY <2>3, <2>4
<1>11. \A c : c \in copies' <=> (c \in copies \/ \E r \in rows : r.table \in Copied /\ c = made[r])
  BY <1>2, <1>8, <1>9
<1>12. copies' \subseteq CopyRecords
  BY <1>1, <1>8, <1>10, <1>11 DEF TablesAreSound
<1>13. IsFiniteSet(copies')
  <2>1. PICK T : T = {made[r] : r \in copied}
    OBVIOUS
  <2>2. IsFiniteSet(copied)
    BY <1>1, <1>8, FS_Subset DEF TablesAreSound
  <2>3. made \in [copied -> T] /\ \A t \in T : \E r \in copied : made[r] = t
    BY <1>9, <2>1
  <2>4. IsFiniteSet(T)
    BY ONLY <2>2, <2>3, ImageIsFinite
  <2>5. copies' = copies \cup T
    BY <1>8, <1>11, <2>1
  <2>6. IsFiniteSet(copies)
    BY <1>1 DEF TablesAreSound
  <2> QED
    BY <2>4, <2>5, <2>6, FS_Union
<1>14. OwnersExist'
  <2> SUFFICES ASSUME NEW r \in rows, r.owner # Nobody,
                      21 \in schema' \/ r.table \notin {"codex", "cursor", "copilot", "subscriptions"}
               PROVE  \E a \in accts' : a.id = r.owner
    BY <1>2 DEF OwnersExist, Exists
  <2>1. 21 \in schema \/ r.table \notin {"codex", "cursor", "copilot", "subscriptions"}
    OBVIOUS
  <2>2. \E a \in accts : a.id = r.owner
    BY <1>1, <2>1 DEF OwnersExist, Exists
  <2> QED
    BY <1>2, <1>6, <2>2
<1>15. Numbered(accts)' /\ RowsDiffer'
  BY <1>1, <1>2, <1>6 DEF Numbered, RowsDiffer
<1>16. TablesAreSound'
  BY <1>1, <1>2, <1>6, <1>12, <1>13, <1>14, <1>15 DEF TablesAreSound
<1> QED
  BY <1>2, <1>6, <1>8, <1>10, <1>11, <1>16

-----------------------------------------------------------------------------
\* What steps that leave the tables alone keep of them.
LEMMA TablesStay ==
  ASSUME SchemaInv, UNCHANGED data
  PROVE  /\ VersionIsHonest' /\ Numbered(accts)' /\ OwnersExist' /\ RowsDiffer'
         /\ (25 \notin schema => copies = {})'
         /\ \A r : CopyIsDue(r)' <=>
              /\ CopiesOf(r) # {}
              /\ ~torn' => Cardinality(CopiesOf(r)) = 1
              /\ \A c \in CopiesOf(r) : \E a \in accts :
                   /\ a.id = c.account
                   /\ r.owner # Nobody => a.id = r.owner
                   /\ r.owner = Nobody => a.provider = r.table /\ a.email = LocalName(r.table, r.email)
<1>1. version' = version /\ schema' = schema /\ accts' = accts /\ rows' = rows /\ copies' = copies
  BY DEF data
<1>2. VersionIsHonest' /\ RowsDiffer'
  BY <1>1 DEF SchemaInv, Progress, VersionIsHonest, RowsDiffer
<1>3. Numbered(accts)'
  BY <1>1 DEF SchemaInv, Numbered
<1>4. OwnersExist'
  BY <1>1 DEF SchemaInv, OwnersExist, Exists
<1>5. (25 \notin schema => copies = {})'
  BY <1>1 DEF SchemaInv, CopiesAreDue
<1>6. \A r : CopiesOf(r)' = CopiesOf(r)
  BY <1>1 DEF CopiesOf
<1> QED
  BY <1>1, <1>2, <1>3, <1>4, <1>5, <1>6 DEF CopyIsDue

\* Copies stay due while the tables do and no program is torn from its record.
LEMMA CopiesStay ==
  ASSUME SchemaInv, UNCHANGED data, met \in BOOLEAN, torn => torn', met => met',
         ~met' /\ 25 \in schema /\ ~torn' /\ version < 25 =>
           \E p \in Programs : upc'[p] = "record" /\ step'[p] = 25
  PROVE  CopiesAreDue'
<1>1. version' = version /\ schema' = schema /\ rows' = rows
  BY DEF data
<1>2. (25 \notin schema => copies = {})'
  BY TablesStay
<1>3. ASSUME ~met', 25 \in schema'
      PROVE  version' >= 24 /\ \A r \in rows' : r.table \in Copied => CopyIsDue(r)'
  <2>1. ~met /\ 25 \in schema
    BY <1>1, <1>3
  <2>2. version >= 24 /\ \A r \in rows : r.table \in Copied => CopyIsDue(r)
    BY <2>1 DEF SchemaInv, CopiesAreDue
  <2>3. \A r \in rows : r.table \in Copied => CopyIsDue(r)'
    <3> TAKE r \in rows
    <3> HAVE r.table \in Copied
    <3>1. CopyIsDue(r)
      BY <2>2
    <3> QED
      BY <3>1, TablesStay DEF CopyIsDue
  <2> QED
    BY <1>1, <2>2, <2>3
<1> QED
  BY <1>1, <1>2, <1>3 DEF CopiesAreDue

LEMMA TypesNow ==
  ASSUME SchemaInv
  PROVE  /\ SchemaTypeOK /\ version \in 0..25 /\ schema \subseteq 1..25
         /\ upc \in [Programs -> {"off", "check", "apply", "record", "refused", "serving"}]
         /\ step \in [Programs -> 1..26] /\ seen \in [Programs -> 0..25]
         /\ opened \in Nat /\ torn \in BOOLEAN /\ met \in BOOLEAN
BY DEF SchemaInv, SchemaTypeOK, LastVersion, Migrations

LEMMA OpensKeep ==
  ASSUME SchemaInv, NEW p \in Programs, Open(p)
  PROVE  SchemaInv'
<1>1. /\ upc' = [upc EXCEPT ![p] = "check"] /\ step' = [step EXCEPT ![p] = 1]
      /\ seen' = [seen EXCEPT ![p] = version] /\ opened' = opened + 1
      /\ met' = (met \/ \E q \in Programs : Migrating(q))
      /\ version' = version /\ schema' = schema /\ accts' = accts /\ rows' = rows /\ copies' = copies
      /\ torn' = torn /\ UNCHANGED data
  BY DEF Open, data
<1>2. met' \in BOOLEAN /\ (met => met') /\ (~met' => ~met /\ \A q \in Programs : ~Migrating(q))
  BY <1>1, TypesNow
<1>3. SchemaTypeOK'
  <2>1. upc' \in [Programs -> {"off", "check", "apply", "record", "refused", "serving"}]
        /\ step' \in [Programs -> 1..26] /\ seen' \in [Programs -> 0..25] /\ opened' \in Nat
    BY <1>1, TypesNow
  <2> QED
    BY <1>1, <1>2, <2>1, TypesNow DEF SchemaTypeOK, LastVersion, Migrations
<1>4. VersionIsHonest' /\ Numbered(accts)' /\ OwnersExist' /\ RowsDiffer'
  BY <1>1, TablesStay
<1>5. Progress'
  <2> SUFFICES ASSUME NEW q \in Programs
               PROVE  /\ (1..seen'[q]) \ {13} \subseteq schema'
                      /\ (1..(step'[q] - 1)) \ {13} \subseteq schema'
                      /\ upc'[q] = "record" => step'[q] \in schema' \cup {13}
                      /\ upc'[q] \in {"apply", "record"} => step'[q] <= LastVersion
    BY <1>4 DEF Progress
  <2>1. CASE q = p
    BY <1>1, <2>1, TypesNow DEF SchemaInv, Progress, VersionIsHonest
  <2>2. CASE q # p
    BY <1>1, <2>2, TypesNow DEF SchemaInv, Progress
  <2> QED
    BY <2>1, <2>2
<1>6. ServesWhole'
  BY <1>1, TypesNow DEF SchemaInv, ServesWhole
<1>7. OneMigrates'
  <2> SUFFICES ASSUME ~met', NEW q \in Programs, Migrating(q)'
               PROVE  VersionIsIts(q)' /\ \A o \in Programs : Migrating(o)' => o = q
    BY DEF OneMigrates
  <2>1. \A o \in Programs : o # p => ~Migrating(o)'
    BY <1>1, <1>2, TypesNow DEF Migrating
  <2>2. q = p
    BY <2>1
  <2>3. VersionIsIts(p)'
    BY <1>1, TypesNow DEF VersionIsIts
  <2> QED
    BY <2>1, <2>2, <2>3
<1>8. EarlyRows'
  BY <1>1, <1>2 DEF SchemaInv, EarlyRows
<1>9. StopsOnlyAtTwelve'
  BY <1>1, <1>2, TypesNow DEF SchemaInv, StopsOnlyAtTwelve
<1>10. CopiesAreDue'
  <2>1. ~met' /\ 25 \in schema /\ ~torn' => version >= 25
    <3> SUFFICES ASSUME ~met', 25 \in schema, ~torn', version < 25
                 PROVE  FALSE
      BY TypesNow
    <3>1. PICK q \in Programs : upc[q] = "record"
      BY <1>1, <1>2 DEF SchemaInv, CopiesAreDue
    <3> QED
      BY <1>2, <3>1 DEF Migrating
  <2> QED
    BY <1>1, <1>2, <2>1, CopiesStay, TypesNow
<1> QED
  BY <1>3, <1>4, <1>5, <1>6, <1>7, <1>8, <1>9, <1>10 DEF SchemaInv

LEMMA CheckKeeps ==
  ASSUME SchemaInv, NEW p \in Programs, Check(p)
  PROVE  SchemaInv'
<1>1. /\ upc[p] = "check" /\ step[p] <= 25
      /\ version' = version /\ schema' = schema /\ accts' = accts /\ rows' = rows /\ copies' = copies
      /\ torn' = torn /\ met' = met /\ opened' = opened /\ UNCHANGED data
      /\ seen' = [seen EXCEPT ![p] = IF step[p] <= 3 THEN @ ELSE 0]
  BY DEF Check, data, LastVersion
<1>2. \/ Due(p) /\ upc' = [upc EXCEPT ![p] = "apply"] /\ step' = step
      \/ ~Due(p) /\ step' = [step EXCEPT ![p] = @ + 1] /\ upc' = upc
  BY DEF Check
<1>3. /\ upc' \in [Programs -> {"off", "check", "apply", "record", "refused", "serving"}]
      /\ step' \in [Programs -> 1..26]
      /\ seen' \in [Programs -> 0..25] /\ seen'[p] \in {seen[p], 0}
      /\ step[p] <= 3 => seen'[p] = seen[p]
      /\ \A q \in Programs : q # p => upc'[q] = upc[q] /\ step'[q] = step[q] /\ seen'[q] = seen[q]
      /\ upc'[p] \in {"check", "apply"}
  BY <1>1, <1>2, TypesNow
<1>4. SchemaTypeOK'
  BY <1>1, <1>3, TypesNow DEF SchemaTypeOK, LastVersion, Migrations
<1>5. VersionIsHonest' /\ Numbered(accts)' /\ OwnersExist' /\ RowsDiffer'
  BY <1>1, TablesStay
<1>6. Progress'
  <2> SUFFICES ASSUME NEW q \in Programs
               PROVE  /\ (1..seen'[q]) \ {13} \subseteq schema'
                      /\ (1..(step'[q] - 1)) \ {13} \subseteq schema'
                      /\ upc'[q] = "record" => step'[q] \in schema' \cup {13}
                      /\ upc'[q] \in {"apply", "record"} => step'[q] <= LastVersion
    BY <1>5 DEF Progress
  <2>1. CASE q # p
    BY <1>1, <1>3, <2>1, TypesNow DEF SchemaInv, Progress
  <2>2. CASE q = p /\ Due(p)
    BY <1>1, <1>2, <2>2, TypesNow DEF SchemaInv, Progress, LastVersion
  <2>3. CASE q = p /\ ~Due(p)
    <3>1. step[p] \in schema \cup {13}
      BY <1>1, <2>3, TypesNow DEF Due, SchemaInv, Progress, VersionIsHonest
    <3>2. step'[p] - 1 = step[p] /\ upc'[p] = "check"
      BY <1>1, <1>2, <2>3, TypesNow
    <3>3. (1..(step[p] - 1)) \ {13} \subseteq schema /\ (1..seen[p]) \ {13} \subseteq schema
      BY DEF SchemaInv, Progress
    <3> QED
      BY <1>1, <2>3, <3>1, <3>2, <3>3, TypesNow
  <2> QED
    BY <2>1, <2>2, <2>3
<1>7. ServesWhole'
  BY <1>1, <1>3, TypesNow DEF SchemaInv, ServesWhole
<1>8. OneMigrates'
  <2> SUFFICES ASSUME ~met, NEW q \in Programs, Migrating(q)'
               PROVE  VersionIsIts(q)' /\ \A o \in Programs : Migrating(o)' => o = q
    BY <1>1 DEF OneMigrates
  <2>1. Migrating(p) /\ \A o \in Programs : Migrating(o)' => Migrating(o)
    BY <1>1, <1>3 DEF Migrating
  <2>2. q = p /\ VersionIsIts(p) /\ \A o \in Programs : Migrating(o)' => o = p
    BY <2>1 DEF SchemaInv, OneMigrates
  <2>3. VersionIsIts(p)'
    BY <1>1, <1>2, <2>2, TypesNow DEF VersionIsIts, Due
  <2> QED
    BY <2>2, <2>3
<1>9. EarlyRows'
  BY <1>1 DEF SchemaInv, EarlyRows
<1>10. StopsOnlyAtTwelve'
  BY <1>1, <1>3, TypesNow DEF SchemaInv, StopsOnlyAtTwelve
<1>11. CopiesAreDue'
  <2>1. ASSUME ~met', 25 \in schema, ~torn', version < 25
        PROVE  \E q \in Programs : upc'[q] = "record" /\ step'[q] = 25
    <3>1. PICK q \in Programs : upc[q] = "record" /\ step[q] = 25
      BY <1>1, <2>1 DEF SchemaInv, CopiesAreDue
    <3> QED
      BY <1>1, <1>3, <3>1
  <2> QED
    BY <1>1, <2>1, CopiesStay, TypesNow
<1> QED
  BY <1>4, <1>5, <1>6, <1>7, <1>8, <1>9, <1>10, <1>11 DEF SchemaInv

\* What every migration keeps, whichever it is.
LEMMA ApplyKeeps ==
  ASSUME SchemaInv, NEW n \in 1..25, Apply(n), n = 12 => MayDropAccounts
  PROVE  /\ TablesAreSound' /\ (HasAntigravity => HasAntigravity')
         /\ schema' \subseteq 1..25 /\ schema \ {13} \subseteq schema' /\ n \in schema' \cup {13}
         /\ n # 25 => /\ 25 \in schema' <=> 25 \in schema
                      /\ copies' = copies \/ copies' = {}
         /\ n <= 12 /\ n # 12 => accts' = accts /\ rows' = rows
<1>1. schema' = IF n = 24 THEN (schema \cup {24}) \ {13} ELSE schema \cup {n}
  BY DEF Apply
<1>2. /\ schema' \subseteq 1..25 /\ schema \ {13} \subseteq schema' /\ n \in schema' \cup {13}
      /\ n # 25 => (25 \in schema' <=> 25 \in schema)
      /\ n # 21 => (21 \in schema' <=> 21 \in schema)
  BY <1>1, TypesNow
<1>3. CASE n \in Adds \cup {24} /\ UNCHANGED <<accts, rows, copies>>
  <2>1. n # 21 /\ n # 25
    BY <1>3, TableFacts
  <2>2. accts' = accts /\ rows' = rows /\ copies' = copies
    BY <1>3
  <2>3. TablesAreSound /\ OwnersExist
    BY TablesNow DEF TablesAreSound
  <2>4. OwnersExist'
    BY <1>2, <2>1, <2>2, <2>3 DEF OwnersExist, Exists
  <2>5. Numbered(accts)' /\ RowsDiffer'
    BY <2>2, <2>3 DEF TablesAreSound, Numbered, RowsDiffer
  <2>6. TablesAreSound'
    BY <2>2, <2>3, <2>4, <2>5 DEF TablesAreSound
  <2>7. HasAntigravity => HasAntigravity'
    BY <2>2 DEF HasAntigravity
  <2> QED
    BY <1>2, <2>2, <2>6, <2>7
<1>4. CASE n = 12 /\ DropAccounts
  <2>1. schema' = schema \cup {12} /\ MayDropAccounts
    BY <1>1, <1>4
  <2> QED
    BY <1>2, <1>4, <2>1, DropKeeps
<1>5. CASE n = 20 /\ OwnByEmail
  <2>1. schema' = schema \cup {20}
    BY <1>1, <1>5
  <2> QED
    BY <1>2, <1>5, <2>1, OwnKeeps DEF OwnByEmail
<1>6. CASE n = 21 /\ CutDangling
  <2>1. schema' = schema \cup {21}
    BY <1>1, <1>6
  <2> QED
    BY <1>2, <1>6, <2>1, CutKeeps DEF CutDangling
<1>7. CASE n = 23 /\ BackfillOwners
  <2>1. schema' = schema \cup {23}
    BY <1>1, <1>7
  <2>2. copies' = copies
    BY <1>7 DEF BackfillOwners
  <2> QED
    BY <1>2, <1>7, <2>1, <2>2, BackfillKeeps
<1>8. CASE n = 25 /\ CopyToUnified
  <2>1. schema' = schema \cup {25}
    BY <1>1, <1>8
  <2>2. TablesAreSound' /\ rows' = rows
    BY <1>8, <2>1, CopyKeeps
  <2>3. HasAntigravity => HasAntigravity'
    BY <2>2 DEF HasAntigravity
  <2> QED
    BY <1>2, <1>8, <2>2, <2>3
<1> QED
  BY <1>3, <1>4, <1>5, <1>6, <1>7, <1>8 DEF Apply

\* v25 done by a program that has met no other copies each row once more, and for
\* the first time if none was torn from its record.
LEMMA CopiesBecomeDue ==
  ASSUME SchemaInv, NEW p \in Programs, upc[p] = "apply", step[p] = 25, CopyToUnified,
         schema' = schema \cup {25}, torn' = torn, version' = version, ~met
  PROVE  version >= 24 /\ \A r \in rows' : r.table \in Copied => CopyIsDue(r)'
<1>1. version = 24 /\ \A q \in Programs : Migrating(q) => q = p
  <2>1. Migrating(p)
    BY DEF Migrating
  <2>2. VersionIsIts(p) /\ \A q \in Programs : Migrating(q) => q = p
    BY <2>1 DEF SchemaInv, OneMigrates
  <2> QED
    BY <2>2, TypesNow DEF VersionIsIts
<1>2. 21 \in schema
  BY <1>1 DEF SchemaInv, Progress, VersionIsHonest
<1>3. ~torn => copies = {}
  <2> SUFFICES ASSUME ~torn PROVE 25 \notin schema
    BY DEF SchemaInv, CopiesAreDue
  <2> SUFFICES ASSUME 25 \in schema PROVE FALSE
    OBVIOUS
  <2>1. PICK q \in Programs : upc[q] = "record"
    BY <1>1 DEF SchemaInv, CopiesAreDue
  <2> QED
    BY <1>1, <2>1 DEF Migrating
<1>4. /\ rows' = rows /\ accts \subseteq accts'
      /\ \E made : /\ \A c : c \in copies' <=> (c \in copies \/ \E r \in rows : r.table \in Copied /\ c = made[r])
                   /\ \A r \in rows : r.table \in Copied =>
                        /\ made[r].row = r.id
                        /\ r.owner # Nobody => made[r].account = r.owner
                        /\ r.owner = Nobody => \E a \in accts' :
                             /\ a.id = made[r].account
                             /\ a.provider = r.table /\ a.email = LocalName(r.table, r.email)
  BY CopyKeeps
<1>5. PICK made : /\ \A c : c \in copies' <=> (c \in copies \/ \E r \in rows : r.table \in Copied /\ c = made[r])
                  /\ \A r \in rows : r.table \in Copied =>
                        /\ made[r].row = r.id
                        /\ r.owner # Nobody => made[r].account = r.owner
                        /\ r.owner = Nobody => \E a \in accts' :
                             /\ a.id = made[r].account
                             /\ a.provider = r.table /\ a.email = LocalName(r.table, r.email)
  BY <1>4
<1>6. ASSUME NEW r \in rows, r.table \in Copied PROVE CopyIsDue(r)'
  <2>1. PICK own : own = {c \in copies' : c.row = r.id}
    OBVIOUS
  <2>2. own = CopiesOf(r)'
    BY <2>1 DEF CopiesOf
  <2>3. made[r] \in own
    BY <1>5, <1>6, <2>1
  <2>4. \A c \in own : c = made[r] \/ c \in CopiesOf(r)
    BY <1>5, <1>6, <2>1 DEF SchemaInv, RowsDiffer, CopiesOf
  <2>5. ~torn => Cardinality(own) = 1
    <3> SUFFICES ASSUME ~torn PROVE Cardinality(own) = 1
      OBVIOUS
    <3>1. own = {made[r]}
      BY <1>3, <2>3, <2>4 DEF CopiesOf
    <3> QED
      BY <3>1, FS_Singleton
  <2>6. ASSUME NEW c \in own
        PROVE  \E a \in accts' :
                 /\ a.id = c.account
                 /\ r.owner # Nobody => a.id = r.owner
                 /\ r.owner = Nobody => a.provider = r.table /\ a.email = LocalName(r.table, r.email)
    <3>1. CASE c = made[r]
      <4>1. CASE r.owner = Nobody
        BY <1>5, <1>6, <3>1, <4>1
      <4>2. CASE r.owner # Nobody
        <5>1. PICK a \in accts : a.id = r.owner
          BY <1>2, <4>2 DEF SchemaInv, OwnersExist, Exists
        <5>2. c.account = r.owner /\ a \in accts'
          BY <1>4, <1>5, <1>6, <3>1, <4>2
        <5> QED
          BY <4>2, <5>1, <5>2
      <4> QED
        BY <4>1, <4>2
    <3>2. CASE c \in CopiesOf(r)
      <4>1. 25 \in schema
        BY <3>2 DEF CopiesOf, SchemaInv, CopiesAreDue
      <4>2. CopyIsDue(r)
        BY <1>6, <4>1 DEF SchemaInv, CopiesAreDue
      <4>3. PICK a \in accts :
              /\ a.id = c.account
              /\ r.owner # Nobody => a.id = r.owner
              /\ r.owner = Nobody => a.provider = r.table /\ a.email = LocalName(r.table, r.email)
        BY <3>2, <4>2 DEF CopyIsDue
      <4>4. a \in accts'
        BY <1>4
      <4> QED
        BY <4>3, <4>4
    <3> QED
      BY <2>4, <3>1, <3>2
  <2> QED
    BY <2>2, <2>3, <2>5, <2>6 DEF CopyIsDue
<1> QED
  BY <1>1, <1>4, <1>6

LEMMA MigrateKeeps ==
  ASSUME SchemaInv, NEW p \in Programs, Migrate(p)
  PROVE  SchemaInv'
<1>1. PICK n : n = step[p]
  OBVIOUS
<1>2. /\ upc[p] = "apply" /\ Apply(n) /\ (n = 12 => MayDropAccounts)
      /\ upc' = [upc EXCEPT ![p] = "record"]
      /\ version' = version /\ step' = step /\ seen' = seen /\ opened' = opened /\ torn' = torn /\ met' = met
  BY <1>1 DEF Migrate
<1>3. n \in 1..25
  BY <1>1, <1>2, TypesNow DEF SchemaInv, Progress, LastVersion
<1>4. /\ TablesAreSound' /\ (HasAntigravity => HasAntigravity')
      /\ schema' \subseteq 1..25 /\ schema \ {13} \subseteq schema' /\ n \in schema' \cup {13}
      /\ n # 25 => /\ 25 \in schema' <=> 25 \in schema
                   /\ copies' = copies \/ copies' = {}
      /\ n <= 12 /\ n # 12 => accts' = accts /\ rows' = rows
  BY <1>2, <1>3, ApplyKeeps
<1>5. /\ upc' \in [Programs -> {"off", "check", "apply", "record", "refused", "serving"}]
      /\ upc'[p] = "record" /\ \A q \in Programs : q # p => upc'[q] = upc[q]
  BY <1>2, TypesNow
<1>6. SchemaTypeOK'
  BY <1>2, <1>4, <1>5, TypesNow
     DEF SchemaTypeOK, TablesAreSound, AccountRecords, RowRecords, CopyRecords, LastVersion, Migrations
<1>7. Progress'
  <2>1. VersionIsHonest'
    BY <1>2, <1>4 DEF SchemaInv, Progress, VersionIsHonest
  <2> SUFFICES ASSUME NEW q \in Programs
               PROVE  /\ (1..seen'[q]) \ {13} \subseteq schema'
                      /\ (1..(step'[q] - 1)) \ {13} \subseteq schema'
                      /\ upc'[q] = "record" => step'[q] \in schema' \cup {13}
                      /\ upc'[q] \in {"apply", "record"} => step'[q] <= LastVersion
    BY <2>1 DEF Progress
  <2>2. /\ (1..seen[q]) \ {13} \subseteq schema /\ (1..(step[q] - 1)) \ {13} \subseteq schema
        /\ upc[q] = "record" => step[q] \in schema \cup {13}
        /\ upc[q] \in {"apply", "record"} => step[q] <= LastVersion
    BY DEF SchemaInv, Progress
  <2>3. CASE q = p
    BY <1>1, <1>2, <1>3, <1>4, <2>2, <2>3 DEF LastVersion
  <2>4. CASE q # p
    BY <1>2, <1>4, <1>5, <2>2, <2>4
  <2> QED
    BY <2>3, <2>4
<1>8. ServesWhole'
  BY <1>4, <1>5 DEF SchemaInv, ServesWhole, Whole
<1>9. Migrating(p)
  BY <1>2 DEF Migrating
<1>10. ~met => VersionIsIts(p) /\ version = n - 1 /\ \A q \in Programs : Migrating(q) => q = p
  BY <1>1, <1>2, <1>9 DEF SchemaInv, OneMigrates, VersionIsIts
<1>11. OneMigrates'
  <2> SUFFICES ASSUME ~met, NEW q \in Programs, Migrating(q)'
               PROVE  VersionIsIts(q)' /\ \A o \in Programs : Migrating(o)' => o = q
    BY <1>2 DEF OneMigrates
  <2>1. \A o \in Programs : Migrating(o)' => Migrating(o)
    BY <1>5, <1>9 DEF Migrating
  <2>2. q = p /\ \A o \in Programs : Migrating(o)' => o = p
    BY <1>10, <2>1
  <2>3. VersionIsIts(p)'
    BY <1>1, <1>2, <1>10 DEF VersionIsIts
  <2> QED
    BY <2>2, <2>3
<1>12. EarlyRows'
  <2> SUFFICES ASSUME ~met, version < 12
               PROVE  /\ \A a, b \in accts' : a.email = b.email => a = b
                      /\ \A r \in rows' : r.table = "antigravity" \/ r.owner = Nobody
    BY <1>2 DEF EarlyRows
  <2>1. n <= 12
    BY <1>3, <1>10, TypesNow
  <2>2. /\ \A a, b \in accts : a.email = b.email => a = b
        /\ \A r \in rows : r.table = "antigravity" \/ r.owner = Nobody
    BY DEF SchemaInv, EarlyRows
  <2>3. CASE n # 12
    BY <1>4, <2>1, <2>2, <2>3
  <2>4. CASE n = 12
    <3>1. DropAccounts /\ schema' = schema \cup {12} /\ MayDropAccounts
      BY <1>2, <2>4, TableFacts DEF Apply
    <3>2. /\ \A a, b \in accts' : a.email = b.email => a = b
          /\ \A r \in rows' : r.owner = Nobody \/ r \in rows
      BY ONLY SchemaInv, <3>1, DropKeeps
    <3> QED
      BY <2>2, <3>2
  <2> QED
    BY <2>3, <2>4
<1>13. StopsOnlyAtTwelve'
  <2> SUFFICES ASSUME NEW q \in Programs, upc'[q] = "refused"
               PROVE  met' \/ HasAntigravity'
    BY DEF StopsOnlyAtTwelve, HasAntigravity
  <2>1. upc[q] = "refused"
    BY <1>5
  <2>2. met \/ HasAntigravity
    BY <2>1 DEF SchemaInv, StopsOnlyAtTwelve, HasAntigravity
  <2> QED
    BY <1>2, <1>4, <2>2
<1>14. CopiesAreDue'
  <2>1. CASE n # 25
    <3>1. 25 \notin schema' => copies' = {}
      BY <1>4, <2>1 DEF SchemaInv, CopiesAreDue
    <3>2. met' \/ 25 \notin schema'
      BY <1>2, <1>3, <1>4, <1>10, <2>1 DEF SchemaInv, CopiesAreDue
    <3> QED
      BY <3>1, <3>2 DEF CopiesAreDue
  <2>2. CASE n = 25
    <3>1. CopyToUnified /\ schema' = schema \cup {25}
      BY <1>2, <2>2, TableFacts DEF Apply
    <3>2. ~met => version >= 24 /\ \A r \in rows' : r.table \in Copied => CopyIsDue(r)'
      BY <1>1, <1>2, <2>2, <3>1, CopiesBecomeDue
    <3>3. upc'[p] = "record" /\ step'[p] = 25 /\ 25 \in schema'
      BY <1>1, <1>2, <1>5, <2>2, <3>1
    <3> QED
      BY <1>2, <3>2, <3>3 DEF CopiesAreDue
  <2> QED
    BY <2>1, <2>2
<1> QED
  BY <1>4, <1>6, <1>7, <1>8, <1>11, <1>12, <1>13, <1>14 DEF SchemaInv, TablesAreSound

LEMMA RefuseKeeps ==
  ASSUME SchemaInv, NEW p \in Programs, RefuseDrop(p)
  PROVE  SchemaInv'
<1>1. /\ upc[p] = "apply" /\ step[p] = 12 /\ ~MayDropAccounts
      /\ upc' = [upc EXCEPT ![p] = "refused"] /\ step' = step
      /\ version' = version /\ schema' = schema /\ accts' = accts /\ rows' = rows /\ copies' = copies
      /\ torn' = torn /\ met' = met /\ seen' = seen /\ opened' = opened /\ UNCHANGED data
  BY DEF RefuseDrop, data
<1>2. /\ upc' \in [Programs -> {"off", "check", "apply", "record", "refused", "serving"}]
      /\ \A q \in Programs : q # p => upc'[q] = upc[q]
      /\ upc'[p] = "refused"
  BY <1>1, TypesNow
<1>3. SchemaTypeOK'
  BY <1>1, <1>2, TypesNow DEF SchemaTypeOK, LastVersion, Migrations
<1>4. VersionIsHonest' /\ Numbered(accts)' /\ OwnersExist' /\ RowsDiffer'
  BY <1>1, TablesStay
<1>5. Progress'
  BY <1>1, <1>2, <1>4 DEF SchemaInv, Progress
<1>6. ServesWhole'
  BY <1>1, <1>2 DEF SchemaInv, ServesWhole
<1>7. \A o \in Programs : Migrating(o)' => Migrating(o)
  BY <1>2 DEF Migrating
<1>8. OneMigrates'
  BY <1>1, <1>2, <1>7 DEF SchemaInv, OneMigrates, VersionIsIts, Migrating
<1>9. EarlyRows'
  BY <1>1 DEF SchemaInv, EarlyRows
<1>10. ~met => HasAntigravity
  <2> SUFFICES ASSUME ~met PROVE HasAntigravity
    OBVIOUS
  <2>1. version < 12
    <3>1. Migrating(p)
      BY <1>1 DEF Migrating
    <3> QED
      BY <1>1, <3>1, TypesNow DEF SchemaInv, OneMigrates, VersionIsIts
  <2>2. PICK r \in rows : HoldsAccount(r)
    BY <1>1, <2>1 DEF MayDropAccounts, SchemaInv, EarlyRows
  <2> QED
    BY <2>1, <2>2 DEF HasAntigravity, HoldsAccount, SchemaInv, EarlyRows
<1>11. StopsOnlyAtTwelve'
  BY <1>1, <1>2, <1>10 DEF SchemaInv, StopsOnlyAtTwelve, HasAntigravity
<1>12. CopiesAreDue'
  <2>1. ASSUME ~met', 25 \in schema, ~torn', version < 25
        PROVE  \E q \in Programs : upc'[q] = "record" /\ step'[q] = 25
    <3>1. PICK q \in Programs : upc[q] = "record" /\ step[q] = 25
      BY <1>1, <2>1 DEF SchemaInv, CopiesAreDue
    <3> QED
      BY <1>1, <1>2, <3>1
  <2> QED
    BY <1>1, <2>1, CopiesStay, TypesNow
<1> QED
  BY <1>3, <1>4, <1>5, <1>6, <1>8, <1>9, <1>11, <1>12 DEF SchemaInv

LEMMA RecordKeeps ==
  ASSUME SchemaInv, NEW p \in Programs, Record(p)
  PROVE  SchemaInv'
<1>1. /\ upc[p] = "record" /\ version' = step[p]
      /\ upc' = [upc EXCEPT ![p] = "check"] /\ step' = [step EXCEPT ![p] = @ + 1]
      /\ schema' = schema /\ accts' = accts /\ rows' = rows /\ copies' = copies
      /\ torn' = torn /\ met' = met /\ seen' = seen /\ opened' = opened
  BY DEF Record
<1>2. /\ step[p] \in 1..25 /\ step[p] \in schema \cup {13}
      /\ (1..(step[p] - 1)) \ {13} \subseteq schema
  BY <1>1, TypesNow DEF SchemaInv, Progress, LastVersion
<1>3. /\ upc' \in [Programs -> {"off", "check", "apply", "record", "refused", "serving"}]
      /\ step' \in [Programs -> 1..26]
      /\ upc'[p] = "check" /\ step'[p] = step[p] + 1 /\ version' \in 0..25
      /\ \A q \in Programs : q # p => upc'[q] = upc[q] /\ step'[q] = step[q]
  BY <1>1, <1>2, TypesNow
<1>4. SchemaTypeOK'
  BY <1>1, <1>3, TypesNow DEF SchemaTypeOK, LastVersion, Migrations
<1>5. VersionIsHonest'
  BY <1>1, <1>2 DEF VersionIsHonest
<1>6. Numbered(accts)' /\ OwnersExist' /\ RowsDiffer'
  BY <1>1 DEF SchemaInv, Numbered, OwnersExist, Exists, RowsDiffer
<1>7. Progress'
  <2> SUFFICES ASSUME NEW q \in Programs
               PROVE  /\ (1..seen'[q]) \ {13} \subseteq schema'
                      /\ (1..(step'[q] - 1)) \ {13} \subseteq schema'
                      /\ upc'[q] = "record" => step'[q] \in schema' \cup {13}
                      /\ upc'[q] \in {"apply", "record"} => step'[q] <= LastVersion
    BY <1>5 DEF Progress
  <2>1. (1..seen[q]) \ {13} \subseteq schema
    BY DEF SchemaInv, Progress
  <2>2. CASE q = p
    <3>1. step'[p] - 1 = step[p]
      BY <1>2, <1>3
    <3>2. (1..step[p]) \ {13} \subseteq schema
      BY <1>2
    <3> QED
      BY <1>1, <1>3, <2>1, <2>2, <3>1, <3>2
  <2>3. CASE q # p
    BY <1>1, <1>3, <2>3 DEF SchemaInv, Progress
  <2> QED
    BY <2>2, <2>3
<1>8. ServesWhole'
  BY <1>1, <1>3 DEF SchemaInv, ServesWhole
<1>9. Migrating(p)
  BY <1>1 DEF Migrating
<1>10. ~met => VersionIsIts(p) /\ version = step[p] - 1 /\ \A q \in Programs : Migrating(q) => q = p
  BY <1>1, <1>9 DEF SchemaInv, OneMigrates, VersionIsIts
<1>11. OneMigrates'
  <2> SUFFICES ASSUME ~met, NEW q \in Programs, Migrating(q)'
               PROVE  VersionIsIts(q)' /\ \A o \in Programs : Migrating(o)' => o = q
    BY <1>1 DEF OneMigrates
  <2>1. \A o \in Programs : Migrating(o)' => Migrating(o)
    BY <1>3, <1>9 DEF Migrating
  <2>2. q = p /\ \A o \in Programs : Migrating(o)' => o = p
    BY <1>10, <2>1
  <2>3. VersionIsIts(p)'
    BY <1>1, <1>2, <1>3, <1>10, TypesNow DEF VersionIsIts
  <2> QED
    BY <2>2, <2>3
<1>12. EarlyRows'
  BY <1>1, <1>2, <1>10, TypesNow DEF SchemaInv, EarlyRows
<1>13. StopsOnlyAtTwelve'
  BY <1>1, <1>3 DEF SchemaInv, StopsOnlyAtTwelve
<1>14. CopiesAreDue'
  <2>1. 25 \notin schema' => copies' = {}
    BY <1>1 DEF SchemaInv, CopiesAreDue
  <2>2. ASSUME ~met', 25 \in schema'
        PROVE  version' >= 25 /\ \A r \in rows' : r.table \in Copied => CopyIsDue(r)'
    <3>1. version >= 24 /\ \A r \in rows : r.table \in Copied => CopyIsDue(r)
      BY <1>1, <2>2 DEF SchemaInv, CopiesAreDue
    <3>2. version' >= 25
      BY <1>1, <1>2, <1>10, <2>2, <3>1, TypesNow
    <3>3. \A r \in rows : r.table \in Copied => CopyIsDue(r)'
      BY <1>1, <3>1 DEF CopyIsDue, CopiesOf
    <3> QED
      BY <1>1, <3>2, <3>3
  <2>3. version' \in Nat
    BY <1>3
  <2> QED
    BY <2>1, <2>2, <2>3 DEF CopiesAreDue
<1> QED
  BY <1>4, <1>6, <1>7, <1>8, <1>11, <1>12, <1>13, <1>14 DEF SchemaInv

LEMMA ServedKeeps ==
  ASSUME SchemaInv, NEW p \in Programs, Served(p)
  PROVE  SchemaInv'
<1>1. /\ upc[p] = "check" /\ step[p] > 25
      /\ upc' = [upc EXCEPT ![p] = "serving"] /\ step' = step
      /\ version' = version /\ schema' = schema /\ accts' = accts /\ rows' = rows /\ copies' = copies
      /\ torn' = torn /\ met' = met /\ seen' = seen /\ opened' = opened /\ UNCHANGED data
  BY DEF Served, data, LastVersion
<1>2. /\ upc' \in [Programs -> {"off", "check", "apply", "record", "refused", "serving"}]
      /\ \A q \in Programs : q # p => upc'[q] = upc[q]
      /\ upc'[p] = "serving"
  BY <1>1, TypesNow
<1>3. SchemaTypeOK'
  BY <1>1, <1>2, TypesNow DEF SchemaTypeOK, LastVersion, Migrations
<1>4. VersionIsHonest' /\ Numbered(accts)' /\ OwnersExist' /\ RowsDiffer'
  BY <1>1, TablesStay
<1>5. Progress'
  BY <1>1, <1>2, <1>4 DEF SchemaInv, Progress
<1>6. ServesWhole'
  <2>1. Whole \subseteq schema
    <3>1. step[p] - 1 = 25
      BY <1>1, TypesNow
    <3> QED
      BY <3>1, TableFacts DEF SchemaInv, Progress, Whole
  <2> QED
    BY <1>1, <1>2, <2>1 DEF SchemaInv, ServesWhole
<1>7. \A o \in Programs : Migrating(o)' => Migrating(o)
  BY <1>2 DEF Migrating
<1>8. OneMigrates'
  BY <1>1, <1>2, <1>7 DEF SchemaInv, OneMigrates, VersionIsIts, Migrating
<1>9. EarlyRows'
  BY <1>1 DEF SchemaInv, EarlyRows
<1>10. StopsOnlyAtTwelve'
  BY <1>1, <1>2 DEF SchemaInv, StopsOnlyAtTwelve
<1>11. CopiesAreDue'
  <2>1. ASSUME ~met', 25 \in schema, ~torn', version < 25
        PROVE  \E q \in Programs : upc'[q] = "record" /\ step'[q] = 25
    <3>1. PICK q \in Programs : upc[q] = "record" /\ step[q] = 25
      BY <1>1, <2>1 DEF SchemaInv, CopiesAreDue
    <3> QED
      BY <1>1, <1>2, <3>1
  <2> QED
    BY <1>1, <2>1, CopiesStay, TypesNow
<1> QED
  BY <1>3, <1>4, <1>5, <1>6, <1>8, <1>9, <1>10, <1>11 DEF SchemaInv

\* A program that is gone has no part in the upgrade.
LEMMA GoneKeeps ==
  ASSUME SchemaInv, NEW p \in Programs, Close(p) \/ Stop(p)
  PROVE  SchemaInv'
<1>1. /\ upc' = [upc EXCEPT ![p] = "off"] /\ step' = [step EXCEPT ![p] = 1]
      /\ seen' = [seen EXCEPT ![p] = 0]
      /\ version' = version /\ schema' = schema /\ accts' = accts /\ rows' = rows /\ copies' = copies
      /\ met' = met /\ opened' = opened /\ UNCHANGED data
  BY DEF Close, Stop, Gone, data
<1>2. torn' \in BOOLEAN /\ (torn => torn') /\ (upc[p] = "record" /\ step[p] = 25 => torn')
  <2>1. CASE Close(p)
    BY <2>1, TypesNow DEF Close
  <2>2. CASE Stop(p)
    <3>1. torn' = (torn \/ (upc[p] = "record" /\ step[p] = 25))
      BY <2>2 DEF Stop
    <3> QED
      BY <3>1
  <2> QED
    BY <2>1, <2>2
<1>3. /\ upc' \in [Programs -> {"off", "check", "apply", "record", "refused", "serving"}]
      /\ step' \in [Programs -> 1..26] /\ seen' \in [Programs -> 0..25]
      /\ upc'[p] = "off" /\ step'[p] = 1 /\ seen'[p] = 0
      /\ \A q \in Programs : q # p => upc'[q] = upc[q] /\ step'[q] = step[q] /\ seen'[q] = seen[q]
  BY <1>1, TypesNow
<1>4. SchemaTypeOK'
  BY <1>1, <1>2, <1>3, TypesNow DEF SchemaTypeOK, LastVersion, Migrations
<1>5. VersionIsHonest' /\ Numbered(accts)' /\ OwnersExist' /\ RowsDiffer'
  BY <1>1, TablesStay
<1>6. Progress'
  <2> SUFFICES ASSUME NEW q \in Programs
               PROVE  /\ (1..seen'[q]) \ {13} \subseteq schema'
                      /\ (1..(step'[q] - 1)) \ {13} \subseteq schema'
                      /\ upc'[q] = "record" => step'[q] \in schema' \cup {13}
                      /\ upc'[q] \in {"apply", "record"} => step'[q] <= LastVersion
    BY <1>5 DEF Progress
  <2>1. CASE q = p
    BY <1>3, <2>1
  <2>2. CASE q # p
    BY <1>1, <1>3, <2>2 DEF SchemaInv, Progress
  <2> QED
    BY <2>1, <2>2
<1>7. ServesWhole'
  BY <1>1, <1>3 DEF SchemaInv, ServesWhole
<1>8. \A o \in Programs : Migrating(o)' => Migrating(o) /\ o # p
  BY <1>3 DEF Migrating
<1>9. OneMigrates'
  <2> SUFFICES ASSUME ~met, NEW q \in Programs, Migrating(q)'
               PROVE  VersionIsIts(q)' /\ \A o \in Programs : Migrating(o)' => o = q
    BY <1>1 DEF OneMigrates
  <2>1. VersionIsIts(q) /\ q # p /\ \A o \in Programs : Migrating(o)' => o = q
    BY <1>8 DEF SchemaInv, OneMigrates
  <2>2. VersionIsIts(q)'
    BY <1>1, <1>3, <2>1 DEF VersionIsIts
  <2> QED
    BY <2>1, <2>2
<1>10. EarlyRows'
  BY <1>1 DEF SchemaInv, EarlyRows
<1>11. StopsOnlyAtTwelve'
  BY <1>1, <1>3 DEF SchemaInv, StopsOnlyAtTwelve
<1>12. CopiesAreDue'
  <2>1. ASSUME ~met', 25 \in schema, ~torn', version < 25
        PROVE  \E q \in Programs : upc'[q] = "record" /\ step'[q] = 25
    <3>1. PICK q \in Programs : upc[q] = "record" /\ step[q] = 25
      BY <1>1, <1>2, <2>1 DEF SchemaInv, CopiesAreDue
    <3>2. q # p
      BY <1>2, <2>1, <3>1
    <3> QED
      BY <1>1, <1>3, <3>1, <3>2
  <2> QED
    BY <1>1, <1>2, <2>1, CopiesStay, TypesNow
<1> QED
  BY <1>4, <1>5, <1>6, <1>7, <1>9, <1>10, <1>11, <1>12 DEF SchemaInv

LEMMA PairIsFinite ==
  ASSUME NEW a, NEW b
  PROVE  IsFiniteSet({a}) /\ IsFiniteSet({a, b}) /\ (a # b => Cardinality({a, b}) = 2)
<1>1. IsFiniteSet({a}) /\ Cardinality({a}) = 1
  BY FS_Singleton
<1>2. {a, b} = {a} \cup {b}
  OBVIOUS
<1> QED
  BY <1>1, <1>2, FS_AddElement

LEMMA ThreeAreFinite ==
  ASSUME NEW a, NEW b, NEW c
  PROVE  IsFiniteSet({a, b, c})
<1>1. IsFiniteSet({a, b})
  BY PairIsFinite
<1>2. {a, b, c} = {a, b} \cup {c}
  OBVIOUS
<1> QED
  BY <1>1, <1>2, FS_AddElement

LEMMA FourAreFinite ==
  ASSUME NEW a, NEW b, NEW c, NEW d
  PROVE  IsFiniteSet({a, b, c, d})
<1>1. IsFiniteSet({a, b, c})
  BY ThreeAreFinite
<1>2. {a, b, c, d} = {a, b, c} \cup {d}
  OBVIOUS
<1> QED
  BY <1>1, <1>2, FS_AddElement

LEMMA SchemaStarts == SchemaInit => SchemaInv
<1> SUFFICES ASSUME SchemaInit PROVE SchemaInv
  OBVIOUS
<1>1. /\ upc = [p \in Programs |-> "off"] /\ step = [p \in Programs |-> 1]
      /\ seen = [p \in Programs |-> 0] /\ opened \in Nat /\ torn = FALSE /\ met = FALSE
  BY DEF SchemaInit, SchemaIdle
<1>2. /\ version \in {0, 11, 12, 19, 20, 22, 24} /\ LeftAt(version)
  BY DEF SchemaInit, SchemaNew, SchemaUsed, LeftAt
<1>3. /\ schema \subseteq 1..25 /\ VersionIsHonest /\ copies = {} /\ 25 \notin schema
      /\ (21 \in schema => version \in {22, 24})
  BY <1>2 DEF LeftAt, VersionIsHonest
<1>4. /\ accts \subseteq AccountRecords /\ IsFiniteSet(accts) /\ Numbered(accts)
      /\ rows \subseteq RowRecords /\ IsFiniteSet(rows) /\ RowsDiffer
      /\ OwnersExist /\ EarlyRows
  <2>1. CASE SchemaNew
    <3>1. accts = {} /\ rows = {}
      BY <2>1 DEF SchemaNew
    <3> QED
      BY <3>1, FS_EmptySet DEF Numbered, RowsDiffer, OwnersExist, EarlyRows
  <2>2. CASE SchemaUsed
    <3>1. CASE /\ LeftAt(11)
               /\ \E e \in Emails \ {NoEmail} :
                    /\ accts = {Account(1, "antigravity", e)}
                    /\ \/ rows = {Row(1, "antigravity", 1, e)}
                       \/ rows = {Row(1, "codex", Nobody, e), Row(2, "claude", Nobody, NoEmail)}
      <4>1. PICK e \in Emails \ {NoEmail} :
              /\ accts = {Account(1, "antigravity", e)}
              /\ \/ rows = {Row(1, "antigravity", 1, e)}
                 \/ rows = {Row(1, "codex", Nobody, e), Row(2, "claude", Nobody, NoEmail)}
        BY <3>1
      <4>2. accts \subseteq AccountRecords /\ \A a \in accts : a.id = 1
        BY <4>1, TableFacts DEF Account, AccountRecords
      <4>3. IsFiniteSet(accts) /\ Cardinality(accts) = 1
        BY <4>1, FS_Singleton
      <4>4. Numbered(accts)
        BY <4>1, <4>2, <4>3 DEF Numbered
      <4>5. rows \subseteq RowRecords /\ RowsDiffer
        BY <4>1, TableFacts DEF Row, RowRecords, RowsDiffer
      <4>9. IsFiniteSet(rows)
        BY <4>1, PairIsFinite
      <4>6. \A r \in rows : r.owner = Nobody \/ (r.table = "antigravity" /\ r.owner = 1)
        BY <4>1 DEF Row
      <4>7. OwnersExist
        BY <4>1, <4>2, <4>6 DEF OwnersExist, Exists
      <4>8. EarlyRows
        BY <4>1, <4>6 DEF EarlyRows
      <4> QED
        BY <4>2, <4>3, <4>4, <4>5, <4>7, <4>8, <4>9
    <3>2. CASE /\ \E v \in {12, 19, 20} : LeftAt(v)
               /\ \E e, f \in Emails \ {NoEmail} :
                    /\ accts = {Account(1, "antigravity", e), Account(2, "codex", f)}
                    /\ \E k \in Emails :
                         rows = {Row(1, "antigravity", 1, e), Row(2, "codex", Nobody, k),
                                 Row(3, "subscriptions", 9, e)}
      <4>1. PICK e, f \in Emails \ {NoEmail}, k \in Emails :
              /\ accts = {Account(1, "antigravity", e), Account(2, "codex", f)}
              /\ rows = {Row(1, "antigravity", 1, e), Row(2, "codex", Nobody, k),
                         Row(3, "subscriptions", 9, e)}
        BY <3>2
      <4>2. version \in {12, 19, 20} /\ 21 \notin schema
        BY <3>2 DEF LeftAt
      <4>3. accts \subseteq AccountRecords /\ \A a \in accts : a.id \in {1, 2}
        BY <4>1, TableFacts DEF Account, AccountRecords
      <4>4. IsFiniteSet(accts) /\ Cardinality(accts) = 2
        BY <4>1, PairIsFinite DEF Account
      <4>5. Numbered(accts)
        BY <4>1, <4>3, <4>4 DEF Numbered, Account
      <4>11. e \in Names /\ k \in Names /\ 1 \in Nat /\ 2 \in Nat /\ 3 \in Nat /\ 9 \in Nat /\ Nobody \in Nat
             /\ "antigravity" \in NamingTables /\ "codex" \in NamingTables /\ "subscriptions" \in NamingTables
        BY TableFacts DEF NamingTables, Names
      <4>12. RowsDiffer
        BY <4>1 DEF Row, RowsDiffer
      <4>6. rows \subseteq RowRecords /\ RowsDiffer
        BY <4>1, <4>11, <4>12 DEF Row, RowRecords
      <4>10. IsFiniteSet(rows)
        BY <4>1, ThreeAreFinite
      <4>7. \A r \in rows : r.owner = Nobody \/ r.owner = 1 \/ r.table = "subscriptions"
        BY <4>1 DEF Row
      <4>8. Exists(1)
        BY <4>1 DEF Exists, Account
      <4>9. OwnersExist /\ EarlyRows
        BY <4>2, <4>7, <4>8 DEF OwnersExist, EarlyRows
      <4> QED
        BY <4>3, <4>4, <4>5, <4>6, <4>9, <4>10
    <3>3. CASE /\ \E v \in {22, 24} : LeftAt(v)
               /\ \E e, f \in Emails :
                    /\ \E g \in Emails \ {NoEmail} : accts = {Account(1, "cursor", g)}
                    /\ rows = {Row(1, "cursor", 1, f), Row(2, "cursor", Nobody, e),
                               Row(3, "copilot", Nobody, f), Row(4, "plugin", Nobody, e)}
      <4>1. PICK e, f \in Emails, g \in Emails \ {NoEmail} :
              /\ accts = {Account(1, "cursor", g)}
              /\ rows = {Row(1, "cursor", 1, f), Row(2, "cursor", Nobody, e),
                         Row(3, "copilot", Nobody, f), Row(4, "plugin", Nobody, e)}
        BY <3>3
      <4>2. version \in {22, 24}
        BY <3>3 DEF LeftAt
      <4>3. accts \subseteq AccountRecords /\ \A a \in accts : a.id = 1
        BY <4>1, TableFacts DEF Account, AccountRecords
      <4>4. IsFiniteSet(accts) /\ Cardinality(accts) = 1
        BY <4>1, FS_Singleton
      <4>5. Numbered(accts)
        BY <4>1, <4>3, <4>4 DEF Numbered
      <4>6. rows \subseteq RowRecords /\ RowsDiffer
        BY <4>1, TableFacts DEF Row, RowRecords, RowsDiffer
      <4>7. IsFiniteSet(rows)
        BY <4>1, FourAreFinite
      <4>8. \A r \in rows : r.owner = Nobody \/ r.owner = 1
        BY <4>1 DEF Row
      <4>9. Exists(1)
        BY <4>1 DEF Exists, Account
      <4>10. OwnersExist /\ EarlyRows
        BY <4>2, <4>8, <4>9 DEF OwnersExist, EarlyRows
      <4> QED
        BY <4>3, <4>4, <4>5, <4>6, <4>7, <4>10
    <3> QED
      BY <2>2, <3>1, <3>2, <3>3 DEF SchemaUsed
  <2> QED
    BY <2>1, <2>2 DEF SchemaInit
<1>5. SchemaTypeOK
  <2>1. IsFiniteSet(copies) /\ copies \subseteq [row : Nat, run : Nat, account : Nat]
    BY <1>3, FS_EmptySet
  <2>2. /\ upc \in [Programs -> {"off", "check", "apply", "record", "refused", "serving"}]
        /\ step \in [Programs -> 1..26] /\ seen \in [Programs -> 0..25]
        /\ version \in 0..25
    BY <1>1, <1>2
  <2>5. torn \in BOOLEAN /\ met \in BOOLEAN
    BY <1>1, Zenon
  <2>3. /\ accts \subseteq [id : Nat \ {Nobody}, provider : NamingTables, email : Names]
        /\ rows \subseteq [id : Nat, table : NamingTables, owner : Nat, email : Names]
    BY <1>4 DEF AccountRecords, RowRecords
  <2>4. IsFiniteSet(accts) /\ IsFiniteSet(rows) /\ schema \subseteq 1..25 /\ opened \in Nat
    BY <1>1, <1>3, <1>4
  <2> QED
    BY <2>1, <2>2, <2>3, <2>4, <2>5 DEF SchemaTypeOK, LastVersion, Migrations
<1>6. Progress /\ ServesWhole /\ OneMigrates /\ StopsOnlyAtTwelve /\ CopiesAreDue
  BY <1>1, <1>3 DEF Progress, ServesWhole, OneMigrates, Migrating, StopsOnlyAtTwelve, CopiesAreDue
<1> QED
  BY <1>4, <1>5, <1>6 DEF SchemaInv

LEMMA SchemaSound == SchemaInv => UpgradeIsSound
<1> SUFFICES ASSUME SchemaInv PROVE UpgradeIsSound
  OBVIOUS
<1>1. VersionIsHonest /\ ServesWhole /\ StopsOnlyAtTwelve
  BY DEF SchemaInv, Progress
<1>2. CopiedOnce
  <2> SUFFICES ASSUME ~met, 25 <= version, NEW r \in rows, r.table \in Copied
               PROVE  CopyIsDue(r)
    BY DEF CopiedOnce, CopyIsDue
  <2>1. 25 \in schema
    BY <1>1, TypesNow DEF VersionIsHonest
  <2> QED
    BY <2>1 DEF SchemaInv, CopiesAreDue
<1>3. RowsKeepAccounts
  <2> SUFFICES ASSUME NEW p \in Programs, upc[p] = "serving", NEW r \in rows, r.owner # Nobody
               PROVE  Exists(r.owner)
    BY DEF RowsKeepAccounts
  <2>1. 21 \in schema
    BY <1>1, TableFacts DEF ServesWhole, Whole
  <2> QED
    BY <2>1 DEF SchemaInv, OwnersExist
<1> QED
  BY <1>1, <1>2, <1>3 DEF UpgradeIsSound

\* Whatever programs open the database, at once or again after dying between any two
\* statements: no migration is skipped, a program serves only a whole schema, only
\* v12 refuses, rows keep their accounts, and each is copied once to snapshots_v2
\* unless programs met or one was torn from its record (store.go, migrate; migrate_v25.go).
THEOREM UpgradesAreSound == SchemaSpec => []UpgradeIsSound
<1>1. SchemaInit => SchemaInv
  BY SchemaStarts
<1>2. SchemaInv /\ [SchemaNext]_schemaVars => SchemaInv'
  <2> SUFFICES ASSUME SchemaInv, [SchemaNext]_schemaVars PROVE SchemaInv'
    OBVIOUS
  <2>1. CASE UNCHANGED schemaVars
    <3>1. /\ version' = version /\ schema' = schema /\ accts' = accts /\ rows' = rows /\ copies' = copies
          /\ upc' = upc /\ step' = step /\ seen' = seen /\ opened' = opened /\ torn' = torn /\ met' = met
          /\ UNCHANGED data
      BY <2>1 DEF schemaVars, data
    <3>2. SchemaTypeOK' /\ Progress' /\ ServesWhole' /\ OneMigrates' /\ EarlyRows' /\ StopsOnlyAtTwelve'
      BY <3>1, TypesNow DEF SchemaInv, SchemaTypeOK, Progress, VersionIsHonest, ServesWhole, OneMigrates, VersionIsIts,
                  Migrating, EarlyRows, StopsOnlyAtTwelve
    <3>3. CopiesAreDue'
      BY <3>1, CopiesStay, TypesNow DEF SchemaInv, CopiesAreDue
    <3> QED
      BY <3>1, <3>2, <3>3, TablesStay DEF SchemaInv
  <2>2. CASE SchemaNext
    <3> PICK p \in Programs : \/ Open(p) \/ Check(p) \/ Migrate(p) \/ RefuseDrop(p) \/ Record(p)
                              \/ Served(p) \/ Close(p) \/ Stop(p)
      BY <2>2 DEF SchemaNext
    <3> QED
      BY OpensKeep, CheckKeeps, MigrateKeeps, RefuseKeeps, RecordKeeps, ServedKeeps, GoneKeeps
  <2> QED
    BY <2>1, <2>2
<1>3. SchemaInv => UpgradeIsSound
  BY SchemaSound
<1> QED
  BY <1>1, <1>2, <1>3, PTL DEF SchemaSpec

-----------------------------------------------------------------------------
(* Backup and restore (DatabaseRestore)                                    *)

\* Files there are belong to databases that were made; rows are in a database or its
\* log; under stamps to come there is nothing.
FilesKnown ==
  /\ \A kind \in FileKinds, n \in Stamps :
       /\ files[kind][n].of <= databases
       /\ files[kind][n].of = 0 => files[kind][n] = NotThere
       /\ n > restore.stamp => files[kind][n] = NotThere
  /\ \A n \in Stamps : files["shm"][n].rows = {}
  /\ \A p \in Users : \A g \in holding[p] : g <= databases

\* How far a restore has come.
Way ==
  /\ restore.step = "moving" => /\ restore.todo \in {FileKinds, {"wal", "shm"}, {"shm"}}
                                /\ restore.moved \cap restore.todo = {}
                                /\ \A kind \in restore.todo : files[kind][restore.stamp] = NotThere
  /\ restore.step = "replacing" => restore.todo = {}
  /\ restore.step # "none" => restore.stamp # 0
  /\ restore.step = "none" => restore.moved = {}
  /\ restore.step = "cleaning" => \A kind \in FileKinds : files[kind][restore.stamp].of # current

\* As long as no program opened the database on the way, nothing but the current
\* database is at the path, and what was moved is not.
PathIsClear ==
  ~crossed =>
    /\ \A kind \in FileKinds : At(kind).of \in {0, current}
    /\ restore.step \in {"moving", "replacing"} => \A kind \in FileKinds \ restore.todo : At(kind) = NotThere
    /\ restore.step = "rolling back" => \A kind \in restore.moved : At(kind) = NotThere
    /\ Moving /\ Is(At("db")) => restore.moved = {}
    /\ Moving => \A kind \in FileKinds : files[kind][restore.stamp].of \in {0, current}

\* What is expected is what the files of the current database hold, and a program that
\* has it open has a log to write to.
RowsAreKept ==
  ~crossed =>
    /\ \A x \in Nat : x \in expected <=>
         \E kind \in FileKinds, n \in Stamps : files[kind][n].of = current /\ x \in files[kind][n].rows
    /\ (\E p \in Users : current \in holding[p]) => \E n \in Stamps : files["wal"][n].of = current

\* While the database is at the path or will be put back, its files are there, but for
\* those that were moved.
FilesTogether ==
  ~crossed /\ ~unrolled /\ (Is(At("db")) \/ (Moving /\ "db" \in restore.moved)) =>
    \A kind \in FileKinds, n \in Stamps \ {0} : files[kind][n].of = current =>
      Moving /\ n = restore.stamp /\ kind \in restore.moved

RestoreInv ==
  /\ RestoreTypeOK /\ FilesKnown /\ Way /\ PathIsClear /\ RowsAreKept /\ FilesTogether
  /\ BackupsAreRedacted

-----------------------------------------------------------------------------
LEMMA FirstOfThem ==
  /\ FirstOf(FileKinds) = "db"
  /\ FirstOf({"wal", "shm"}) = "wal"
  /\ FirstOf({"shm"}) = "shm"
<1>1. Place["db"] = 1 /\ Place["wal"] = 2 /\ Place["shm"] = 3
  BY DEF Place, FileKinds
<1>2. FirstOf(FileKinds) = "db"
  BY <1>1 DEF FirstOf, FileKinds
<1>3. FirstOf({"wal", "shm"}) = "wal"
  BY <1>1 DEF FirstOf
<1>4. FirstOf({"shm"}) = "shm"
  BY <1>1 DEF FirstOf
<1> QED BY <1>2, <1>3, <1>4

\* There is a first and a last of any of the kinds, and the database is the first.
LEMMA OneOfThem ==
  ASSUME NEW kinds \in SUBSET FileKinds, kinds # {}
  PROVE  /\ FirstOf(kinds) \in kinds
         /\ LastOf(kinds) \in kinds
         /\ LastOf(kinds) = "db" => kinds = {"db"}
<1>1. Place["db"] = 1 /\ Place["wal"] = 2 /\ Place["shm"] = 3
  BY DEF Place, FileKinds
<1>2. \A k \in kinds : k \in {"db", "wal", "shm"}
  BY DEF FileKinds
<1>3. \E kind \in kinds : \A k \in kinds : Place[kind] <= Place[k]
  <2>1. CASE "db" \in kinds
    <3>1. \A k \in kinds : Place["db"] <= Place[k]
      BY <1>1, <1>2
    <3> QED BY <2>1, <3>1
  <2>2. CASE "db" \notin kinds /\ "wal" \in kinds
    <3>1. \A k \in kinds : Place["wal"] <= Place[k]
      BY <1>1, <1>2, <2>2
    <3> QED BY <2>2, <3>1
  <2>3. CASE "db" \notin kinds /\ "wal" \notin kinds
    <3>1. \A k \in kinds : k = "shm"
      BY <1>2, <2>3
    <3>2. "shm" \in kinds
      BY <3>1
    <3>3. \A k \in kinds : Place["shm"] <= Place[k]
      BY <1>1, <3>1
    <3> QED BY <3>2, <3>3
  <2> QED BY <2>1, <2>2, <2>3
<1>4. \E kind \in kinds : \A k \in kinds : Place[k] <= Place[kind]
  <2>1. CASE "shm" \in kinds
    <3>1. \A k \in kinds : Place[k] <= Place["shm"]
      BY <1>1, <1>2
    <3> QED BY <2>1, <3>1
  <2>2. CASE "shm" \notin kinds /\ "wal" \in kinds
    <3>1. \A k \in kinds : Place[k] <= Place["wal"]
      BY <1>1, <1>2, <2>2
    <3> QED BY <2>2, <3>1
  <2>3. CASE "shm" \notin kinds /\ "wal" \notin kinds
    <3>1. \A k \in kinds : k = "db"
      BY <1>2, <2>3
    <3>2. "db" \in kinds
      BY <3>1
    <3>3. \A k \in kinds : Place[k] <= Place["db"]
      BY <1>1, <3>1
    <3> QED BY <3>2, <3>3
  <2> QED BY <2>1, <2>2, <2>3
<1>5. FirstOf(kinds) \in kinds
  BY <1>3 DEF FirstOf
<1>6. LastOf(kinds) \in kinds /\ \A k \in kinds : Place[k] <= Place[LastOf(kinds)]
  BY <1>4 DEF LastOf
<1>7. ASSUME LastOf(kinds) = "db"
      PROVE  kinds = {"db"}
  <2>1. \A k \in kinds : Place[k] <= 1
    BY <1>1, <1>6, <1>7
  <2>2. \A k \in kinds : k = "db"
    BY <1>1, <1>2, <2>1
  <2> QED BY <1>6, <1>7, <2>2
<1> QED BY <1>5, <1>6, <1>7

\* There is one database, alone or with its log.
LEMMA StartsWell == RestoreInit => RestoreInv
<1> SUFFICES ASSUME RestoreInit PROVE RestoreInv
  OBVIOUS
<1>a. MaxRestores \in Nat /\ MaxDatabases \in Nat \ {0} /\ 0 \in Stamps /\ 1 \in 1..MaxDatabases
  BY RestoreAssumption DEF Stamps
<1>0. /\ holding = [p \in Users |-> {}] /\ restore = AtRest /\ redacting = {}
      /\ databases = 1 /\ captures = 2 /\ troubles = 0 /\ current = 1
      /\ expected = files["db"][0].rows \cup files["wal"][0].rows
      /\ crossed = FALSE /\ unrolled = FALSE /\ leaked = FALSE
      /\ backup \in [rows : {{1}}, valid : BOOLEAN, secret : {FALSE}]
  BY DEF RestoreInit, RestoreNew, RestoreIdle, At
<1>1. PICK wal \in {NotThere, [of |-> 1, rows |-> {2}]}, shm \in {NotThere, EmptyFile(1)} :
        files = [kind \in FileKinds |-> [n \in Stamps |->
                   IF n # 0 THEN NotThere ELSE CASE kind = "db" -> [of |-> 1, rows |-> {1}]
                                                 [] kind = "wal" -> wal [] OTHER -> shm]]
  <2>1. CASE files = [Used EXCEPT !["db"][0] = [of |-> 1, rows |-> {1}]]
    <3>1. files = [kind \in FileKinds |-> [n \in Stamps |->
                     IF n # 0 THEN NotThere ELSE CASE kind = "db" -> [of |-> 1, rows |-> {1}]
                                                   [] kind = "wal" -> NotThere [] OTHER -> NotThere]]
      BY <1>a, <2>1 DEF Used, FileKinds
    <3> QED BY <3>1
  <2>2. CASE files = [Used EXCEPT !["db"][0] = [of |-> 1, rows |-> {1}],
                                  !["wal"][0] = [of |-> 1, rows |-> {2}], !["shm"][0] = EmptyFile(1)]
    <3>1. files = [kind \in FileKinds |-> [n \in Stamps |->
                     IF n # 0 THEN NotThere ELSE CASE kind = "db" -> [of |-> 1, rows |-> {1}]
                                                   [] kind = "wal" -> [of |-> 1, rows |-> {2}]
                                                   [] OTHER -> EmptyFile(1)]]
      BY <1>a, <2>2 DEF Used, FileKinds
    <3> QED BY <3>1
  <2> QED BY <2>1, <2>2 DEF RestoreInit, RestoreNew
<1>2. /\ \A kind \in FileKinds : \A n \in Stamps : n # 0 => files[kind][n] = NotThere
      /\ files["db"][0] = [of |-> 1, rows |-> {1}] /\ files["wal"][0] = wal /\ files["shm"][0] = shm
  BY <1>a, <1>1 DEF FileKinds
<1>3. /\ NotThere.of = 0 /\ NotThere.rows = {}
      /\ wal.of \in {0, 1} /\ wal.rows \subseteq Nat /\ (wal.of = 0 => wal = NotThere)
      /\ shm.of \in {0, 1} /\ shm.rows = {} /\ (shm.of = 0 => shm = NotThere)
  BY <1>1 DEF NotThere, EmptyFile
<1>4. RestoreTypeOK
  <2>1. files \in [FileKinds -> [Stamps -> [of : Nat, rows : SUBSET Nat]]]
    BY <1>1, <1>a DEF NotThere, EmptyFile
  <2>2. restore \in [step : {"none", "moving", "replacing", "rolling back", "cleaning"}, stamp : Stamps,
                     copy : SUBSET Nat, todo : SUBSET FileKinds, moved : SUBSET FileKinds]
    BY <1>0, <1>a DEF AtRest
  <2>3. expected \subseteq Nat
    BY <1>0, <1>2, <1>3
  <2>4. backup \in [rows : SUBSET Nat, valid : BOOLEAN, secret : BOOLEAN]
    <3>1. {1} \subseteq Nat
      OBVIOUS
    <3> QED BY <1>0, <3>1
  <2>5. holding \in [Users -> SUBSET (1..MaxDatabases)] /\ redacting \subseteq Users
    BY <1>0
  <2>6. databases \in 1..MaxDatabases /\ current \in 1..databases
    BY <1>0, <1>a
  <2>7. /\ captures \in Nat /\ troubles \in Nat
        /\ crossed \in BOOLEAN /\ unrolled \in BOOLEAN /\ leaked \in BOOLEAN
    BY <1>0
  <2> QED BY <2>1, <2>2, <2>3, <2>4, <2>5, <2>6, <2>7 DEF RestoreTypeOK
<1>5. FilesKnown
  <2>1. ASSUME NEW kind \in FileKinds, NEW n \in Stamps
        PROVE  /\ files[kind][n].of <= databases
               /\ files[kind][n].of = 0 => files[kind][n] = NotThere
               /\ n > restore.stamp => files[kind][n] = NotThere
    BY <1>0, <1>2, <1>3, <1>a DEF AtRest, FileKinds
  <2>2. \A n \in Stamps : files["shm"][n].rows = {}
    BY <1>2, <1>3 DEF FileKinds
  <2> QED BY <1>0, <2>1, <2>2 DEF FilesKnown
<1>6. Way
  BY <1>0 DEF Way, AtRest
<1>7. PathIsClear
  BY <1>0, <1>2, <1>3 DEF PathIsClear, AtRest, At, FileKinds, Moving
<1>8. RowsAreKept
  <2>1. ASSUME NEW x \in Nat
        PROVE  x \in expected <=> \E kind \in FileKinds, n \in Stamps :
                                     files[kind][n].of = current /\ x \in files[kind][n].rows
    <3>1. x \in expected <=> x \in {1} \/ x \in wal.rows
      BY <1>0, <1>2
    <3>2. wal.of = 0 => wal.rows = {}
      BY <1>3
    <3> QED BY <1>0, <1>2, <1>3, <3>1, <3>2, <1>a DEF FileKinds
  <2> QED BY <1>0, <2>1 DEF RowsAreKept
<1>9. FilesTogether
  BY <1>0, <1>2, <1>3 DEF FilesTogether
<1>10. BackupsAreRedacted
  BY <1>0 DEF BackupsAreRedacted
<1> QED BY <1>4, <1>5, <1>6, <1>7, <1>8, <1>9, <1>10 DEF RestoreInv

\* Opening makes a database where there is none, and a log where there is none; both
\* are at the path.  During a restore, or after one cut short, it counts as crossed.
LEMMA OpenDatabaseKeeps ==
  ASSUME NEW p \in Users, RestoreInv, OpenDatabase(p)
  PROVE  RestoreInv'
<1>a. MaxRestores \in Nat /\ MaxDatabases \in Nat \ {0} /\ 0 \in Stamps /\ Stamps \subseteq Nat
  BY RestoreAssumption DEF Stamps
<1>b. RestoreTypeOK /\ FilesKnown /\ Way /\ PathIsClear /\ RowsAreKept /\ FilesTogether /\ BackupsAreRedacted
  BY DEF RestoreInv
<1>t. /\ files \in [FileKinds -> [Stamps -> [of : Nat, rows : SUBSET Nat]]]
      /\ holding \in [Users -> SUBSET (1..MaxDatabases)]
      /\ databases \in 1..MaxDatabases /\ current \in 1..databases
  BY <1>b DEF RestoreTypeOK
<1>u. UNCHANGED <<restore, backup, redacting, captures, troubles, current, expected, unrolled, leaked>>
  BY DEF OpenDatabase, ghosts
<1>f. \A kind \in FileKinds : \A n \in Stamps :
         files[kind][n].of \in Nat /\ files[kind][n].rows \subseteq Nat /\ files[kind][n].of <= databases
  BY <1>b, <1>t DEF FilesKnown
<1>k. "db" \in FileKinds /\ "wal" \in FileKinds /\ "shm" \in FileKinds
  BY DEF FileKinds
<1>e. \A n \in Nat : EmptyFile(n) \in [of : Nat, rows : SUBSET Nat] /\ EmptyFile(n).of = n /\ EmptyFile(n).rows = {}
  BY DEF EmptyFile
<1>1. PICK g \in 1..MaxDatabases :
        /\ databases' \in databases..MaxDatabases /\ g <= databases'
        /\ holding' = [holding EXCEPT ![p] = @ \cup {g}]
        /\ crossed' \in BOOLEAN
        /\ files' \in [FileKinds -> [Stamps -> [of : Nat, rows : SUBSET Nat]]]
        /\ \A kind \in FileKinds : \A n \in Stamps \ {0} : files'[kind][n] = files[kind][n]
        /\ files'["shm"][0] = EmptyFile(g) /\ files'["wal"][0].of = g
        /\ files'["db"][0] = files["db"][0] \/ files'["db"][0].of = g
        /\ ~crossed' => /\ crossed = FALSE /\ ~unrolled /\ ~Moving /\ Is(At("db")) /\ At("db").of = g
                        /\ files'["db"][0] = files["db"][0]
                        /\ \/ files'["wal"][0] = files["wal"][0]
                           \/ files["wal"][0] = NotThere /\ files'["wal"][0] = EmptyFile(g)
  <2>1. CASE ~Is(At("db"))
    <3> DEFINE g == databases + 1
    <3>1. /\ databases < MaxDatabases /\ databases' = g
          /\ holding' = [holding EXCEPT ![p] = @ \cup {g}] /\ crossed' = TRUE
      BY <2>1 DEF OpenDatabase
    <3>2. files' = [files EXCEPT !["wal"][0] = EmptyFile(g), !["shm"][0] = EmptyFile(g), !["db"][0] = EmptyFile(g)]
      BY <2>1 DEF OpenDatabase
    <3>3. g \in 1..MaxDatabases /\ databases' \in databases..MaxDatabases /\ g <= databases'
      BY <3>1, <1>t, <1>a
    <3>4. EmptyFile(g) \in [of : Nat, rows : SUBSET Nat] /\ EmptyFile(g).of = g
      BY <3>3, <1>e
    <3> HIDE DEF g
    <3>5. files' \in [FileKinds -> [Stamps -> [of : Nat, rows : SUBSET Nat]]]
      BY <3>2, <3>4, <1>t, <1>a, <1>k
    <3>6. /\ \A kind \in FileKinds : \A n \in Stamps \ {0} : files'[kind][n] = files[kind][n]
          /\ files'["shm"][0] = EmptyFile(g) /\ files'["wal"][0] = EmptyFile(g) /\ files'["db"][0] = EmptyFile(g)
      BY <3>2, <1>t, <1>a, <1>k
    <3> QED BY <3>1, <3>3, <3>4, <3>5, <3>6
  <2>2. CASE Is(At("db"))
    <3> DEFINE g == At("db").of
               log == IF ~Is(At("wal")) THEN EmptyFile(g) ELSE [At("wal") EXCEPT !.of = g]
    <3>1. /\ databases' = databases
          /\ holding' = [holding EXCEPT ![p] = @ \cup {g}]
          /\ files' = [files EXCEPT !["wal"][0] = log, !["shm"][0] = EmptyFile(g), !["db"][0] = @]
          /\ crossed' = (crossed \/ unrolled \/ Moving \/ (Is(At("wal")) /\ At("wal").of # g))
      BY <2>2 DEF OpenDatabase
    <3>2. g \in 1..databases
      <4>1. files["db"][0].of # 0
        BY <1>b, <1>a, <1>k, <2>2 DEF FilesKnown, Is, At
      <4> QED BY <4>1, <1>f, <1>a, <1>k, <1>t DEF At
    <3>3. EmptyFile(g) \in [of : Nat, rows : SUBSET Nat] /\ EmptyFile(g).of = g
      BY <3>2, <1>e, <1>t
    <3>9. At("wal") \in [of : Nat, rows : SUBSET Nat] /\ At("db") \in [of : Nat, rows : SUBSET Nat]
      BY <1>t, <1>a, <1>k DEF At
    <3>4. log \in [of : Nat, rows : SUBSET Nat] /\ log.of = g
      BY <3>9, <3>3
    <3>5. Is(At("wal")) /\ At("wal").of = g => log = At("wal")
      BY <3>9
    <3>6. ~Is(At("wal")) => At("wal") = NotThere /\ log = EmptyFile(g)
      BY DEF Is
    <3> HIDE DEF log
    <3>7. files' \in [FileKinds -> [Stamps -> [of : Nat, rows : SUBSET Nat]]]
      BY <3>1, <3>3, <3>4, <1>t, <1>a, <1>k
    <3>8. /\ \A kind \in FileKinds : \A n \in Stamps \ {0} : files'[kind][n] = files[kind][n]
          /\ files'["shm"][0] = EmptyFile(g) /\ files'["wal"][0] = log /\ files'["db"][0] = files["db"][0]
      BY <3>1, <3>3, <3>4, <1>t, <1>a, <1>k
    <3>10. crossed' \in BOOLEAN /\ (~crossed' => crossed = FALSE /\ ~unrolled /\ ~Moving
                                                 /\ (Is(At("wal")) => At("wal").of = g))
      <4>1. crossed \in BOOLEAN /\ unrolled \in BOOLEAN
        BY <1>b DEF RestoreTypeOK
      <4>2. crossed' \in BOOLEAN
        BY <3>1, <4>1 DEF Moving
      <4> QED BY <3>1, <4>1, <4>2
    <3>11. g \in 1..MaxDatabases /\ databases' \in databases..MaxDatabases /\ g <= databases'
      BY <3>1, <3>2, <1>t, <1>a
    <3>12. ~crossed' => \/ files'["wal"][0] = files["wal"][0]
                        \/ files["wal"][0] = NotThere /\ files'["wal"][0] = EmptyFile(g)
      BY <3>5, <3>6, <3>8, <3>10 DEF At
    <3> QED BY <2>2, <3>1, <3>4, <3>7, <3>8, <3>10, <3>11, <3>12
  <2> QED BY <2>1, <2>2
<1>3. /\ EmptyFile(g).of = g /\ EmptyFile(g).rows = {} /\ g \in Nat \ {0} /\ NotThere.rows = {}
      /\ NotThere.of = 0
  BY <1>1 DEF EmptyFile, NotThere
<1>4. RestoreTypeOK'
  <2>1. holding' \in [Users -> SUBSET (1..MaxDatabases)]
    BY <1>1, <1>t
  <2>2. databases' \in 1..MaxDatabases /\ current' \in 1..databases'
    BY <1>1, <1>t, <1>u
  <2> QED BY <1>b, <1>u, <1>1, <2>1, <2>2 DEF RestoreTypeOK
<1>5. FilesKnown'
  <2>1. ASSUME NEW kind \in FileKinds, NEW n \in Stamps
        PROVE  /\ files'[kind][n].of <= databases'
               /\ files'[kind][n].of = 0 => files'[kind][n] = NotThere
               /\ n > restore'.stamp => files'[kind][n] = NotThere
    <3>1. CASE n # 0 \/ files'[kind][n] = files[kind][n]
      <4>1. files'[kind][n] = files[kind][n]
        BY <3>1, <1>1
      <4>2. /\ files[kind][n].of <= databases
            /\ files[kind][n].of = 0 => files[kind][n] = NotThere
            /\ n > restore.stamp => files[kind][n] = NotThere
        BY <1>b DEF FilesKnown
      <4>3. files[kind][n].of \in Nat /\ databases \in Nat /\ databases' \in Nat /\ databases <= databases'
        BY <1>f, <1>t, <1>1
      <4> QED BY <4>1, <4>2, <4>3, <1>u
    <3>2. CASE n = 0 /\ files'[kind][n] # files[kind][n]
      <4>1. files'[kind][n].of = g
        BY <3>2, <1>1, <1>3 DEF FileKinds
      <4>2. restore.stamp \in Nat
        BY <1>b, <1>a DEF RestoreTypeOK
      <4> QED BY <4>1, <4>2, <3>2, <1>1, <1>3, <1>u
    <3> QED BY <3>1, <3>2
  <2>2. \A n \in Stamps : files'["shm"][n].rows = {}
    BY <1>1, <1>3, <1>b, <1>k DEF FilesKnown
  <2>3. \A q \in Users : \A h \in holding'[q] : h <= databases'
    <3> SUFFICES ASSUME NEW q \in Users, NEW h \in holding'[q] PROVE h <= databases'
      OBVIOUS
    <3>1. CASE h = g
      BY <3>1, <1>1
    <3>2. CASE h # g
      <4>1. h \in holding[q]
        BY <3>2, <1>1, <1>t
      <4>2. h <= databases /\ h \in Nat /\ databases \in Nat /\ databases' \in Nat /\ databases <= databases'
        BY <4>1, <1>b, <1>t, <1>1 DEF FilesKnown
      <4> QED BY <4>2
    <3> QED BY <3>1, <3>2
  <2> QED BY <2>1, <2>2, <2>3 DEF FilesKnown
<1>6. Way'
  <2>1. restore.step # "none" => restore.stamp \in Stamps \ {0}
    BY <1>b DEF Way, RestoreTypeOK
  <2>2. restore.todo \subseteq FileKinds
    BY <1>b DEF RestoreTypeOK
  <2>3. restore.step # "none" => \A kind \in FileKinds : files'[kind][restore.stamp] = files[kind][restore.stamp]
    BY <2>1, <1>1
  <2> QED BY <1>b, <1>u, <2>2, <2>3 DEF Way
<1>c. ASSUME ~crossed'
      PROVE  /\ crossed = FALSE /\ ~unrolled /\ ~Moving /\ Is(At("db")) /\ g = current /\ At("db").of = g
             /\ files'["db"][0] = files["db"][0]
             /\ \/ files'["wal"][0] = files["wal"][0]
                \/ files["wal"][0] = NotThere /\ files'["wal"][0] = EmptyFile(g)
             /\ files["shm"][0].rows = {}
  <2>1. At("db").of \in {0, current}
    BY <1>b, <1>k, <1>1, <1>c DEF PathIsClear
  <2>2. files["shm"][0].rows = {}
    BY <1>b, <1>a DEF FilesKnown
  <2> QED BY <1>c, <1>1, <1>3, <2>1, <2>2
<1>7. PathIsClear'
  <2> SUFFICES ASSUME ~crossed' PROVE PathIsClear'
    BY DEF PathIsClear
  <2>1. ~Moving'
    BY <1>c, <1>u DEF Moving
  <2>2. \A kind \in FileKinds : files'[kind][0].of \in {0, current}
    BY <1>1, <1>3, <1>c DEF At, FileKinds
  <2> QED BY <2>1, <2>2, <1>u DEF PathIsClear, Moving, At
<1>8. RowsAreKept'
  <2> SUFFICES ASSUME ~crossed' PROVE RowsAreKept'
    BY DEF RowsAreKept
  <2>1. ASSUME NEW x \in Nat, NEW kind \in FileKinds, NEW n \in Stamps
        PROVE  (files[kind][n].of = current /\ x \in files[kind][n].rows)
                 <=> (files'[kind][n].of = current /\ x \in files'[kind][n].rows)
    <3>1. CASE n # 0
      BY <3>1, <1>1
    <3>2. CASE n = 0 /\ kind = "db"
      BY <3>2, <1>c
    <3>3. CASE n = 0 /\ kind = "wal"
      BY <3>3, <1>3, <1>c
    <3>4. CASE n = 0 /\ kind = "shm"
      BY <3>4, <1>1, <1>3, <1>c
    <3> QED BY <3>1, <3>2, <3>3, <3>4 DEF FileKinds
  <2>2. \A x \in Nat : x \in expected' <=> \E kind \in FileKinds, n \in Stamps :
                          files'[kind][n].of = current' /\ x \in files'[kind][n].rows
    BY <2>1, <1>b, <1>c, <1>u DEF RowsAreKept
  <2>3. files'["wal"][0].of = current'
    BY <1>1, <1>3, <1>c, <1>u
  <2> QED BY <2>2, <2>3, <1>a DEF RowsAreKept
<1>9. FilesTogether'
  <2> SUFFICES ASSUME ~crossed', NEW kind \in FileKinds, NEW n \in Stamps \ {0}, files'[kind][n].of = current'
               PROVE  FALSE
    BY DEF FilesTogether
  <2>1. ~crossed /\ ~unrolled /\ Is(At("db")) /\ ~Moving
    BY <1>c
  <2>2. files[kind][n].of = current
    BY <1>1, <1>u
  <2> QED BY <2>1, <2>2, <1>b DEF FilesTogether
<1>10. BackupsAreRedacted'
  BY <1>b, <1>u DEF BackupsAreRedacted
<1> QED BY <1>4, <1>5, <1>6, <1>7, <1>8, <1>9, <1>10 DEF RestoreInv
\* The invariant, with what its types say, for the steps to cite.
LEMMA WhatIsKnown ==
  ASSUME RestoreInv
  PROVE  /\ MaxRestores \in Nat /\ MaxDatabases \in Nat \ {0} /\ 0 \in Stamps /\ Stamps \subseteq Nat
         /\ RestoreTypeOK /\ FilesKnown /\ Way /\ PathIsClear /\ RowsAreKept /\ FilesTogether
         /\ BackupsAreRedacted
         /\ "db" \in FileKinds /\ "wal" \in FileKinds /\ "shm" \in FileKinds
         /\ \A kind \in FileKinds : \A n \in Stamps :
              /\ files[kind][n] \in [of : Nat, rows : SUBSET Nat]
              /\ files[kind][n].of \in Nat /\ files[kind][n].rows \subseteq Nat
              /\ files[kind][n].of <= databases
              /\ files[kind][n].of = 0 => files[kind][n] = NotThere
         /\ NotThere.of = 0 /\ NotThere.rows = {} /\ NotThere \in [of : Nat, rows : SUBSET Nat]
         /\ databases \in Nat \ {0} /\ current \in Nat \ {0} /\ current <= databases
<1>1. MaxRestores \in Nat /\ MaxDatabases \in Nat \ {0} /\ 0 \in Stamps /\ Stamps \subseteq Nat
  BY RestoreAssumption DEF Stamps
<1>2. RestoreTypeOK /\ FilesKnown /\ Way /\ PathIsClear /\ RowsAreKept /\ FilesTogether /\ BackupsAreRedacted
  BY DEF RestoreInv
<1>3. "db" \in FileKinds /\ "wal" \in FileKinds /\ "shm" \in FileKinds
  BY DEF FileKinds
<1>4. /\ files \in [FileKinds -> [Stamps -> [of : Nat, rows : SUBSET Nat]]]
      /\ databases \in 1..MaxDatabases /\ current \in 1..databases
  BY <1>2 DEF RestoreTypeOK
<1>5. \A kind \in FileKinds : \A n \in Stamps :
        /\ files[kind][n] \in [of : Nat, rows : SUBSET Nat]
        /\ files[kind][n].of \in Nat /\ files[kind][n].rows \subseteq Nat
        /\ files[kind][n].of <= databases
        /\ files[kind][n].of = 0 => files[kind][n] = NotThere
  BY <1>2, <1>4 DEF FilesKnown
<1>6. databases \in Nat \ {0} /\ current \in Nat \ {0} /\ current <= databases
  BY <1>1, <1>4
<1>7. NotThere.of = 0 /\ NotThere.rows = {} /\ NotThere \in [of : Nat, rows : SUBSET Nat]
  BY DEF NotThere
<1> QED BY <1>1, <1>2, <1>3, <1>5, <1>6, <1>7

\* What a program writes, or its end, moves no file.
LEMMA FilesStay ==
  ASSUME RestoreInv,
         files' \in [FileKinds -> [Stamps -> [of : Nat, rows : SUBSET Nat]]],
         \A kind \in FileKinds : \A n \in Stamps :
           /\ files'[kind][n].of = files[kind][n].of
           /\ files[kind][n] = NotThere => files'[kind][n] = NotThere,
         \A n \in Stamps : files'["shm"][n].rows = {},
         \A q \in Users : holding'[q] \subseteq holding[q],
         UNCHANGED <<restore, databases, current, crossed, unrolled>>,
         ~crossed => \A x \in Nat : x \in expected' <=>
                       \E kind \in FileKinds, n \in Stamps : files'[kind][n].of = current /\ x \in files'[kind][n].rows
  PROVE  FilesKnown' /\ Way' /\ PathIsClear' /\ RowsAreKept' /\ FilesTogether'
<1>w. /\ 0 \in Stamps /\ FilesKnown /\ Way /\ PathIsClear /\ RowsAreKept /\ FilesTogether /\ NotThere.of = 0
      /\ "db" \in FileKinds /\ RestoreTypeOK
      /\ \A kind \in FileKinds : \A n \in Stamps : files[kind][n].of = 0 => files[kind][n] = NotThere
  BY WhatIsKnown
<1>1. \A kind \in FileKinds : \A n \in Stamps : files'[kind][n] = NotThere <=> files[kind][n] = NotThere
  <2> SUFFICES ASSUME NEW kind \in FileKinds, NEW n \in Stamps
               PROVE  files'[kind][n] = NotThere <=> files[kind][n] = NotThere
    OBVIOUS
  <2>1. files'[kind][n].of = files[kind][n].of /\ (files[kind][n] = NotThere => files'[kind][n] = NotThere)
    OBVIOUS
  <2>2. files[kind][n].of = 0 => files[kind][n] = NotThere
    BY <1>w
  <2> QED BY <1>w, <2>1, <2>2
<1>u. /\ restore' = restore /\ databases' = databases /\ current' = current
      /\ crossed' = crossed /\ unrolled' = unrolled
  OBVIOUS
<1>2. FilesKnown'
  <2>1. ASSUME NEW kind \in FileKinds, NEW n \in Stamps
        PROVE  /\ files'[kind][n].of <= databases'
               /\ files'[kind][n].of = 0 => files'[kind][n] = NotThere
               /\ n > restore'.stamp => files'[kind][n] = NotThere
    <3>1. /\ files[kind][n].of <= databases
          /\ files[kind][n].of = 0 => files[kind][n] = NotThere
          /\ n > restore.stamp => files[kind][n] = NotThere
      BY <1>w DEF FilesKnown
    <3>2. files'[kind][n].of = files[kind][n].of
      OBVIOUS
    <3> QED BY <1>1, <1>u, <3>1, <3>2
  <2>2. \A q \in Users : \A h \in holding'[q] : h <= databases'
    BY <1>w, <1>u DEF FilesKnown
  <2> QED BY <2>1, <2>2 DEF FilesKnown
<1>3. Way'
  <2>1. restore.stamp \in Stamps /\ restore.todo \subseteq FileKinds
    BY <1>w DEF RestoreTypeOK
  <2>2. \A kind \in FileKinds : /\ files'[kind][restore.stamp].of = files[kind][restore.stamp].of
                                /\ files'[kind][restore.stamp] = NotThere <=> files[kind][restore.stamp] = NotThere
    BY <1>1, <2>1
  <2> QED BY <1>w, <1>u, <2>1, <2>2 DEF Way
<1>4. PathIsClear'
  <2>1. \A kind \in FileKinds : /\ At(kind)'.of = At(kind).of
                                /\ At(kind)' = NotThere <=> At(kind) = NotThere
    BY <1>w, <1>1 DEF At
  <2>2. restore.stamp \in Stamps /\ restore.todo \subseteq FileKinds /\ restore.moved \subseteq FileKinds
    BY <1>w DEF RestoreTypeOK
  <2> SUFFICES ASSUME ~crossed PROVE PathIsClear'
    BY DEF PathIsClear
  <2>3. /\ \A kind \in FileKinds : At(kind).of \in {0, current}
        /\ restore.step \in {"moving", "replacing"} => \A kind \in FileKinds \ restore.todo : At(kind) = NotThere
        /\ restore.step = "rolling back" => \A kind \in restore.moved : At(kind) = NotThere
        /\ Moving /\ Is(At("db")) => restore.moved = {}
        /\ Moving => \A kind \in FileKinds : files[kind][restore.stamp].of \in {0, current}
    BY <1>w DEF PathIsClear
  <2>4. \A kind \in FileKinds : At(kind)'.of \in {0, current'}
    BY <2>1, <2>3
  <2>5. restore'.step \in {"moving", "replacing"} => \A kind \in FileKinds \ restore'.todo : At(kind)' = NotThere
    BY <2>1, <2>3
  <2>6. restore'.step = "rolling back" => \A kind \in restore'.moved : At(kind)' = NotThere
    BY <2>1, <2>2, <2>3
  <2>7. Moving' /\ Is(At("db"))' => restore'.moved = {}
    BY <1>w, <2>1, <2>3 DEF Is, Moving
  <2>8. Moving' => \A kind \in FileKinds : files'[kind][restore'.stamp].of \in {0, current'}
    BY <2>2, <2>3 DEF Moving
  <2> QED BY <2>4, <2>5, <2>6, <2>7, <2>8 DEF PathIsClear
<1>5. RowsAreKept'
  <2> SUFFICES ASSUME ~crossed PROVE RowsAreKept'
    BY <1>u DEF RowsAreKept
  <2>1. (\E q \in Users : current \in holding'[q]) => \E n \in Stamps : files'["wal"][n].of = current
    BY <1>w DEF RowsAreKept, FileKinds
  <2> QED BY <1>u, <2>1 DEF RowsAreKept
<1>6. FilesTogether'
  <2>1. Is(At("db"))' <=> Is(At("db"))
    BY <1>w, <1>1 DEF At, Is
  <2>2. Moving' = Moving
    BY <1>u DEF Moving
  <2>3. ASSUME ~crossed, ~unrolled, Is(At("db")) \/ (Moving /\ "db" \in restore.moved),
               NEW kind \in FileKinds, NEW n \in Stamps \ {0}, files'[kind][n].of = current
        PROVE  Moving /\ n = restore.stamp /\ kind \in restore.moved
    <3>1. files[kind][n].of = current
      BY <2>3
    <3> QED BY <2>3, <3>1, <1>w DEF FilesTogether
  <2> QED BY <1>u, <2>1, <2>2, <2>3 DEF FilesTogether
<1> QED BY <1>2, <1>3, <1>4, <1>5, <1>6

\* A new row goes to the logs of its database, of which there is one.
LEMMA CaptureKeeps ==
  ASSUME NEW p \in Users, NEW g \in holding[p], RestoreInv, CaptureRow(p, g)
  PROVE  RestoreInv'
<1>w. /\ 0 \in Stamps /\ FilesKnown /\ RowsAreKept /\ NotThere.of = 0
      /\ "db" \in FileKinds /\ "wal" \in FileKinds /\ "shm" \in FileKinds
      /\ RestoreTypeOK /\ BackupsAreRedacted
      /\ \A kind \in FileKinds : \A n \in Stamps : files[kind][n] \in [of : Nat, rows : SUBSET Nat]
  BY WhatIsKnown
<1>u. /\ UNCHANGED <<holding, restore, backup, redacting, databases, troubles, current, crossed, unrolled, leaked>>
      /\ captures' = captures + 1
      /\ expected' = IF g = current THEN expected \cup {captures'} ELSE expected
  BY DEF CaptureRow, excuses
<1>t. /\ files \in [FileKinds -> [Stamps -> [of : Nat, rows : SUBSET Nat]]]
      /\ holding \in [Users -> SUBSET (1..MaxDatabases)] /\ captures' \in Nat /\ g \in Nat \ {0}
  <2>1. /\ files \in [FileKinds -> [Stamps -> [of : Nat, rows : SUBSET Nat]]]
        /\ holding \in [Users -> SUBSET (1..MaxDatabases)] /\ captures \in Nat
    BY <1>w DEF RestoreTypeOK
  <2>2. g \in 1..MaxDatabases
    BY <2>1
  <2>3. g \in Nat \ {0}
    BY <2>2, RestoreAssumption
  <2>4. captures' \in Nat
    BY <2>1, <1>u
  <2> QED BY <2>1, <2>3, <2>4
<1>1. files' = [files EXCEPT !["wal"] = [n \in Stamps |->
                  IF files["wal"][n].of = g THEN [files["wal"][n] EXCEPT !.rows = @ \cup {captures'}]
                                            ELSE files["wal"][n]]]
  BY DEF CaptureRow
<1>2. \A kind \in FileKinds : \A n \in Stamps :
        /\ files'[kind][n] \in [of : Nat, rows : SUBSET Nat]
        /\ files'[kind][n].of = files[kind][n].of
        /\ files'[kind][n].rows = IF kind = "wal" /\ files[kind][n].of = g THEN files[kind][n].rows \cup {captures'}
                                                                          ELSE files[kind][n].rows
        /\ files[kind][n] = NotThere => files'[kind][n] = NotThere
  <2> SUFFICES ASSUME NEW kind \in FileKinds, NEW n \in Stamps
               PROVE /\ files'[kind][n] \in [of : Nat, rows : SUBSET Nat]
                     /\ files'[kind][n].of = files[kind][n].of
                     /\ files'[kind][n].rows = IF kind = "wal" /\ files[kind][n].of = g
                                                 THEN files[kind][n].rows \cup {captures'} ELSE files[kind][n].rows
                     /\ files[kind][n] = NotThere => files'[kind][n] = NotThere
    OBVIOUS
  <2>1. CASE kind = "wal" /\ files[kind][n].of = g
    <3>1. files'[kind][n] = [files[kind][n] EXCEPT !.rows = @ \cup {captures'}]
      BY <1>1, <1>t, <1>w, <2>1
    <3>2. files[kind][n] \in [of : Nat, rows : SUBSET Nat] /\ files[kind][n] # NotThere
      BY <1>w, <1>t, <2>1
    <3> QED BY <2>1, <3>1, <3>2, <1>t
  <2>2. CASE ~(kind = "wal" /\ files[kind][n].of = g)
    <3>1. files'[kind][n] = files[kind][n]
      BY <1>1, <1>t, <1>w, <2>2
    <3> QED BY <2>2, <3>1, <1>w
  <2> QED BY <2>1, <2>2
<1>3. files' \in [FileKinds -> [Stamps -> [of : Nat, rows : SUBSET Nat]]]
  <2>1. files' \in [FileKinds -> [Stamps -> [of : Nat, rows : SUBSET Nat]]] <=>
          \A kind \in FileKinds : files'[kind] \in [Stamps -> [of : Nat, rows : SUBSET Nat]]
    BY <1>1, <1>t
  <2>2. ASSUME NEW kind \in FileKinds
        PROVE  files'[kind] \in [Stamps -> [of : Nat, rows : SUBSET Nat]]
    <3>1. files'[kind] = [n \in Stamps |-> files'[kind][n]]
      BY <1>1, <1>t, <1>w
    <3> QED BY <3>1, <1>2
  <2> QED BY <2>1, <2>2
<1>4. \A n \in Stamps : files'["shm"][n].rows = {}
  BY <1>2, <1>w DEF FilesKnown
<1>5. ASSUME ~crossed, NEW x \in Nat
      PROVE  x \in expected' <=>
               \E kind \in FileKinds, n \in Stamps : files'[kind][n].of = current /\ x \in files'[kind][n].rows
  <2>1. /\ x \in expected <=>
             \E kind \in FileKinds, n \in Stamps : files[kind][n].of = current /\ x \in files[kind][n].rows
        /\ (\E q \in Users : current \in holding[q]) => \E n \in Stamps : files["wal"][n].of = current
    BY <1>w, <1>5 DEF RowsAreKept
  <2>5. ASSUME g # current \/ x # captures', NEW kind \in FileKinds, NEW n \in Stamps
        PROVE  (files'[kind][n].of = current /\ x \in files'[kind][n].rows)
                 <=> (files[kind][n].of = current /\ x \in files[kind][n].rows)
    BY <2>5, <1>2
  <2>2. CASE g # current
    BY <2>1, <2>2, <2>5, <1>u
  <2>3. CASE g = current /\ x # captures'
    BY <2>1, <2>3, <2>5, <1>u
  <2>4. CASE g = current /\ x = captures'
    <3>1. PICK n \in Stamps : files["wal"][n].of = current
      BY <2>1, <2>4
    <3>2. files'["wal"][n].of = current /\ x \in files'["wal"][n].rows
      BY <3>1, <2>4, <1>2, <1>w
    <3> QED BY <3>2, <2>4, <1>u, <1>w
  <2> QED BY <2>2, <2>3, <2>4
<1>6. FilesKnown' /\ Way' /\ PathIsClear' /\ RowsAreKept' /\ FilesTogether'
  <2>1. \A kind \in FileKinds : \A n \in Stamps :
          /\ files'[kind][n].of = files[kind][n].of
          /\ files[kind][n] = NotThere => files'[kind][n] = NotThere
    BY <1>2
  <2>2. \A q \in Users : holding'[q] \subseteq holding[q]
    BY <1>u
  <2>3. UNCHANGED <<restore, databases, current, crossed, unrolled>>
    BY <1>u
  <2>4. ~crossed => \A x \in Nat : x \in expected' <=>
                       \E kind \in FileKinds, n \in Stamps : files'[kind][n].of = current /\ x \in files'[kind][n].rows
    BY <1>5
  <2> QED BY ONLY FilesStay, RestoreInv, <1>3, <1>4, <2>1, <2>2, <2>3, <2>4
<1>7. RestoreTypeOK'
  <2>1. expected' \subseteq Nat
    BY <1>u, <1>t, <1>w DEF RestoreTypeOK
  <2> QED BY <1>w, <1>u, <1>t, <1>3, <2>1 DEF RestoreTypeOK
<1>8. BackupsAreRedacted'
  BY <1>w, <1>u DEF BackupsAreRedacted
<1> QED BY <1>6, <1>7, <1>8 DEF RestoreInv
\* The log's rows go to the database.
LEMMA LogGoesThere ==
  ASSUME RestoreInv, NEW g \in Nat \ {0}
  PROVE  /\ LogCopied(g) \in [FileKinds -> [Stamps -> [of : Nat, rows : SUBSET Nat]]]
         /\ \A kind \in FileKinds : \A n \in Stamps :
              /\ LogCopied(g)[kind][n].of = files[kind][n].of
              /\ files[kind][n] = NotThere => LogCopied(g)[kind][n] = NotThere
              /\ files[kind][n].of # g => LogCopied(g)[kind][n] = files[kind][n]
              /\ files[kind][n].of = g /\ kind # "db" => LogCopied(g)[kind][n].rows = {}
              /\ files[kind][n].of = g /\ kind = "db" => \A x \in Nat :
                   x \in LogCopied(g)[kind][n].rows <=>
                     \/ x \in files["db"][n].rows
                     \/ \E m \in Stamps : files["wal"][m].of = g /\ x \in files["wal"][m].rows
         /\ \A n \in Stamps : LogCopied(g)["shm"][n].rows = {}
<1>w. /\ NotThere.of = 0 /\ FilesKnown
      /\ "db" \in FileKinds /\ "wal" \in FileKinds /\ "shm" \in FileKinds
      /\ \A kind \in FileKinds : \A n \in Stamps : /\ files[kind][n] \in [of : Nat, rows : SUBSET Nat]
                                                   /\ files[kind][n].rows \subseteq Nat
  BY WhatIsKnown
<1>1. PICK log \in SUBSET Nat :
        /\ \A x \in Nat : x \in log <=> \E m \in Stamps : files["wal"][m].of = g /\ x \in files["wal"][m].rows
        /\ LogCopied(g) = [kind \in FileKinds |-> [n \in Stamps |->
             IF files[kind][n].of # g THEN files[kind][n]
             ELSE [of |-> g, rows |-> IF kind = "db" THEN files[kind][n].rows \cup log ELSE {}]]]
  <2> DEFINE log == UNION {files["wal"][n].rows : n \in FilesOf("wal", g)}
  <2>1. \A x : x \in log <=> \E m \in Stamps : files["wal"][m].of = g /\ x \in files["wal"][m].rows
    BY DEF FilesOf
  <2>2. log \subseteq Nat
    BY <2>1, <1>w
  <2>3. LogCopied(g) = [kind \in FileKinds |-> [n \in Stamps |->
             IF files[kind][n].of # g THEN files[kind][n]
             ELSE [of |-> g, rows |-> IF kind = "db" THEN files[kind][n].rows \cup log ELSE {}]]]
    BY DEF LogCopied
  <2> HIDE DEF log
  <2> QED BY <2>1, <2>2, <2>3
<1>2. ASSUME NEW kind \in FileKinds, NEW n \in Stamps
      PROVE  /\ LogCopied(g)[kind][n] \in [of : Nat, rows : SUBSET Nat]
             /\ LogCopied(g)[kind][n].of = files[kind][n].of
             /\ files[kind][n] = NotThere => LogCopied(g)[kind][n] = NotThere
             /\ files[kind][n].of # g => LogCopied(g)[kind][n] = files[kind][n]
             /\ files[kind][n].of = g /\ kind # "db" => LogCopied(g)[kind][n].rows = {}
             /\ files[kind][n].of = g /\ kind = "db" => LogCopied(g)[kind][n].rows = files["db"][n].rows \cup log
  <2>1. LogCopied(g)[kind][n] =
             IF files[kind][n].of # g THEN files[kind][n]
             ELSE [of |-> g, rows |-> IF kind = "db" THEN files[kind][n].rows \cup log ELSE {}]
    BY <1>1
  <2>2. CASE files[kind][n].of # g
    BY <2>1, <2>2, <1>w
  <2>3. CASE files[kind][n].of = g /\ kind = "db"
    <3>1. files[kind][n].rows \cup log \in SUBSET Nat
      BY <1>w, <1>1
    <3> QED BY <2>1, <2>3, <3>1, <1>w
  <2>4. CASE files[kind][n].of = g /\ kind # "db"
    BY <2>1, <2>4, <1>w
  <2> QED BY <2>2, <2>3, <2>4
<1>3. LogCopied(g) \in [FileKinds -> [Stamps -> [of : Nat, rows : SUBSET Nat]]]
  <2>1. LogCopied(g) = [kind \in FileKinds |-> [n \in Stamps |-> LogCopied(g)[kind][n]]]
    BY <1>1
  <2> QED BY <2>1, <1>2
<1>4. ASSUME NEW n \in Stamps
      PROVE  LogCopied(g)["shm"][n].rows = {}
  <2>1. files["shm"][n].rows = {}
    BY <1>w DEF FilesKnown
  <2> QED BY <2>1, <1>2, <1>w
<1>5. ASSUME NEW kind \in FileKinds, NEW n \in Stamps, files[kind][n].of = g, kind = "db", NEW x \in Nat
      PROVE  x \in LogCopied(g)[kind][n].rows <=>
                     \/ x \in files["db"][n].rows
                     \/ \E m \in Stamps : files["wal"][m].of = g /\ x \in files["wal"][m].rows
  BY <1>5, <1>1, <1>2
<1> QED BY <1>2, <1>3, <1>4, <1>5

\* No row comes or goes when a log is copied, as long as its database is somewhere.
LEMMA RowsGoAlong ==
  ASSUME RestoreInv, NEW g \in Nat \ {0}, FilesOf("db", g) # {}, NEW x \in Nat
  PROVE  (\E kind \in FileKinds, n \in Stamps : files[kind][n].of = current /\ x \in files[kind][n].rows)
           <=> \E kind \in FileKinds, n \in Stamps :
                 LogCopied(g)[kind][n].of = current /\ x \in LogCopied(g)[kind][n].rows
<1>w. "db" \in FileKinds /\ "wal" \in FileKinds /\ "shm" \in FileKinds /\ FilesKnown
  BY WhatIsKnown
<1>1. /\ \A kind \in FileKinds : \A n \in Stamps :
              /\ LogCopied(g)[kind][n].of = files[kind][n].of
              /\ files[kind][n].of # g => LogCopied(g)[kind][n] = files[kind][n]
              /\ files[kind][n].of = g /\ kind # "db" => LogCopied(g)[kind][n].rows = {}
      /\ \A n \in Stamps : files["db"][n].of = g =>
            (x \in LogCopied(g)["db"][n].rows <=>
                     \/ x \in files["db"][n].rows
                     \/ \E m \in Stamps : files["wal"][m].of = g /\ x \in files["wal"][m].rows)
  BY LogGoesThere, <1>w
<1>2. CASE g # current
  BY <1>1, <1>2
<1>3. CASE g = current
  <2>1. ASSUME NEW kind \in FileKinds, NEW n \in Stamps, files[kind][n].of = g, x \in files[kind][n].rows
        PROVE  \E k \in FileKinds, m \in Stamps :
                 LogCopied(g)[k][m].of = current /\ x \in LogCopied(g)[k][m].rows
    <3>1. CASE kind = "db"
      BY <2>1, <3>1, <1>1, <1>3, <1>w
    <3>2. CASE kind = "wal"
      <4>1. PICK m \in Stamps : files["db"][m].of = g
        BY DEF FilesOf
      <4>2. x \in LogCopied(g)["db"][m].rows /\ LogCopied(g)["db"][m].of = current
        BY <4>1, <2>1, <3>2, <1>1, <1>3, <1>w
      <4> QED BY <4>2, <1>w
    <3>3. CASE kind = "shm"
      BY <2>1, <3>3, <1>w DEF FilesKnown
    <3> QED BY <3>1, <3>2, <3>3 DEF FileKinds
  <2>2. ASSUME NEW kind \in FileKinds, NEW n \in Stamps, LogCopied(g)[kind][n].of = current,
               x \in LogCopied(g)[kind][n].rows
        PROVE  \E k \in FileKinds, m \in Stamps : files[k][m].of = current /\ x \in files[k][m].rows
    <3>1. files[kind][n].of = g /\ kind = "db"
      BY <2>2, <1>1, <1>3
    <3>2. \/ x \in files["db"][n].rows
          \/ \E m \in Stamps : files["wal"][m].of = g /\ x \in files["wal"][m].rows
      BY <2>2, <3>1, <1>1
    <3> QED BY <3>1, <3>2, <1>3, <1>w
  <2> QED BY <2>1, <2>2, <1>3
<1> QED BY <1>2, <1>3

\* A checkpoint moves rows, no files.
LEMMA CheckpointKeeps ==
  ASSUME NEW p \in Users, NEW g \in holding[p], RestoreInv, Checkpoint(p, g)
  PROVE  RestoreInv'
<1>w. /\ RestoreTypeOK /\ BackupsAreRedacted /\ RowsAreKept
  BY WhatIsKnown
<1>u. /\ UNCHANGED <<holding, restore, backup, redacting, databases, captures, troubles, current, expected>>
      /\ UNCHANGED <<crossed, unrolled, leaked>> /\ files' = LogCopied(g) /\ FilesOf("db", g) # {}
  BY DEF Checkpoint, excuses, ghosts
<1>t. g \in Nat \ {0}
  <2>1. g \in 1..MaxDatabases
    BY <1>w DEF RestoreTypeOK
  <2> QED BY <2>1, RestoreAssumption
<1>1. /\ files' \in [FileKinds -> [Stamps -> [of : Nat, rows : SUBSET Nat]]]
      /\ \A n \in Stamps : files'["shm"][n].rows = {}
      /\ \A kind \in FileKinds : \A n \in Stamps :
              /\ files'[kind][n].of = files[kind][n].of
              /\ files[kind][n] = NotThere => files'[kind][n] = NotThere
  BY <1>u, <1>t, LogGoesThere
<1>2. ASSUME ~crossed, NEW x \in Nat
      PROVE  x \in expected' <=>
               \E kind \in FileKinds, n \in Stamps : files'[kind][n].of = current /\ x \in files'[kind][n].rows
  BY <1>2, <1>u, <1>t, <1>w, RowsGoAlong DEF RowsAreKept
<1>3. FilesKnown' /\ Way' /\ PathIsClear' /\ RowsAreKept' /\ FilesTogether'
  <2>1. \A q \in Users : holding'[q] \subseteq holding[q]
    BY <1>u
  <2>2. UNCHANGED <<restore, databases, current, crossed, unrolled>>
    BY <1>u
  <2>3. ~crossed => \A x \in Nat : x \in expected' <=>
                       \E kind \in FileKinds, n \in Stamps : files'[kind][n].of = current /\ x \in files'[kind][n].rows
    BY <1>2
  <2> QED BY ONLY FilesStay, RestoreInv, <1>1, <2>1, <2>2, <2>3
<1>4. RestoreTypeOK'
  BY <1>w, <1>u, <1>1 DEF RestoreTypeOK
<1>5. BackupsAreRedacted'
  BY <1>w, <1>u DEF BackupsAreRedacted
<1> QED BY <1>3, <1>4, <1>5 DEF RestoreInv
\* The last to close leaves no log; as long as nothing was crossed its rows are in the
\* database before.
LEMMA CloseKeeps ==
  ASSUME NEW p \in Users, RestoreInv, CloseDatabase(p)
  PROVE  RestoreInv'
<1>w. /\ RestoreTypeOK /\ BackupsAreRedacted /\ RowsAreKept /\ FilesKnown /\ Way /\ PathIsClear /\ FilesTogether
      /\ 0 \in Stamps /\ "db" \in FileKinds /\ "wal" \in FileKinds /\ "shm" \in FileKinds
      /\ NotThere.of = 0 /\ NotThere.rows = {} /\ NotThere \in [of : Nat, rows : SUBSET Nat]
      /\ Stamps \subseteq Nat /\ databases \in Nat /\ current \in Nat \ {0}
  BY WhatIsKnown
<1>u. /\ UNCHANGED <<restore, backup, redacting, databases, captures, troubles, current, expected>>
      /\ UNCHANGED <<crossed, unrolled, leaked>>
      /\ holding' = [holding EXCEPT ![p] = {}]
  BY DEF CloseDatabase, excuses, ghosts
<1>h. /\ holding' \in [Users -> SUBSET (1..MaxDatabases)] /\ \A q \in Users : holding'[q] \subseteq holding[q]
      /\ \A q \in Users \ {p} : holding'[q] = holding[q]
      /\ holding'[p] = {}
  BY <1>u, <1>w DEF RestoreTypeOK
<1>1. CASE files' = files
  <2>1. /\ files' \in [FileKinds -> [Stamps -> [of : Nat, rows : SUBSET Nat]]]
        /\ \A n \in Stamps : files'["shm"][n].rows = {}
        /\ \A kind \in FileKinds : \A n \in Stamps :
              /\ files'[kind][n].of = files[kind][n].of
              /\ files[kind][n] = NotThere => files'[kind][n] = NotThere
    BY <1>1, <1>w DEF RestoreTypeOK, FilesKnown
  <2>2. UNCHANGED <<restore, databases, current, crossed, unrolled>>
    BY <1>u
  <2>3. ~crossed => \A x \in Nat : x \in expected' <=>
                       \E kind \in FileKinds, n \in Stamps : files'[kind][n].of = current /\ x \in files'[kind][n].rows
    BY <1>1, <1>u, <1>w DEF RowsAreKept
  <2>4. \A q \in Users : holding'[q] \subseteq holding[q]
    BY <1>h
  <2>5. FilesKnown' /\ Way' /\ PathIsClear' /\ RowsAreKept' /\ FilesTogether'
    BY ONLY FilesStay, RestoreInv, <2>1, <2>2, <2>3, <2>4
  <2>6. RestoreTypeOK'
    BY <1>w, <1>u, <1>h, <2>1 DEF RestoreTypeOK
  <2>7. BackupsAreRedacted'
    BY <1>w, <1>u DEF BackupsAreRedacted
  <2> QED BY <2>5, <2>6, <2>7 DEF RestoreInv
<1>2. CASE files' # files
  <2>1. PICK g \in Nat \ {0} :
          /\ g = At("db").of /\ g \in holding[p] /\ \A q \in Users \ {p} : g \notin holding[q]
          /\ files' = [LogCopied(g) EXCEPT !["wal"][0] = NotThere, !["shm"][0] = NotThere]
    <3>1. At("db").of \in holding[p]
      BY <1>2 DEF CloseDatabase
    <3>2. At("db").of \in 1..MaxDatabases
      BY <3>1, <1>w DEF RestoreTypeOK
    <3>3. At("db").of \in Nat \ {0}
      BY <3>2, RestoreAssumption
    <3>4. /\ \A q \in Users \ {p} : At("db").of \notin holding[q]
          /\ files' = [LogCopied(At("db").of) EXCEPT !["wal"][0] = NotThere, !["shm"][0] = NotThere]
      BY <1>2 DEF CloseDatabase
    <3> QED BY <3>1, <3>3, <3>4
  <2>2. /\ LogCopied(g) \in [FileKinds -> [Stamps -> [of : Nat, rows : SUBSET Nat]]]
        /\ \A kind \in FileKinds : \A n \in Stamps :
              /\ LogCopied(g)[kind][n].of = files[kind][n].of
              /\ files[kind][n] = NotThere => LogCopied(g)[kind][n] = NotThere
              /\ files[kind][n].of # g => LogCopied(g)[kind][n] = files[kind][n]
              /\ files[kind][n].of = g /\ kind # "db" => LogCopied(g)[kind][n].rows = {}
        /\ \A n \in Stamps : LogCopied(g)["shm"][n].rows = {}
    BY LogGoesThere
  <2>3. /\ files' \in [FileKinds -> [Stamps -> [of : Nat, rows : SUBSET Nat]]]
        /\ files'["wal"][0] = NotThere /\ files'["shm"][0] = NotThere
        /\ files'["db"][0] = LogCopied(g)["db"][0]
        /\ \A kind \in FileKinds : \A n \in Stamps \ {0} : files'[kind][n] = LogCopied(g)[kind][n]
    <3>1. files' = [LogCopied(g) EXCEPT !["wal"][0] = NotThere, !["shm"][0] = NotThere]
      BY <2>1
    <3>2. LogCopied(g) \in [FileKinds -> [Stamps -> [of : Nat, rows : SUBSET Nat]]]
      BY <2>2
    <3>3. files' \in [FileKinds -> [Stamps -> [of : Nat, rows : SUBSET Nat]]]
      BY <3>1, <3>2, <1>w
    <3>4. /\ files'["wal"][0] = NotThere /\ files'["shm"][0] = NotThere
          /\ files'["db"][0] = LogCopied(g)["db"][0]
          /\ \A kind \in FileKinds : \A n \in Stamps \ {0} : files'[kind][n] = LogCopied(g)[kind][n]
      BY <3>1, <3>2, <1>w
    <3> QED BY <3>3, <3>4
  <2>4. ASSUME NEW kind \in FileKinds, NEW n \in Stamps
        PROVE  /\ \/ files'[kind][n] = NotThere
                  \/ files'[kind][n].of = files[kind][n].of /\ files'[kind][n] = LogCopied(g)[kind][n]
               /\ files[kind][n] = NotThere => files'[kind][n] = NotThere
               /\ files'[kind][n].of = 0 => files'[kind][n] = NotThere
               /\ files[kind][n].of <= databases /\ (n > restore.stamp => files[kind][n] = NotThere)
    <3>1. /\ files[kind][n].of <= databases /\ (n > restore.stamp => files[kind][n] = NotThere)
          /\ files[kind][n].of = 0 => files[kind][n] = NotThere
      BY <1>w DEF FilesKnown
    <3>2. /\ LogCopied(g)[kind][n].of = files[kind][n].of
          /\ files[kind][n] = NotThere => LogCopied(g)[kind][n] = NotThere
      BY <2>2
    <3>3. files'[kind][n] = LogCopied(g)[kind][n] \/ files'[kind][n] = NotThere
      BY <2>3 DEF FileKinds
    <3> QED BY <3>1, <3>2, <3>3
  <2>5. FilesKnown'
    <3>1. ASSUME NEW kind \in FileKinds, NEW n \in Stamps
          PROVE  /\ files'[kind][n].of <= databases'
                 /\ files'[kind][n].of = 0 => files'[kind][n] = NotThere
                 /\ n > restore'.stamp => files'[kind][n] = NotThere
      BY <2>4, <1>u, <1>w
    <3>2. ASSUME NEW n \in Stamps
          PROVE  files'["shm"][n].rows = {}
      <4>1. files'["shm"][n] = NotThere \/ files'["shm"][n] = LogCopied(g)["shm"][n]
        BY <2>4, <1>w
      <4> QED BY <4>1, <2>2, <1>w
    <3>3. \A q \in Users : \A h \in holding'[q] : h <= databases'
      BY <1>w, <1>u, <1>h DEF FilesKnown
    <3> QED BY <3>1, <3>2, <3>3 DEF FilesKnown
  <2>6. Way'
    <3>1. restore.stamp \in Stamps /\ restore.todo \subseteq FileKinds
      BY <1>w DEF RestoreTypeOK
    <3>2. \A kind \in FileKinds :
            /\ files[kind][restore.stamp] = NotThere => files'[kind][restore.stamp] = NotThere
            /\ files'[kind][restore.stamp].of \in {0, files[kind][restore.stamp].of}
      BY <2>4, <3>1, <1>w
    <3> QED BY <1>w, <1>u, <3>1, <3>2 DEF Way
  <2>7. PathIsClear'
    <3> SUFFICES ASSUME ~crossed PROVE PathIsClear'
      BY <1>u DEF PathIsClear
    <3>1. /\ \A kind \in FileKinds : At(kind).of \in {0, current}
          /\ restore.step \in {"moving", "replacing"} => \A kind \in FileKinds \ restore.todo : At(kind) = NotThere
          /\ restore.step = "rolling back" => \A kind \in restore.moved : At(kind) = NotThere
          /\ Moving /\ Is(At("db")) => restore.moved = {}
          /\ Moving => \A kind \in FileKinds : files[kind][restore.stamp].of \in {0, current}
      BY <1>w DEF PathIsClear
    <3>2. \A kind \in FileKinds : /\ At(kind)'.of \in {0, At(kind).of}
                                  /\ At(kind) = NotThere => At(kind)' = NotThere
      BY <2>4, <1>w DEF At
    <3>3. restore.stamp \in Stamps /\ restore.todo \subseteq FileKinds /\ restore.moved \subseteq FileKinds
      BY <1>w DEF RestoreTypeOK
    <3>4. \A kind \in FileKinds : files'[kind][restore.stamp].of \in {0, files[kind][restore.stamp].of}
      BY <2>4, <3>3, <1>w
    <3>5. Moving' = Moving
      BY <1>u DEF Moving
    <3>6. \A kind \in FileKinds : At(kind)'.of \in {0, current'}
      BY <3>1, <3>2, <1>u
    <3>7. restore'.step \in {"moving", "replacing"} => \A kind \in FileKinds \ restore'.todo : At(kind)' = NotThere
      BY <3>1, <3>2, <1>u
    <3>8. restore'.step = "rolling back" => \A kind \in restore'.moved : At(kind)' = NotThere
      BY <3>1, <3>2, <3>3, <1>u
    <3>9. Moving' /\ Is(At("db"))' => restore'.moved = {}
      BY <3>1, <3>2, <3>5, <1>u, <1>w DEF Is
    <3>10. Moving' => \A kind \in FileKinds : files'[kind][restore'.stamp].of \in {0, current'}
      BY <3>1, <3>4, <3>5, <1>u
    <3> QED BY <3>6, <3>7, <3>8, <3>9, <3>10 DEF PathIsClear
  <2>c. ~crossed => g = current
    BY <1>w, <2>1 DEF PathIsClear
  <2>8. RowsAreKept'
    <3> SUFFICES ASSUME ~crossed PROVE RowsAreKept'
      BY <1>u DEF RowsAreKept
    <3>1. FilesOf("db", g) # {}
      BY <2>1, <1>w DEF FilesOf, At
    <3>2. ASSUME NEW x \in Nat
          PROVE  x \in expected' <=>
                  \E kind \in FileKinds, n \in Stamps : files'[kind][n].of = current' /\ x \in files'[kind][n].rows
      <4>1. x \in expected <=> \E kind \in FileKinds, n \in Stamps :
                LogCopied(g)[kind][n].of = current /\ x \in LogCopied(g)[kind][n].rows
        <5>1. x \in expected <=> \E kind \in FileKinds, n \in Stamps :
                                    files[kind][n].of = current /\ x \in files[kind][n].rows
          BY <1>w DEF RowsAreKept
        <5> QED BY <5>1, <3>1, RowsGoAlong
      <4>2. ASSUME NEW kind \in FileKinds, NEW n \in Stamps
            PROVE  (LogCopied(g)[kind][n].of = current /\ x \in LogCopied(g)[kind][n].rows)
                     <=> (files'[kind][n].of = current /\ x \in files'[kind][n].rows)
        <5>1. CASE files'[kind][n] = LogCopied(g)[kind][n]
          BY <5>1
        <5>2. CASE files'[kind][n] # LogCopied(g)[kind][n]
          <6>1. n = 0 /\ kind \in {"wal", "shm"} /\ files'[kind][n] = NotThere
            BY <5>2, <2>3 DEF FileKinds
          <6>2. LogCopied(g)[kind][n].of = current => LogCopied(g)[kind][n].rows = {}
            BY <6>1, <2>2, <2>c
          <6> QED BY <6>1, <6>2, <1>w
        <5> QED BY <5>1, <5>2
      <4> QED BY <4>1, <4>2, <1>u
    <3>3. \A q \in Users : current' \notin holding'[q]
      BY <2>1, <2>c, <1>h, <1>u
    <3> QED BY <3>2, <3>3 DEF RowsAreKept
  <2>9. FilesTogether'
    <3>1. ASSUME ~crossed, ~unrolled, Is(At("db"))' \/ (Moving /\ "db" \in restore.moved),
                 NEW kind \in FileKinds, NEW n \in Stamps \ {0}, files'[kind][n].of = current
          PROVE  Moving /\ n = restore.stamp /\ kind \in restore.moved
      <4>1. files[kind][n].of = current
        BY <3>1, <2>4, <1>w
      <4>2. Is(At("db"))
        BY <2>1, <1>w DEF Is
      <4> QED BY <3>1, <4>1, <4>2, <1>w DEF FilesTogether
    <3>2. Moving' = Moving
      BY <1>u DEF Moving
    <3> QED BY <1>u, <3>1, <3>2 DEF FilesTogether
  <2>10. RestoreTypeOK'
    BY <1>w, <1>u, <1>h, <2>3 DEF RestoreTypeOK
  <2>11. BackupsAreRedacted'
    BY <1>w, <1>u DEF BackupsAreRedacted
  <2> QED BY <2>5, <2>6, <2>7, <2>8, <2>9, <2>10, <2>11 DEF RestoreInv
<1> QED BY <1>1, <1>2

\* Who dies while redacting leaves a backup with secrets, and leaked says so.
LEMMA UserDiesKeeps ==
  ASSUME NEW p \in Users, RestoreInv, UserDies(p)
  PROVE  RestoreInv'
<1>w. /\ RestoreTypeOK /\ BackupsAreRedacted /\ RowsAreKept /\ FilesKnown
  BY WhatIsKnown
<1>u. /\ UNCHANGED <<files, restore, backup, databases, captures, current, expected, crossed, unrolled>>
      /\ holding' = [holding EXCEPT ![p] = {}] /\ troubles' = troubles + 1
      /\ redacting' = redacting \ {p} /\ leaked' = (leaked \/ p \in redacting)
  BY DEF UserDies, Trouble, ghosts
<1>h. /\ holding' \in [Users -> SUBSET (1..MaxDatabases)] /\ \A q \in Users : holding'[q] \subseteq holding[q]
  BY <1>u, <1>w DEF RestoreTypeOK
<1>1. /\ files' \in [FileKinds -> [Stamps -> [of : Nat, rows : SUBSET Nat]]]
      /\ \A n \in Stamps : files'["shm"][n].rows = {}
      /\ \A kind \in FileKinds : \A n \in Stamps :
              /\ files'[kind][n].of = files[kind][n].of
              /\ files[kind][n] = NotThere => files'[kind][n] = NotThere
  BY <1>u, <1>w DEF RestoreTypeOK, FilesKnown
<1>2. UNCHANGED <<restore, databases, current, crossed, unrolled>>
  BY <1>u
<1>3. ~crossed => \A x \in Nat : x \in expected' <=>
                       \E kind \in FileKinds, n \in Stamps : files'[kind][n].of = current /\ x \in files'[kind][n].rows
  BY <1>u, <1>w DEF RowsAreKept
<1>4. \A q \in Users : holding'[q] \subseteq holding[q]
  BY <1>h
<1>5. FilesKnown' /\ Way' /\ PathIsClear' /\ RowsAreKept' /\ FilesTogether'
  BY ONLY FilesStay, RestoreInv, <1>1, <1>2, <1>3, <1>4
<1>6. RestoreTypeOK'
  <2>1. leaked' \in BOOLEAN
    <3>1. leaked \in BOOLEAN
      BY <1>w DEF RestoreTypeOK
    <3> QED BY <3>1, <1>u
  <2>2. troubles' \in Nat /\ redacting' \subseteq Users
    <3>1. troubles \in Nat /\ redacting \subseteq Users
      BY <1>w DEF RestoreTypeOK
    <3> QED BY <3>1, <1>u
  <2>3. /\ restore' \in [step : {"none", "moving", "replacing", "rolling back", "cleaning"}, stamp : Stamps,
                         copy : SUBSET Nat, todo : SUBSET FileKinds, moved : SUBSET FileKinds]
        /\ backup' \in [rows : SUBSET Nat, valid : BOOLEAN, secret : BOOLEAN]
        /\ databases' \in 1..MaxDatabases /\ current' \in 1..databases'
        /\ captures' \in Nat /\ expected' \subseteq Nat /\ crossed' \in BOOLEAN /\ unrolled' \in BOOLEAN
    BY <1>w, <1>u DEF RestoreTypeOK
  <2> QED BY <1>h, <1>1, <2>1, <2>2, <2>3 DEF RestoreTypeOK
<1>7. BackupsAreRedacted'
  <2>1. CASE p \in redacting
    <3>1. leaked'
      BY <2>1, <1>u
    <3> QED BY <3>1 DEF BackupsAreRedacted
  <2>2. CASE p \notin redacting
    <3>1. redacting' = redacting /\ (leaked => leaked')
      BY <2>2, <1>u
    <3> QED BY <3>1, <1>w, <1>u DEF BackupsAreRedacted
  <2> QED BY <2>1, <2>2
<1> QED BY <1>5, <1>6, <1>7 DEF RestoreInv

\* A backup reads what is committed; only its redaction, or the loss of it, ends it.
LEMMA BackupKeeps ==
  ASSUME NEW p \in Users, RestoreInv, BackupCopies(p) \/ BackupRedacted(p) \/ RedactionFails(p)
  PROVE  RestoreInv'
<1>w. /\ RestoreTypeOK /\ BackupsAreRedacted /\ RowsAreKept /\ FilesKnown
      /\ 0 \in Stamps /\ "db" \in FileKinds /\ "wal" \in FileKinds
      /\ \A kind \in FileKinds : \A n \in Stamps : files[kind][n].rows \subseteq Nat
  BY WhatIsKnown
<1>u. /\ UNCHANGED <<files, restore, holding, databases, captures, current, expected, crossed, unrolled>>
  BY DEF BackupCopies, BackupRedacted, RedactionFails, ghosts, excuses
<1>1. /\ files' \in [FileKinds -> [Stamps -> [of : Nat, rows : SUBSET Nat]]]
      /\ \A n \in Stamps : files'["shm"][n].rows = {}
      /\ \A kind \in FileKinds : \A n \in Stamps :
              /\ files'[kind][n].of = files[kind][n].of
              /\ files[kind][n] = NotThere => files'[kind][n] = NotThere
  BY <1>u, <1>w DEF RestoreTypeOK, FilesKnown
<1>2. UNCHANGED <<restore, databases, current, crossed, unrolled>>
  BY <1>u
<1>3. ~crossed => \A x \in Nat : x \in expected' <=>
                       \E kind \in FileKinds, n \in Stamps : files'[kind][n].of = current /\ x \in files'[kind][n].rows
  BY <1>u, <1>w DEF RowsAreKept
<1>4. \A q \in Users : holding'[q] \subseteq holding[q]
  BY <1>u
<1>5. FilesKnown' /\ Way' /\ PathIsClear' /\ RowsAreKept' /\ FilesTogether'
  BY ONLY FilesStay, RestoreInv, <1>1, <1>2, <1>3, <1>4
<1>6. /\ backup' \in [rows : SUBSET Nat, valid : BOOLEAN, secret : BOOLEAN]
      /\ redacting' \subseteq Users /\ troubles' \in Nat /\ leaked' \in BOOLEAN
      /\ BackupsAreRedacted'
  <2>t. /\ backup \in [rows : SUBSET Nat, valid : BOOLEAN, secret : BOOLEAN]
        /\ redacting \subseteq Users /\ troubles \in Nat /\ leaked \in BOOLEAN
    BY <1>w DEF RestoreTypeOK
  <2>1. CASE BackupCopies(p)
    <3>1. At("db").rows \cup At("wal").rows \in SUBSET Nat
      BY <1>w DEF At
    <3>2. /\ backup' = [rows |-> At("db").rows \cup At("wal").rows, valid |-> TRUE, secret |-> TRUE]
          /\ redacting' = redacting \cup {p} /\ troubles' = troubles /\ leaked' = leaked
      BY <2>1 DEF BackupCopies, excuses
    <3> HIDE DEF At
    <3>3. backup' \in [rows : SUBSET Nat, valid : BOOLEAN, secret : BOOLEAN]
      BY <3>1, <3>2
    <3> QED BY <3>2, <3>3, <2>t DEF BackupsAreRedacted
  <2>2. CASE BackupRedacted(p)
    BY <2>2, <2>t DEF BackupRedacted, BackupsAreRedacted, excuses
  <2>3. CASE RedactionFails(p)
    <3>1. /\ redacting' = redacting \ {p} /\ troubles' = troubles + 1
          /\ \/ backup' = [backup EXCEPT !.valid = FALSE, !.secret = FALSE] /\ leaked' = leaked
             \/ leaked' = TRUE /\ backup' = backup
      BY <2>3 DEF RedactionFails, Trouble
    <3>2. CASE backup' = [backup EXCEPT !.valid = FALSE, !.secret = FALSE] /\ leaked' = leaked
      <4>1. backup' \in [rows : SUBSET Nat, valid : BOOLEAN, secret : BOOLEAN] /\ backup'.secret = FALSE
        BY <3>2, <2>t
      <4> QED BY <3>1, <3>2, <4>1, <2>t DEF BackupsAreRedacted
    <3>3. CASE leaked' = TRUE /\ backup' = backup
      <4>1. BackupsAreRedacted'
        BY <3>3 DEF BackupsAreRedacted
      <4> QED BY <3>1, <3>3, <4>1, <2>t
    <3> QED BY <3>1, <3>2, <3>3
  <2> QED BY <2>1, <2>2, <2>3
<1>7. RestoreTypeOK'
  BY <1>w, <1>u, <1>1, <1>6 DEF RestoreTypeOK
<1> QED BY <1>5, <1>6, <1>7 DEF RestoreInv
\* Steps of a restore leave what the others do alone.
LEMMA OthersRest ==
  ASSUME RestoreInv, UNCHANGED <<holding, backup, redacting, captures, crossed, leaked>>,
         files' \in [FileKinds -> [Stamps -> [of : Nat, rows : SUBSET Nat]]],
         restore' \in [step : {"none", "moving", "replacing", "rolling back", "cleaning"}, stamp : Stamps,
                       copy : SUBSET Nat, todo : SUBSET FileKinds, moved : SUBSET FileKinds],
         databases' \in 1..MaxDatabases, current' \in 1..databases', troubles' \in Nat,
         expected' \subseteq Nat, unrolled' \in BOOLEAN
  PROVE  RestoreTypeOK' /\ BackupsAreRedacted'
<1>1. RestoreTypeOK /\ BackupsAreRedacted
  BY WhatIsKnown
<1>2. RestoreTypeOK'
  BY <1>1 DEF RestoreTypeOK
<1>3. BackupsAreRedacted'
  BY <1>1 DEF BackupsAreRedacted
<1> QED BY <1>2, <1>3

\* Nothing is under the new stamp yet.
LEMMA RestoreBeginsKeeps ==
  ASSUME RestoreInv, RestoreBegins
  PROVE  RestoreInv'
<1>w. /\ RestoreTypeOK /\ BackupsAreRedacted /\ RowsAreKept /\ FilesKnown /\ Way /\ PathIsClear /\ FilesTogether
      /\ 0 \in Stamps /\ "db" \in FileKinds /\ Stamps \subseteq Nat /\ NotThere.of = 0
      /\ MaxRestores \in Nat
  BY WhatIsKnown
<1>t. /\ files \in [FileKinds -> [Stamps -> [of : Nat, rows : SUBSET Nat]]]
      /\ restore \in [step : {"none", "moving", "replacing", "rolling back", "cleaning"}, stamp : Stamps,
                      copy : SUBSET Nat, todo : SUBSET FileKinds, moved : SUBSET FileKinds]
      /\ backup \in [rows : SUBSET Nat, valid : BOOLEAN, secret : BOOLEAN]
      /\ databases \in 1..MaxDatabases /\ current \in 1..databases /\ troubles \in Nat
      /\ expected \subseteq Nat /\ unrolled \in BOOLEAN
  BY <1>w DEF RestoreTypeOK
<1>u. /\ UNCHANGED <<files, holding, backup, redacting, captures, databases, current, expected>>
      /\ UNCHANGED <<crossed, unrolled, leaked>>
      /\ restore.step = "none" /\ restore.stamp < MaxRestores
  BY DEF RestoreBegins, aside, ghosts, excuses
<1>1. /\ restore' \in [step : {"none", "moving", "replacing", "rolling back", "cleaning"}, stamp : Stamps,
                       copy : SUBSET Nat, todo : SUBSET FileKinds, moved : SUBSET FileKinds]
      /\ restore'.stamp = restore.stamp + 1 /\ restore'.stamp # 0 /\ restore'.moved = {}
      /\ \/ restore'.step = "none"
         \/ restore'.step = "moving" /\ restore'.todo = FileKinds
      /\ troubles' \in Nat
  <2>1. restore.stamp + 1 \in Stamps /\ restore.stamp + 1 # 0 /\ restore.stamp \in Nat
    <3>1. restore.stamp \in 0..MaxRestores
      BY <1>t DEF Stamps
    <3> QED BY <3>1, <1>u, <1>w DEF Stamps
  <2>2. troubles' \in Nat
    <3>1. troubles' = troubles \/ troubles' = troubles + 1
      BY DEF RestoreBegins, Trouble
    <3>2. troubles \in Nat
      BY <1>t
    <3> QED BY <3>1, <3>2
  <2>3. CASE restore' = [step |-> "moving", stamp |-> restore.stamp + 1, copy |-> backup.rows,
                         todo |-> FileKinds, moved |-> {}]
    BY <2>1, <2>2, <2>3, <1>t
  <2>4. CASE restore' = [Over EXCEPT !.stamp = @ + 1]
    <3>1. restore' = [step |-> "none", stamp |-> restore.stamp + 1, copy |-> {}, todo |-> {}, moved |-> {}]
      BY <2>4 DEF Over, AtRest
    <3> QED BY <3>1, <2>1, <2>2
  <2> QED BY <2>3, <2>4 DEF RestoreBegins
<1>s. restore.stamp \in Stamps /\ restore.stamp \in Nat /\ restore'.stamp = restore.stamp + 1
      /\ restore'.stamp \in Stamps
  BY <1>t, <1>w, <1>1
<1>g. \A n \in Stamps : n > restore'.stamp => n > restore.stamp
  <2> SUFFICES ASSUME NEW n \in Stamps, n > restore'.stamp PROVE n > restore.stamp
    OBVIOUS
  <2>1. n \in Nat
    BY <1>w
  <2> QED BY <1>s, <2>1
<1>n. \A kind \in FileKinds : files[kind][restore'.stamp] = NotThere
  <2>1. restore'.stamp \in Stamps /\ restore'.stamp > restore.stamp
    BY <1>s
  <2> QED BY <2>1, <1>w DEF FilesKnown
<1>2. FilesKnown'
  <2>1. ASSUME NEW kind \in FileKinds, NEW n \in Stamps
        PROVE  /\ files'[kind][n].of <= databases'
               /\ files'[kind][n].of = 0 => files'[kind][n] = NotThere
               /\ n > restore'.stamp => files'[kind][n] = NotThere
    <3>1. /\ files[kind][n].of <= databases
          /\ files[kind][n].of = 0 => files[kind][n] = NotThere
          /\ n > restore.stamp => files[kind][n] = NotThere
      BY <1>w DEF FilesKnown
    <3>2. n > restore'.stamp => n > restore.stamp
      BY <1>g
    <3> QED BY <3>1, <3>2, <1>u
  <2> QED BY <2>1, <1>w, <1>u DEF FilesKnown
<1>3. Way'
  BY <1>1, <1>n, <1>u DEF Way
<1>4. PathIsClear'
  <2> SUFFICES ASSUME ~crossed PROVE PathIsClear'
    BY <1>u DEF PathIsClear
  <2>1. \A kind \in FileKinds : At(kind)'.of \in {0, current'}
    BY <1>w, <1>u DEF PathIsClear, At
  <2> QED BY <2>1, <1>1, <1>n, <1>u, <1>w DEF PathIsClear, Moving
<1>5. RowsAreKept'
  BY <1>w, <1>u DEF RowsAreKept
<1>6. FilesTogether'
  <2>1. Is(At("db"))' <=> Is(At("db"))
    BY <1>u DEF Is, At
  <2>2. ASSUME ~crossed, ~unrolled, Is(At("db")), NEW kind \in FileKinds, NEW n \in Stamps \ {0},
               files[kind][n].of = current
        PROVE  FALSE
    <3>1. ~Moving
      BY <1>u DEF Moving
    <3> QED BY <2>2, <3>1, <1>w DEF FilesTogether
  <2> QED BY <2>1, <2>2, <1>1, <1>u DEF FilesTogether
<1>7. RestoreTypeOK' /\ BackupsAreRedacted'
  <2>1. /\ files' \in [FileKinds -> [Stamps -> [of : Nat, rows : SUBSET Nat]]]
        /\ databases' \in 1..MaxDatabases /\ current' \in 1..databases'
        /\ expected' \subseteq Nat /\ unrolled' \in BOOLEAN
    BY <1>t, <1>u
  <2>2. UNCHANGED <<holding, backup, redacting, captures, crossed, leaked>>
    BY <1>u
  <2> QED BY ONLY RestoreInv, OthersRest, <2>1, <2>2, <1>1
<1> QED BY <1>2, <1>3, <1>4, <1>5, <1>6, <1>7 DEF RestoreInv

\* However a restore ends: where the database is at the path nothing of it is elsewhere.
LEMMA RestoreEndsKeeps ==
  ASSUME RestoreInv, RestoreEnds \/ RestoreDies
  PROVE  RestoreInv'
<1>w. /\ RestoreTypeOK /\ BackupsAreRedacted /\ RowsAreKept /\ FilesKnown /\ Way /\ PathIsClear /\ FilesTogether
      /\ 0 \in Stamps /\ "db" \in FileKinds /\ Stamps \subseteq Nat /\ NotThere.of = 0
  BY WhatIsKnown
<1>t. /\ files \in [FileKinds -> [Stamps -> [of : Nat, rows : SUBSET Nat]]]
      /\ restore \in [step : {"none", "moving", "replacing", "rolling back", "cleaning"}, stamp : Stamps,
                      copy : SUBSET Nat, todo : SUBSET FileKinds, moved : SUBSET FileKinds]
      /\ databases \in 1..MaxDatabases /\ current \in 1..databases /\ troubles \in Nat
      /\ expected \subseteq Nat /\ unrolled \in BOOLEAN
  BY <1>w DEF RestoreTypeOK
<1>u. /\ UNCHANGED <<files, holding, backup, redacting, captures, databases, current, expected>>
      /\ UNCHANGED <<crossed, unrolled, leaked>>
      /\ restore' = Over
  BY DEF RestoreEnds, RestoreDies, Trouble, aside, ghosts, excuses
<1>1. /\ restore' \in [step : {"none", "moving", "replacing", "rolling back", "cleaning"}, stamp : Stamps,
                       copy : SUBSET Nat, todo : SUBSET FileKinds, moved : SUBSET FileKinds]
      /\ restore'.stamp = restore.stamp /\ restore'.moved = {} /\ restore'.step = "none"
      /\ troubles' \in Nat
  <2>1. restore' = [step |-> "none", stamp |-> restore.stamp, copy |-> {}, todo |-> {}, moved |-> {}]
    BY <1>u DEF Over, AtRest
  <2>2. troubles' \in Nat
    <3>1. troubles' = troubles \/ troubles' = troubles + 1
      BY DEF RestoreEnds, RestoreDies, Trouble
    <3>2. troubles \in Nat
      BY <1>t
    <3> QED BY <3>1, <3>2
  <2> QED BY <2>1, <2>2, <1>t
<1>2. FilesKnown'
  BY <1>w, <1>u, <1>1 DEF FilesKnown
<1>3. Way'
  BY <1>1, <1>u DEF Way
<1>4. PathIsClear'
  <2> SUFFICES ASSUME ~crossed PROVE PathIsClear'
    BY <1>u DEF PathIsClear
  <2>1. \A kind \in FileKinds : At(kind)'.of \in {0, current'}
    BY <1>w, <1>u DEF PathIsClear, At
  <2> QED BY <2>1, <1>1 DEF PathIsClear, Moving
<1>5. RowsAreKept'
  BY <1>w, <1>u DEF RowsAreKept
<1>6. FilesTogether'
  <2>1. Is(At("db"))' <=> Is(At("db"))
    BY <1>u DEF Is, At
  <2>2. ASSUME ~crossed, ~unrolled, Is(At("db")), NEW kind \in FileKinds, NEW n \in Stamps \ {0},
               files[kind][n].of = current
        PROVE  FALSE
    <3>1. Moving /\ kind \in restore.moved
      BY <2>2, <1>w DEF FilesTogether
    <3>2. restore.moved = {}
      BY <2>2, <3>1, <1>w DEF PathIsClear
    <3> QED BY <3>1, <3>2
  <2> QED BY <2>1, <2>2, <1>1, <1>u DEF FilesTogether
<1>7. RestoreTypeOK' /\ BackupsAreRedacted'
  <2>1. /\ files' \in [FileKinds -> [Stamps -> [of : Nat, rows : SUBSET Nat]]]
        /\ databases' \in 1..MaxDatabases /\ current' \in 1..databases'
        /\ expected' \subseteq Nat /\ unrolled' \in BOOLEAN
    BY <1>t, <1>u
  <2>2. UNCHANGED <<holding, backup, redacting, captures, crossed, leaked>>
    BY <1>u
  <2> QED BY ONLY RestoreInv, OthersRest, <2>1, <2>2, <1>1
<1> QED BY <1>2, <1>3, <1>4, <1>5, <1>6, <1>7 DEF RestoreInv
\* A rename onto a name that is free takes the file along as it is.
LEMMA FileMoves ==
  ASSUME RestoreInv, NEW kind \in FileKinds, NEW from \in Stamps, NEW to \in Stamps, from # to,
         files[kind][to] = NotThere
  PROVE  /\ Renamed(kind, from, to) \in [FileKinds -> [Stamps -> [of : Nat, rows : SUBSET Nat]]]
         /\ Renamed(kind, from, to)[kind][from] = NotThere
         /\ Renamed(kind, from, to)[kind][to] = files[kind][from]
         /\ \A k \in FileKinds : \A n \in Stamps :
              k # kind \/ n \notin {from, to} => Renamed(kind, from, to)[k][n] = files[k][n]
<1>w. /\ RestoreTypeOK /\ "wal" \in FileKinds
      /\ NotThere.of = 0 /\ NotThere.rows = {} /\ NotThere \in [of : Nat, rows : SUBSET Nat]
  BY WhatIsKnown
<1>t. files \in [FileKinds -> [Stamps -> [of : Nat, rows : SUBSET Nat]]]
  BY <1>w DEF RestoreTypeOK
<1> DEFINE after == Renamed(kind, from, to)
<1>1. after = [files EXCEPT ![kind][to] = files[kind][from], ![kind][from] = NotThere]
  BY DEF Renamed
<1> HIDE DEF after
<1>2. after \in [FileKinds -> [Stamps -> [of : Nat, rows : SUBSET Nat]]]
  <2> DEFINE Files == [of : Nat, rows : SUBSET Nat]
  <2>1. files \in [FileKinds -> [Stamps -> Files]] /\ NotThere \in Files
    BY <1>t, <1>w
  <2> HIDE DEF Files
  <2>2. after \in [FileKinds -> [Stamps -> Files]]
    BY <1>1, <2>1
  <2> QED BY <2>2 DEF Files
<1>3. /\ after[kind][from] = NotThere /\ after[kind][to] = files[kind][from]
      /\ \A k \in FileKinds : \A n \in Stamps : k # kind \/ n \notin {from, to} => after[k][n] = files[k][n]
  BY <1>1, <1>t, <1>w
<1> QED BY <1>2, <1>3 DEF after

\* And its rows with it.
LEMMA RowsMoveAlong ==
  ASSUME RestoreInv, NEW kind \in FileKinds, NEW from \in Stamps, NEW to \in Stamps, from # to,
         files[kind][to] = NotThere, files' = Renamed(kind, from, to), NEW g \in Nat \ {0}
  PROVE  /\ \A x \in Nat :
              (\E k \in FileKinds, n \in Stamps : files[k][n].of = g /\ x \in files[k][n].rows)
                <=> \E k \in FileKinds, n \in Stamps : files'[k][n].of = g /\ x \in files'[k][n].rows
         /\ (\E n \in Stamps : files["wal"][n].of = g) => \E n \in Stamps : files'["wal"][n].of = g
<1>w. "wal" \in FileKinds /\ NotThere.of = 0
  BY WhatIsKnown
<1>3. /\ files'[kind][from] = NotThere /\ files'[kind][to] = files[kind][from]
      /\ \A k \in FileKinds : \A n \in Stamps : k # kind \/ n \notin {from, to} => files'[k][n] = files[k][n]
  BY FileMoves
<1>4. ASSUME NEW k \in FileKinds, NEW n \in Stamps, files[k][n].of = g
      PROVE  \E m \in Stamps : files'[k][m] = files[k][n]
  <2>1. CASE k = kind /\ n = from
    BY <2>1, <1>3
  <2>2. CASE k # kind \/ n # from
    BY <2>2, <1>3, <1>4, <1>w
  <2> QED BY <2>1, <2>2
<1>5. ASSUME NEW k \in FileKinds, NEW n \in Stamps, files'[k][n].of = g
      PROVE  \E m \in Stamps : files[k][m] = files'[k][n]
  <2>1. CASE k = kind /\ n = to
    BY <2>1, <1>3
  <2>2. CASE k # kind \/ n # to
    BY <2>2, <1>3, <1>5, <1>w
  <2> QED BY <2>1, <2>2
<1>6. ASSUME NEW x \in Nat
      PROVE  (\E k \in FileKinds, n \in Stamps : files[k][n].of = g /\ x \in files[k][n].rows)
                <=> \E k \in FileKinds, n \in Stamps : files'[k][n].of = g /\ x \in files'[k][n].rows
  <2>1. ASSUME NEW k \in FileKinds, NEW n \in Stamps, files[k][n].of = g, x \in files[k][n].rows
        PROVE  \E l \in FileKinds, m \in Stamps : files'[l][m].of = g /\ x \in files'[l][m].rows
    <3>1. PICK m \in Stamps : files'[k][m] = files[k][n]
      BY <2>1, <1>4
    <3> QED BY <3>1, <2>1
  <2>2. ASSUME NEW k \in FileKinds, NEW n \in Stamps, files'[k][n].of = g, x \in files'[k][n].rows
        PROVE  \E l \in FileKinds, m \in Stamps : files[l][m].of = g /\ x \in files[l][m].rows
    <3>1. PICK m \in Stamps : files[k][m] = files'[k][n]
      BY <2>2, <1>5
    <3> QED BY <3>1, <2>2
  <2> QED BY <2>1, <2>2
<1>7. ASSUME NEW n \in Stamps, files["wal"][n].of = g
      PROVE  \E m \in Stamps : files'["wal"][m].of = g
  <2>1. PICK m \in Stamps : files'["wal"][m] = files["wal"][n]
    BY <1>7, <1>4, <1>w
  <2> QED BY <2>1, <1>7
<1> QED BY <1>6, <1>7

\* The database goes first: from then on nothing is at the path but what is still to move.
LEMMA MoveAsideKeeps ==
  ASSUME RestoreInv, MoveAside
  PROVE  RestoreInv'
<1>w. /\ RestoreTypeOK /\ BackupsAreRedacted /\ RowsAreKept /\ FilesKnown /\ Way /\ PathIsClear /\ FilesTogether
      /\ 0 \in Stamps /\ "db" \in FileKinds /\ "shm" \in FileKinds /\ Stamps \subseteq Nat /\ NotThere.of = 0
      /\ NotThere.rows = {} /\ databases \in Nat /\ current \in Nat \ {0}
  BY WhatIsKnown
<1>t. /\ files \in [FileKinds -> [Stamps -> [of : Nat, rows : SUBSET Nat]]]
      /\ restore \in [step : {"none", "moving", "replacing", "rolling back", "cleaning"}, stamp : Stamps,
                      copy : SUBSET Nat, todo : SUBSET FileKinds, moved : SUBSET FileKinds]
      /\ databases \in 1..MaxDatabases /\ current \in 1..databases /\ troubles \in Nat
      /\ expected \subseteq Nat /\ unrolled \in BOOLEAN
  BY <1>w DEF RestoreTypeOK
<1>u. /\ UNCHANGED <<holding, backup, redacting, captures, databases, troubles, current, expected>>
      /\ UNCHANGED <<crossed, unrolled, leaked>>
      /\ restore.step = "moving"
  BY DEF MoveAside, aside, ghosts, excuses
<1>s. restore.stamp \in Stamps /\ restore.stamp # 0
  BY <1>t, <1>u, <1>w DEF Way
<1>1. PICK kind \in restore.todo :
        /\ \/ Is(At(kind)) /\ files' = Renamed(kind, 0, restore.stamp) /\ restore'.moved = restore.moved \cup {kind}
           \/ ~Is(At(kind)) /\ files' = files /\ restore'.moved = restore.moved
        /\ restore'.todo = restore.todo \ {kind} /\ restore'.stamp = restore.stamp
        /\ restore'.step = IF restore.todo = {kind} THEN "replacing" ELSE "moving"
        /\ restore' \in [step : {"none", "moving", "replacing", "rolling back", "cleaning"}, stamp : Stamps,
                         copy : SUBSET Nat, todo : SUBSET FileKinds, moved : SUBSET FileKinds]
        /\ kind = IF "db" \in restore.todo THEN "db" ELSE IF "wal" \in restore.todo THEN "wal" ELSE "shm"
  <2> DEFINE kind == FirstOf(restore.todo)
  <2>1. restore.todo \in {FileKinds, {"wal", "shm"}, {"shm"}}
    BY <1>w, <1>u DEF Way
  <2>2. /\ kind \in restore.todo
        /\ kind = IF "db" \in restore.todo THEN "db" ELSE IF "wal" \in restore.todo THEN "wal" ELSE "shm"
    BY <2>1, FirstOfThem DEF FileKinds
  <2>3. /\ files' = IF Is(At(kind)) THEN Renamed(kind, 0, restore.stamp) ELSE files
        /\ restore' = [restore EXCEPT !.todo = @ \ {kind},
                                      !.moved = IF Is(At(kind)) THEN @ \cup {kind} ELSE @,
                                      !.step = IF restore.todo = {kind} THEN "replacing" ELSE @]
    BY DEF MoveAside
  <2> HIDE DEF kind
  <2>4. kind \in FileKinds
    BY <2>2, <1>t
  <2>5. restore' \in [step : {"none", "moving", "replacing", "rolling back", "cleaning"}, stamp : Stamps,
                         copy : SUBSET Nat, todo : SUBSET FileKinds, moved : SUBSET FileKinds]
    BY <2>3, <2>4, <1>t
  <2>6. /\ restore'.todo = restore.todo \ {kind} /\ restore'.stamp = restore.stamp
        /\ restore'.step = IF restore.todo = {kind} THEN "replacing" ELSE "moving"
        /\ restore'.moved = IF Is(At(kind)) THEN restore.moved \cup {kind} ELSE restore.moved
    BY <2>3, <1>t, <1>u
  <2> QED BY <2>2, <2>3, <2>5, <2>6
<1>q. /\ restore'.todo = restore.todo \ {kind} /\ restore'.stamp = restore.stamp
      /\ restore'.step \in {"replacing", "moving"}
  BY <1>1
<1>k. kind \in FileKinds /\ files[kind][restore.stamp] = NotThere /\ kind \notin restore.moved
  BY <1>1, <1>w, <1>u, <1>t DEF Way
<1>2. /\ files' \in [FileKinds -> [Stamps -> [of : Nat, rows : SUBSET Nat]]]
      /\ \A k \in FileKinds : \A n \in Stamps : k # kind \/ n \notin {0, restore.stamp} => files'[k][n] = files[k][n]
      /\ files'[kind][0] = NotThere /\ files'[kind][restore.stamp] = files[kind][0]
      /\ \A x \in Nat :
              (\E k \in FileKinds, n \in Stamps : files[k][n].of = current /\ x \in files[k][n].rows)
                <=> \E k \in FileKinds, n \in Stamps : files'[k][n].of = current /\ x \in files'[k][n].rows
      /\ (\E n \in Stamps : files["wal"][n].of = current) => \E n \in Stamps : files'["wal"][n].of = current
  <2>1. CASE files' = Renamed(kind, 0, restore.stamp)
    <3>1. /\ kind \in FileKinds /\ 0 \in Stamps /\ restore.stamp \in Stamps /\ 0 # restore.stamp
          /\ files[kind][restore.stamp] = NotThere
      BY <1>k, <1>s, <1>w
    <3>2. /\ Renamed(kind, 0, restore.stamp) \in [FileKinds -> [Stamps -> [of : Nat, rows : SUBSET Nat]]]
          /\ Renamed(kind, 0, restore.stamp)[kind][0] = NotThere
          /\ Renamed(kind, 0, restore.stamp)[kind][restore.stamp] = files[kind][0]
          /\ \A k \in FileKinds : \A n \in Stamps :
               k # kind \/ n \notin {0, restore.stamp} => Renamed(kind, 0, restore.stamp)[k][n] = files[k][n]
      BY ONLY RestoreInv, <3>1, FileMoves
    <3>3. current \in Nat \ {0}
      BY <1>w
    <3>4. /\ \A x \in Nat :
              (\E k \in FileKinds, n \in Stamps : files[k][n].of = current /\ x \in files[k][n].rows)
                <=> \E k \in FileKinds, n \in Stamps : files'[k][n].of = current /\ x \in files'[k][n].rows
          /\ (\E n \in Stamps : files["wal"][n].of = current) => \E n \in Stamps : files'["wal"][n].of = current
      BY ONLY RestoreInv, <2>1, <3>1, <3>3, RowsMoveAlong
    <3> QED BY ONLY <2>1, <3>2, <3>4
  <2>2. CASE ~Is(At(kind)) /\ files' = files
    <3>1. files[kind][0] = NotThere
      BY <2>2 DEF Is, At
    <3> QED BY <2>2, <3>1, <1>k, <1>t
  <2> QED BY <1>1, <2>1, <2>2
<1>3. FilesKnown'
  <2>0. /\ \A k \in FileKinds, n \in Stamps :
             /\ files[k][n].of <= databases
             /\ files[k][n].of = 0 => files[k][n] = NotThere
             /\ n > restore.stamp => files[k][n] = NotThere
        /\ \A n \in Stamps : files["shm"][n].rows = {}
        /\ \A p \in Users : \A g \in holding[p] : g <= databases
    BY <1>w DEF FilesKnown
  <2>1. ASSUME NEW k \in FileKinds, NEW n \in Stamps
        PROVE  /\ files'[k][n].of <= databases'
               /\ files'[k][n].of = 0 => files'[k][n] = NotThere
               /\ n > restore'.stamp => files'[k][n] = NotThere
    <3>1. CASE k # kind \/ n \notin {0, restore.stamp}
      <4>1. files'[k][n] = files[k][n]
        BY <3>1, <1>2
      <4> QED BY <4>1, <2>0, <1>q, <1>u
    <3>2. CASE k = kind /\ n = 0
      <4>1. files'[k][n] = NotThere
        BY <3>2, <1>2
      <4> QED BY <4>1, <1>u, <1>w
    <3>3. CASE k = kind /\ n = restore.stamp
      <4>1. files'[k][n] = files[kind][0]
        BY <3>3, <1>2
      <4>2. n \in Nat /\ ~(n > restore'.stamp)
        BY <3>3, <1>q, <1>w
      <4>3. files[kind][0].of <= databases /\ (files[kind][0].of = 0 => files[kind][0] = NotThere)
        BY <2>0, <1>k, <1>w
      <4> QED BY <4>1, <4>2, <4>3, <1>u
    <3> QED BY <3>1, <3>2, <3>3
  <2>2. ASSUME NEW n \in Stamps
        PROVE  files'["shm"][n].rows = {}
    <3>1. files'["shm"][n] \in {files["shm"][n], files["shm"][0], NotThere}
      BY <1>2, <1>w, <1>s
    <3> QED BY <3>1, <2>0, <1>w
  <2>3. \A q \in Users : \A h \in holding'[q] : h <= databases'
    BY <2>0, <1>u
  <2> QED BY <2>1, <2>2, <2>3 DEF FilesKnown
<1>4. Way'
  <2>0. /\ restore.todo \in {FileKinds, {"wal", "shm"}, {"shm"}}
        /\ restore.moved \cap restore.todo = {}
        /\ \A k \in restore.todo : files[k][restore.stamp] = NotThere
    BY <1>w, <1>u DEF Way
  <2>1. CASE restore.todo = {kind}
    <3>1. restore'.step = "replacing" /\ restore'.todo = {} /\ restore'.stamp # 0
      BY <2>1, <1>1, <1>s
    <3> QED BY <3>1 DEF Way
  <2>2. CASE restore.todo # {kind}
    <3>1. restore'.step = "moving" /\ restore'.stamp = restore.stamp
      BY <2>2, <1>1
    <3>2. restore'.todo \in {FileKinds, {"wal", "shm"}, {"shm"}}
      BY <2>0, <2>2, <1>1 DEF FileKinds
    <3>3. restore'.moved \cap restore'.todo = {}
      BY <2>0, <1>1
    <3>4. \A k \in restore'.todo : files'[k][restore'.stamp] = NotThere
      <4> SUFFICES ASSUME NEW k \in restore'.todo PROVE files'[k][restore'.stamp] = NotThere
        OBVIOUS
      <4>1. k \in restore.todo /\ k # kind /\ k \in FileKinds
        BY <1>q, <1>t
      <4>2. files'[k][restore.stamp] = files[k][restore.stamp]
        BY <4>1, <1>2, <1>s
      <4> QED BY <4>1, <4>2, <2>0, <1>q
    <3> QED BY <3>1, <3>2, <3>3, <3>4, <1>s DEF Way
  <2> QED BY <2>1, <2>2
<1>5. PathIsClear'
  <2> SUFFICES ASSUME ~crossed PROVE PathIsClear'
    BY <1>u DEF PathIsClear
  <2>0. /\ \A k \in FileKinds : files[k][0].of \in {0, current}
        /\ \A k \in FileKinds \ restore.todo : files[k][0] = NotThere
        /\ \A k \in FileKinds : files[k][restore.stamp].of \in {0, current}
    BY <1>w, <1>u DEF PathIsClear, At, Moving
  <2>1. \A k \in FileKinds : files'[k][0].of \in {0, current'}
    BY <2>0, <1>2, <1>u, <1>w
  <2>2. \A k \in FileKinds \ restore'.todo : files'[k][0] = NotThere
    <3> SUFFICES ASSUME NEW k \in FileKinds \ restore'.todo PROVE files'[k][0] = NotThere
      OBVIOUS
    <3>1. CASE k = kind
      BY <3>1, <1>2
    <3>2. CASE k # kind
      <4>1. k \notin restore.todo /\ files'[k][0] = files[k][0]
        BY <3>2, <1>q, <1>2, <1>w
      <4> QED BY <4>1, <2>0
    <3> QED BY <3>1, <3>2
  <2>3. restore'.step # "rolling back"
    BY <1>1
  <2>4. "db" \notin restore'.todo
    BY <1>1
  <2>5. ~Is(At("db"))'
    BY <2>2, <2>4, <1>w DEF Is, At
  <2>6. \A k \in FileKinds : files'[k][restore'.stamp].of \in {0, current'}
    <3> SUFFICES ASSUME NEW k \in FileKinds PROVE files'[k][restore.stamp].of \in {0, current}
      BY <1>q, <1>u
    <3>1. CASE k = kind
      BY <3>1, <1>2, <2>0
    <3>2. CASE k # kind
      BY <3>2, <1>2, <2>0, <1>s
    <3> QED BY <3>1, <3>2
  <2> QED BY <2>1, <2>2, <2>3, <2>5, <2>6 DEF PathIsClear, At
<1>6. RowsAreKept'
  BY <1>w, <1>u, <1>2 DEF RowsAreKept
<1>7. FilesTogether'
  <2>m. Moving /\ Moving'
    BY <1>u, <1>1 DEF Moving
  <2> SUFFICES ASSUME ~crossed, ~unrolled, Is(At("db"))' \/ "db" \in restore'.moved,
                      NEW k \in FileKinds, NEW n \in Stamps \ {0}, files'[k][n].of = current
               PROVE  n = restore.stamp /\ k \in restore'.moved
    BY <2>m, <1>u, <1>1 DEF FilesTogether
  <2>1. Is(At("db")) \/ "db" \in restore.moved
    <3>1. CASE kind = "db"
      <4>1. "db" \in restore'.moved
        BY <3>1, <1>2 DEF Is, At
      <4> QED BY <3>1, <4>1, <1>1
    <3>2. CASE kind # "db"
      <4>1. files'["db"][0] = files["db"][0]
        BY <3>2, <1>2, <1>w
      <4> QED BY <3>2, <4>1, <1>1 DEF Is, At
    <3> QED BY <3>1, <3>2
  <2>2. \A l \in FileKinds : \A m \in Stamps \ {0} : files[l][m].of = current =>
          m = restore.stamp /\ l \in restore.moved
    BY <2>1, <2>m, <1>w DEF FilesTogether
  <2>3. CASE k # kind \/ n # restore.stamp
    <3>1. files'[k][n] = files[k][n]
      BY <2>3, <1>2
    <3> QED BY <3>1, <2>2, <1>1
  <2>4. CASE k = kind /\ n = restore.stamp
    <3>1. Is(At(kind))
      BY <2>4, <1>2, <1>w DEF Is, At
    <3> QED BY <2>4, <3>1, <1>1
  <2> QED BY <2>3, <2>4
<1>8. RestoreTypeOK' /\ BackupsAreRedacted'
  <2>1. /\ databases' \in 1..MaxDatabases /\ current' \in 1..databases' /\ troubles' \in Nat
        /\ expected' \subseteq Nat /\ unrolled' \in BOOLEAN
    BY <1>t, <1>u
  <2>2. UNCHANGED <<holding, backup, redacting, captures, crossed, leaked>>
    BY <1>u
  <2> QED BY ONLY RestoreInv, OthersRest, <2>1, <2>2, <1>1, <1>2
<1> QED BY <1>3, <1>4, <1>5, <1>6, <1>7, <1>8 DEF RestoreInv
\* The copy is a new database, and no file of another is at the path.
LEMMA ReplaceKeeps ==
  ASSUME RestoreInv, Replace
  PROVE  RestoreInv'
<1>w. /\ RestoreTypeOK /\ BackupsAreRedacted /\ RowsAreKept /\ FilesKnown /\ Way /\ PathIsClear /\ FilesTogether
      /\ 0 \in Stamps /\ "db" \in FileKinds /\ "wal" \in FileKinds /\ "shm" \in FileKinds
      /\ Stamps \subseteq Nat /\ NotThere.of = 0 /\ MaxDatabases \in Nat
      /\ NotThere.rows = {} /\ databases \in Nat \ {0} /\ current \in Nat \ {0}
      /\ \A kind \in FileKinds : \A n \in Stamps :
              /\ files[kind][n].of \in Nat /\ files[kind][n].of <= databases
              /\ files[kind][n].of = 0 => files[kind][n] = NotThere
  BY WhatIsKnown
<1>t. /\ files \in [FileKinds -> [Stamps -> [of : Nat, rows : SUBSET Nat]]]
      /\ restore \in [step : {"none", "moving", "replacing", "rolling back", "cleaning"}, stamp : Stamps,
                      copy : SUBSET Nat, todo : SUBSET FileKinds, moved : SUBSET FileKinds]
      /\ databases \in 1..MaxDatabases /\ troubles \in Nat /\ unrolled \in BOOLEAN
      /\ holding \in [Users -> SUBSET (1..MaxDatabases)]
  BY <1>w DEF RestoreTypeOK
<1>u. /\ UNCHANGED <<holding, backup, redacting, captures, troubles>>
      /\ UNCHANGED <<crossed, unrolled, leaked>>
      /\ restore.step = "replacing" /\ databases < MaxDatabases /\ databases' = databases + 1
      /\ files' = [files EXCEPT !["db"][0] = [of |-> databases + 1, rows |-> restore.copy]]
      /\ restore' = [restore EXCEPT !.step = "cleaning"]
      /\ current' = databases + 1 /\ expected' = restore.copy
  BY DEF Replace, aside, excuses
<1>s. restore.stamp \in Stamps /\ restore.stamp # 0 /\ restore.copy \in SUBSET Nat /\ restore.todo = {}
  BY <1>t, <1>u, <1>w DEF Way
<1>1. /\ restore' \in [step : {"none", "moving", "replacing", "rolling back", "cleaning"}, stamp : Stamps,
                       copy : SUBSET Nat, todo : SUBSET FileKinds, moved : SUBSET FileKinds]
      /\ restore'.step = "cleaning" /\ restore'.stamp = restore.stamp
  BY <1>t, <1>u
<1>2. /\ files' \in [FileKinds -> [Stamps -> [of : Nat, rows : SUBSET Nat]]]
      /\ files'["db"][0] = [of |-> databases + 1, rows |-> restore.copy]
      /\ \A k \in FileKinds : \A n \in Stamps : k # "db" \/ n # 0 => files'[k][n] = files[k][n]
  <2> DEFINE Files == [of : Nat, rows : SUBSET Nat]
             new == [of |-> databases + 1, rows |-> restore.copy]
  <2>1. files \in [FileKinds -> [Stamps -> Files]] /\ new \in Files
    <3>1. files \in [FileKinds -> [Stamps -> Files]]
      BY <1>t
    <3>2. databases + 1 \in Nat
      BY <1>w
    <3>3. new \in Files
      BY <3>2, <1>s
    <3> QED BY <3>1, <3>3
  <2>2. files' = [files EXCEPT !["db"][0] = new]
    BY <1>u
  <2> HIDE DEF Files, new
  <2>3. /\ files' \in [FileKinds -> [Stamps -> Files]] /\ files'["db"][0] = new
        /\ \A k \in FileKinds : \A n \in Stamps : k # "db" \/ n # 0 => files'[k][n] = files[k][n]
    BY <2>1, <2>2, <1>w
  <2> QED BY <2>3 DEF Files, new
<1>3. FilesKnown'
  <2>1. ASSUME NEW k \in FileKinds, NEW n \in Stamps
        PROVE  /\ files'[k][n].of <= databases'
               /\ files'[k][n].of = 0 => files'[k][n] = NotThere
               /\ n > restore'.stamp => files'[k][n] = NotThere
    <3>1. CASE k # "db" \/ n # 0
      <4>1. files'[k][n] = files[k][n]
        BY <3>1, <1>2
      <4>2. /\ files[k][n].of \in Nat /\ files[k][n].of <= databases
            /\ files[k][n].of = 0 => files[k][n] = NotThere
            /\ n > restore.stamp => files[k][n] = NotThere
        BY <1>w DEF FilesKnown
      <4>3. databases \in Nat /\ databases' = databases + 1
        BY <1>w, <1>u
      <4>4. files[k][n].of <= databases'
        BY <4>2, <4>3
      <4> QED BY <4>1, <4>2, <4>4, <1>1
    <3>2. CASE k = "db" /\ n = 0
      <4>1. files'[k][n].of = databases + 1 /\ databases' = databases + 1 /\ databases \in Nat
        BY <3>2, <1>2, <1>u, <1>w
      <4>2. ~(n > restore'.stamp)
        <5>1. restore'.stamp \in Nat /\ n = 0
          BY <3>2, <1>1, <1>s, <1>w
        <5> QED BY <5>1
      <4> QED BY <4>1, <4>2
    <3> QED BY <3>1, <3>2
  <2>2. \A n \in Stamps : files'["shm"][n].rows = {}
    BY <1>2, <1>w DEF FilesKnown
  <2>3. ASSUME NEW q \in Users, NEW h \in holding'[q]
        PROVE  h <= databases'
    <3>1. h \in 1..MaxDatabases /\ h <= databases
      BY <1>w, <1>u, <1>t DEF FilesKnown
    <3>2. h \in Nat /\ databases \in Nat /\ databases' = databases + 1
      BY <3>1, <1>w, <1>u
    <3> QED BY <3>1, <3>2
  <2> QED BY <2>1, <2>2, <2>3 DEF FilesKnown
<1>4. \A k \in FileKinds : \A n \in Stamps : files'[k][n].of = current' <=> k = "db" /\ n = 0
  <2> SUFFICES ASSUME NEW k \in FileKinds, NEW n \in Stamps
               PROVE  files'[k][n].of = current' <=> k = "db" /\ n = 0
    OBVIOUS
  <2>1. CASE k # "db" \/ n # 0
    <3>1. files'[k][n] = files[k][n]
      BY <2>1, <1>2
    <3>2. files[k][n].of \in Nat /\ files[k][n].of <= databases /\ databases \in Nat
      BY <1>w
    <3>3. current' = databases + 1
      BY <1>u
    <3> QED BY <2>1, <3>1, <3>2, <3>3
  <2>2. CASE k = "db" /\ n = 0
    BY <2>2, <1>2, <1>u
  <2> QED BY <2>1, <2>2
<1>5. Way'
  <2>1. \A k \in FileKinds : files'[k][restore'.stamp].of # current'
    BY <1>4, <1>1, <1>s
  <2> QED BY <2>1, <1>1, <1>s DEF Way
<1>6. PathIsClear'
  <2> SUFFICES ASSUME ~crossed PROVE PathIsClear'
    BY <1>u DEF PathIsClear
  <2>1. \A k \in FileKinds : files[k][0] = NotThere
    BY <1>w, <1>u, <1>s DEF PathIsClear, At
  <2>2. \A k \in FileKinds : files'[k][0].of \in {0, current'}
    BY <2>1, <1>2, <1>u, <1>w
  <2>3. restore'.step = "cleaning" /\ ~Moving'
    BY <1>1 DEF Moving
  <2> QED BY <2>2, <2>3 DEF PathIsClear, At
<1>7. RowsAreKept'
  <2>1. ASSUME NEW x \in Nat
        PROVE  x \in expected' <=>
                 \E k \in FileKinds, n \in Stamps : files'[k][n].of = current' /\ x \in files'[k][n].rows
    <3>1. files'["db"][0].of = current' /\ files'["db"][0].rows = expected'
      BY <1>2, <1>u
    <3> QED BY <3>1, <1>4, <1>w
  <2>2. \A q \in Users : current' \notin holding'[q]
    <3> SUFFICES ASSUME NEW q \in Users, current' \in holding'[q] PROVE FALSE
      OBVIOUS
    <3>1. databases + 1 <= databases
      BY <1>u, <1>w DEF FilesKnown
    <3> QED BY <3>1, <1>w
  <2> QED BY <2>1, <2>2 DEF RowsAreKept
<1>8. FilesTogether'
  BY <1>4 DEF FilesTogether
<1>9. RestoreTypeOK' /\ BackupsAreRedacted'
  <2>1. databases' \in 1..MaxDatabases /\ current' \in 1..databases'
    BY <1>u, <1>w
  <2>2. troubles' \in Nat /\ expected' \subseteq Nat /\ unrolled' \in BOOLEAN
    BY <1>t, <1>u, <1>s
  <2>3. UNCHANGED <<holding, backup, redacting, captures, crossed, leaked>>
    BY <1>u
  <2> QED BY ONLY RestoreInv, OthersRest, <2>1, <2>2, <2>3, <1>1, <1>2
<1> QED BY <1>3, <1>5, <1>6, <1>7, <1>8, <1>9 DEF RestoreInv

\* What was moved is no longer at the path, so it can go back.
LEMMA RenameFailsKeeps ==
  ASSUME RestoreInv, RenameFails
  PROVE  RestoreInv'
<1>w. /\ RestoreTypeOK /\ BackupsAreRedacted /\ RowsAreKept /\ FilesKnown /\ Way /\ PathIsClear /\ FilesTogether
  BY WhatIsKnown
<1>t. /\ files \in [FileKinds -> [Stamps -> [of : Nat, rows : SUBSET Nat]]]
      /\ restore \in [step : {"none", "moving", "replacing", "rolling back", "cleaning"}, stamp : Stamps,
                      copy : SUBSET Nat, todo : SUBSET FileKinds, moved : SUBSET FileKinds]
      /\ databases \in 1..MaxDatabases /\ current \in 1..databases /\ troubles \in Nat
      /\ expected \subseteq Nat /\ unrolled \in BOOLEAN
  BY <1>w DEF RestoreTypeOK
<1>u. /\ UNCHANGED <<files, holding, backup, redacting, captures, databases, current, expected>>
      /\ UNCHANGED <<crossed, unrolled, leaked>> /\ troubles' = troubles + 1
      /\ restore.step \in {"moving", "replacing"} /\ restore' = [restore EXCEPT !.step = "rolling back"]
  BY DEF RenameFails, Trouble, aside, ghosts, excuses
<1>1. restore' \in [step : {"none", "moving", "replacing", "rolling back", "cleaning"}, stamp : Stamps,
                    copy : SUBSET Nat, todo : SUBSET FileKinds, moved : SUBSET FileKinds]
  BY <1>t, <1>u
<1>2. /\ restore'.step = "rolling back" /\ restore'.stamp = restore.stamp /\ restore'.moved = restore.moved
      /\ Moving /\ Moving' /\ restore.moved \subseteq FileKinds /\ restore.stamp # 0
      /\ restore.moved \cap restore.todo = {}
  BY <1>t, <1>u, <1>w DEF Moving, Way
<1>3. FilesKnown'
  BY <1>w, <1>u, <1>2 DEF FilesKnown
<1>4. Way'
  BY <1>2 DEF Way
<1>5. PathIsClear'
  <2> SUFFICES ASSUME ~crossed PROVE PathIsClear'
    BY <1>u DEF PathIsClear
  <2>1. /\ \A kind \in FileKinds : At(kind).of \in {0, current}
        /\ \A kind \in FileKinds \ restore.todo : At(kind) = NotThere
        /\ Is(At("db")) => restore.moved = {}
        /\ \A kind \in FileKinds : files[kind][restore.stamp].of \in {0, current}
    BY <1>w, <1>u, <1>2 DEF PathIsClear
  <2>2. \A kind \in restore.moved : At(kind) = NotThere
    BY <2>1, <1>2
  <2>3. \A kind \in FileKinds : At(kind)' = At(kind)
    BY <1>u DEF At
  <2>4. Is(At("db"))' => Is(At("db"))
    BY <1>u DEF At, Is
  <2> QED BY <2>1, <2>2, <2>3, <2>4, <1>2, <1>u DEF PathIsClear
<1>6. RowsAreKept'
  BY <1>w, <1>u DEF RowsAreKept
<1>7. FilesTogether'
  <2>1. Is(At("db"))' <=> Is(At("db"))
    BY <1>u DEF At, Is
  <2> QED BY <2>1, <1>w, <1>u, <1>2 DEF FilesTogether
<1>8. RestoreTypeOK' /\ BackupsAreRedacted'
  <2>1. /\ files' \in [FileKinds -> [Stamps -> [of : Nat, rows : SUBSET Nat]]]
        /\ databases' \in 1..MaxDatabases /\ current' \in 1..databases'
        /\ expected' \subseteq Nat /\ unrolled' \in BOOLEAN
    BY <1>t, <1>u
  <2>3. troubles' \in Nat
    <3>1. troubles \in Nat
      BY <1>t
    <3>2. troubles' = troubles + 1
      BY <1>u
    <3> QED BY <3>1, <3>2
  <2>2. UNCHANGED <<holding, backup, redacting, captures, crossed, leaked>>
    BY <1>u
  <2> QED BY ONLY RestoreInv, OthersRest, <2>1, <2>2, <2>3, <1>1
<1> QED BY <1>3, <1>4, <1>5, <1>6, <1>7, <1>8 DEF RestoreInv
\* The database goes back last: when it is at the path again its log is, too.
LEMMA RollBackKeeps ==
  ASSUME RestoreInv, RollBack
  PROVE  RestoreInv'
<1>w. /\ RestoreTypeOK /\ BackupsAreRedacted /\ RowsAreKept /\ FilesKnown /\ Way /\ PathIsClear /\ FilesTogether
      /\ 0 \in Stamps /\ "db" \in FileKinds /\ "shm" \in FileKinds /\ "wal" \in FileKinds
      /\ Stamps \subseteq Nat /\ NotThere.of = 0
      /\ NotThere.rows = {} /\ databases \in Nat /\ current \in Nat \ {0}
  BY WhatIsKnown
<1>t. /\ files \in [FileKinds -> [Stamps -> [of : Nat, rows : SUBSET Nat]]]
      /\ restore \in [step : {"none", "moving", "replacing", "rolling back", "cleaning"}, stamp : Stamps,
                      copy : SUBSET Nat, todo : SUBSET FileKinds, moved : SUBSET FileKinds]
      /\ databases \in 1..MaxDatabases /\ current \in 1..databases /\ troubles \in Nat
      /\ expected \subseteq Nat /\ unrolled \in BOOLEAN
  BY <1>w DEF RestoreTypeOK
<1>u. /\ UNCHANGED <<holding, backup, redacting, captures, databases, current, expected>>
      /\ UNCHANGED <<crossed, leaked>>
      /\ restore.step = "rolling back" /\ restore.moved # {}
  BY DEF RollBack, aside, ghosts
<1>s. restore.stamp \in Stamps /\ restore.stamp # 0
  BY <1>t, <1>u, <1>w DEF Way
<1>1. PICK kind \in restore.moved :
        /\ kind = "db" => restore.moved = {"db"}
        /\ restore' = [restore EXCEPT !.moved = @ \ {kind}]
        /\ \/ files' = Renamed(kind, restore.stamp, 0) /\ UNCHANGED <<troubles, unrolled>>
           \/ troubles' = troubles + 1 /\ unrolled' = TRUE /\ UNCHANGED files
  <2>1. restore.moved \in SUBSET FileKinds /\ restore.moved # {}
    BY <1>t, <1>u
  <2>2. LastOf(restore.moved) \in restore.moved /\ (LastOf(restore.moved) = "db" => restore.moved = {"db"})
    BY <2>1, OneOfThem
  <2>3. /\ restore' = [restore EXCEPT !.moved = @ \ {LastOf(restore.moved)}]
        /\ \/ files' = Renamed(LastOf(restore.moved), restore.stamp, 0) /\ UNCHANGED <<troubles, unrolled>>
           \/ troubles' = troubles + 1 /\ unrolled' = TRUE /\ UNCHANGED files
    BY DEF RollBack, NextBack, Trouble
  <2> QED BY <2>2, <2>3
<1>q. /\ restore'.step = "rolling back" /\ restore'.stamp = restore.stamp
      /\ restore'.moved = restore.moved \ {kind} /\ kind \in FileKinds
      /\ restore.moved \subseteq FileKinds /\ Moving /\ Moving'
      /\ restore' \in [step : {"none", "moving", "replacing", "rolling back", "cleaning"}, stamp : Stamps,
                       copy : SUBSET Nat, todo : SUBSET FileKinds, moved : SUBSET FileKinds]
  <2>1. /\ restore'.step = "rolling back" /\ restore'.stamp = restore.stamp
        /\ restore'.moved = restore.moved \ {kind} /\ kind \in FileKinds
        /\ restore.moved \subseteq FileKinds
        /\ restore' \in [step : {"none", "moving", "replacing", "rolling back", "cleaning"}, stamp : Stamps,
                         copy : SUBSET Nat, todo : SUBSET FileKinds, moved : SUBSET FileKinds]
    BY <1>1, <1>t, <1>u
  <2> QED BY <2>1, <1>u DEF Moving
<1>p. ~crossed => /\ \A k \in FileKinds : files[k][0].of \in {0, current}
                  /\ \A k \in restore.moved : files[k][0] = NotThere
                  /\ files["db"][0] = NotThere
                  /\ \A k \in FileKinds : files[k][restore.stamp].of \in {0, current}
  BY <1>w, <1>u, <1>q DEF PathIsClear, At, Is
<1>2. /\ files' \in [FileKinds -> [Stamps -> [of : Nat, rows : SUBSET Nat]]]
      /\ \A k \in FileKinds : \A n \in Stamps : k # kind \/ n \notin {0, restore.stamp} => files'[k][n] = files[k][n]
      /\ \/ files' = files /\ unrolled' = TRUE
         \/ /\ files'[kind][restore.stamp] = NotThere /\ files'[kind][0] = files[kind][restore.stamp]
            /\ unrolled' = unrolled
      /\ troubles' \in Nat
  <2>1. CASE files' = Renamed(kind, restore.stamp, 0) /\ UNCHANGED <<troubles, unrolled>>
    <3> DEFINE Files == [of : Nat, rows : SUBSET Nat]
    <3>1. files \in [FileKinds -> [Stamps -> Files]] /\ NotThere \in Files
      BY <1>t, WhatIsKnown
    <3> HIDE DEF Files
    <3>2. files' = [files EXCEPT ![kind][0] = files[kind][restore.stamp], ![kind][restore.stamp] = NotThere]
      BY <2>1 DEF Renamed
    <3>3. /\ files' \in [FileKinds -> [Stamps -> Files]]
          /\ \A k \in FileKinds : \A n \in Stamps : k # kind \/ n \notin {0, restore.stamp} => files'[k][n] = files[k][n]
          /\ files'[kind][restore.stamp] = NotThere /\ files'[kind][0] = files[kind][restore.stamp]
      BY <3>1, <3>2, <1>q, <1>s, <1>w
    <3>4. troubles' \in Nat /\ unrolled' = unrolled
      BY <2>1, <1>t
    <3> QED BY <3>3, <3>4 DEF Files
  <2>2. CASE troubles' = troubles + 1 /\ unrolled' = TRUE /\ UNCHANGED files
    <3>1. troubles' \in Nat
      <4>1. troubles \in Nat
        BY <1>t
      <4> QED BY <2>2, <4>1
    <3> QED BY <2>2, <3>1, <1>t
  <2> QED BY <1>1, <2>1, <2>2
<1>3. FilesKnown'
  <2>0. /\ \A k \in FileKinds, n \in Stamps :
             /\ files[k][n].of <= databases
             /\ files[k][n].of = 0 => files[k][n] = NotThere
             /\ n > restore.stamp => files[k][n] = NotThere
        /\ \A n \in Stamps : files["shm"][n].rows = {}
        /\ \A p \in Users : \A g \in holding[p] : g <= databases
    BY <1>w DEF FilesKnown
  <2>1. ASSUME NEW k \in FileKinds, NEW n \in Stamps
        PROVE  /\ files'[k][n].of <= databases'
               /\ files'[k][n].of = 0 => files'[k][n] = NotThere
               /\ n > restore'.stamp => files'[k][n] = NotThere
    <3>1. CASE files'[k][n] = files[k][n]
      <4>1. restore'.stamp = restore.stamp /\ databases' = databases
        BY <1>q, <1>u
      <4> QED BY <3>1, <4>1, <2>0
    <3>2. CASE files'[k][n] # files[k][n] /\ n = 0
      <4>1. files'[k][n] = files[kind][restore.stamp]
        BY <3>2, <1>2, <1>w, <1>s
      <4>2. restore'.stamp \in Nat
        BY <1>q, <1>s, <1>w
      <4>3. ~(n > restore'.stamp)
        BY <3>2, <4>2
      <4>4. /\ files[kind][restore.stamp].of <= databases
            /\ files[kind][restore.stamp].of = 0 => files[kind][restore.stamp] = NotThere
        BY <2>0, <1>q, <1>s
      <4> QED BY <4>1, <4>3, <4>4, <1>u
    <3>3. CASE files'[k][n] # files[k][n] /\ n # 0
      <4>1. files'[k][n] = NotThere
        BY <3>3, <1>2, <1>w, <1>s
      <4>2. databases' \in Nat /\ NotThere.of = 0
        BY <1>u, <1>w
      <4>3. NotThere.of <= databases'
        BY <4>2
      <4> QED BY <4>1, <4>2, <4>3
    <3> QED BY <3>1, <3>2, <3>3
  <2>2. ASSUME NEW n \in Stamps
        PROVE  files'["shm"][n].rows = {}
    <3>1. files'["shm"][n] \in {files["shm"][n], files["shm"][restore.stamp], NotThere}
      BY <1>2, <1>w, <1>s
    <3> QED BY <3>1, <2>0, <1>w, <1>s
  <2>3. \A q \in Users : \A h \in holding'[q] : h <= databases'
    BY <2>0, <1>u
  <2> QED BY <2>1, <2>2, <2>3 DEF FilesKnown
<1>4. Way'
  BY <1>q, <1>s DEF Way
<1>5. PathIsClear'
  <2> SUFFICES ASSUME ~crossed PROVE PathIsClear'
    BY <1>u DEF PathIsClear
  <2>1. ASSUME NEW k \in FileKinds
        PROVE  files'[k][0].of \in {0, current} /\ files'[k][restore.stamp].of \in {0, current}
    <3>1. CASE k # kind
      <4>2. files'[k][0] = files[k][0] /\ files'[k][restore.stamp] = files[k][restore.stamp]
        BY <3>1, <1>2, <1>w, <1>s
      <4> QED BY <4>2, <1>p
    <3>2. CASE k = kind
      <4>1. \/ files' = files
            \/ files'[k][restore.stamp] = NotThere /\ files'[k][0] = files[k][restore.stamp]
        BY <3>2, <1>2
      <4> QED BY <4>1, <1>p, <1>w
    <3> QED BY <3>1, <3>2
  <2>2. \A k \in restore'.moved : files'[k][0] = NotThere
    <3> SUFFICES ASSUME NEW k \in restore'.moved PROVE files'[k][0] = NotThere
      OBVIOUS
    <3>1. k \in FileKinds /\ k # kind /\ k \in restore.moved
      BY <1>q
    <3>2. files'[k][0] = files[k][0]
      BY <3>1, <1>2, <1>w
    <3> QED BY <3>1, <3>2, <1>p
  <2>3. Is(At("db"))' => restore'.moved = {}
    <3> SUFFICES ASSUME files'["db"][0] # NotThere PROVE restore'.moved = {}
      BY DEF Is, At
    <3>1. files'["db"][0] # files["db"][0]
      BY <1>p
    <3>2. kind = "db"
      BY <3>1, <1>2, <1>w
    <3> QED BY <3>2, <1>1, <1>q
  <2> QED BY <2>1, <2>2, <2>3, <1>q, <1>u DEF PathIsClear, At
<1>6. RowsAreKept'
  <2> SUFFICES ASSUME ~crossed PROVE RowsAreKept'
    BY <1>u DEF RowsAreKept
  <2>0. /\ \A x \in Nat : x \in expected <=>
             \E k \in FileKinds, n \in Stamps : files[k][n].of = current /\ x \in files[k][n].rows
        /\ (\E p \in Users : current \in holding[p]) => \E n \in Stamps : files["wal"][n].of = current
    BY <1>w DEF RowsAreKept
  <2>1. CASE files' = files
    BY <2>0, <2>1, <1>u DEF RowsAreKept
  <2>2. CASE files' = Renamed(kind, restore.stamp, 0)
    <3>1. /\ kind \in FileKinds /\ 0 \in Stamps /\ restore.stamp \in Stamps /\ restore.stamp # 0
          /\ files[kind][0] = NotThere
      BY <1>q, <1>s, <1>w, <1>p
    <3>2. current \in Nat \ {0}
      BY <1>w
    <3>3. /\ \A x \in Nat :
              (\E k \in FileKinds, n \in Stamps : files[k][n].of = current /\ x \in files[k][n].rows)
                <=> \E k \in FileKinds, n \in Stamps : files'[k][n].of = current /\ x \in files'[k][n].rows
          /\ (\E n \in Stamps : files["wal"][n].of = current) => \E n \in Stamps : files'["wal"][n].of = current
      BY ONLY RestoreInv, <2>2, <3>1, <3>2, RowsMoveAlong
    <3> QED BY <2>0, <3>3, <1>u DEF RowsAreKept
  <2> QED BY <2>1, <2>2, <1>1
<1>7. FilesTogether'
  <2> SUFFICES ASSUME ~crossed, ~unrolled', Is(At("db"))' \/ "db" \in restore'.moved,
                      NEW k \in FileKinds, NEW n \in Stamps \ {0}, files'[k][n].of = current
               PROVE  n = restore.stamp /\ k \in restore'.moved
    BY <1>u, <1>q DEF FilesTogether
  <2>1. "db" \in restore.moved
    <3>1. CASE files'["db"][0] # NotThere
      <4>1. files'["db"][0] # files["db"][0]
        BY <3>1, <1>p
      <4>2. kind = "db"
        BY <4>1, <1>2, <1>w
      <4> QED BY <4>2
    <3>2. CASE files'["db"][0] = NotThere
      <4>1. "db" \in restore'.moved
        BY <3>2 DEF Is, At
      <4> QED BY <4>1, <1>q
    <3> QED BY <3>1, <3>2
  <2>2. ~unrolled /\ files'[kind][restore.stamp] = NotThere
    BY <1>2
  <2>3. \A l \in FileKinds : \A m \in Stamps \ {0} : files[l][m].of = current =>
          m = restore.stamp /\ l \in restore.moved
    BY <2>1, <2>2, <1>q, <1>w DEF FilesTogether
  <2>4. k # kind \/ n # restore.stamp
    BY <2>2, <1>w
  <2>5. files'[k][n] = files[k][n]
    BY <2>4, <1>2
  <2> QED BY <2>3, <2>4, <2>5, <1>q
<1>8. RestoreTypeOK' /\ BackupsAreRedacted'
  <2>1. /\ databases' \in 1..MaxDatabases /\ current' \in 1..databases'
        /\ expected' \subseteq Nat
    BY <1>t, <1>u
  <2>2. UNCHANGED <<holding, backup, redacting, captures, crossed, leaked>>
    BY <1>u
  <2>3. unrolled' \in BOOLEAN
    <3>1. unrolled \in BOOLEAN
      BY <1>t
    <3>2. unrolled' = unrolled \/ unrolled' = TRUE
      BY <1>2
    <3> QED BY <3>1, <3>2
  <2>4. restore' \in [step : {"none", "moving", "replacing", "rolling back", "cleaning"}, stamp : Stamps,
                       copy : SUBSET Nat, todo : SUBSET FileKinds, moved : SUBSET FileKinds]
    BY <1>q
  <2> QED BY ONLY RestoreInv, OthersRest, <2>1, <2>2, <2>3, <2>4, <1>2
<1> QED BY <1>3, <1>4, <1>5, <1>6, <1>7, <1>8 DEF RestoreInv

\* What is deleted is not of the database that is at the path now.
LEMMA RemoveOldKeeps ==
  ASSUME RestoreInv, RemoveOld
  PROVE  RestoreInv'
<1>w. /\ RestoreTypeOK /\ BackupsAreRedacted /\ RowsAreKept /\ FilesKnown /\ Way /\ PathIsClear /\ FilesTogether
      /\ 0 \in Stamps /\ "db" \in FileKinds /\ "shm" \in FileKinds /\ "wal" \in FileKinds
      /\ Stamps \subseteq Nat /\ NotThere.of = 0
      /\ NotThere.rows = {} /\ databases \in Nat /\ current \in Nat \ {0}
  BY WhatIsKnown
<1>t. /\ files \in [FileKinds -> [Stamps -> [of : Nat, rows : SUBSET Nat]]]
      /\ restore \in [step : {"none", "moving", "replacing", "rolling back", "cleaning"}, stamp : Stamps,
                      copy : SUBSET Nat, todo : SUBSET FileKinds, moved : SUBSET FileKinds]
      /\ databases \in 1..MaxDatabases /\ current \in 1..databases /\ troubles \in Nat
      /\ expected \subseteq Nat /\ unrolled \in BOOLEAN
  BY <1>w DEF RestoreTypeOK
<1>u. /\ UNCHANGED <<holding, backup, redacting, captures, databases, current, expected>>
      /\ UNCHANGED <<crossed, unrolled, leaked>>
      /\ restore.step = "cleaning" /\ restore.moved # {}
  BY DEF RemoveOld, aside, ghosts, excuses
<1>s. restore.stamp \in Stamps /\ restore.stamp # 0 /\ \A k \in FileKinds : files[k][restore.stamp].of # current
  BY <1>t, <1>u, <1>w DEF Way
<1>1. PICK kind \in restore.moved :
        /\ restore' = [restore EXCEPT !.moved = @ \ {kind}]
        /\ \/ files' = [files EXCEPT ![kind][restore.stamp] = NotThere] /\ troubles' = troubles
           \/ troubles' = troubles + 1 /\ files' = files
  <2>1. restore.moved \in SUBSET FileKinds /\ restore.moved # {}
    BY <1>t, <1>u
  <2>2. FirstOf(restore.moved) \in restore.moved
    BY <2>1, OneOfThem
  <2>3. /\ restore' = [restore EXCEPT !.moved = @ \ {FirstOf(restore.moved)}]
        /\ \/ files' = [files EXCEPT ![FirstOf(restore.moved)][restore.stamp] = NotThere] /\ troubles' = troubles
           \/ troubles' = troubles + 1 /\ files' = files
    BY DEF RemoveOld, Trouble
  <2> QED BY <2>2, <2>3
<1>q. /\ restore'.step = "cleaning" /\ restore'.stamp = restore.stamp /\ kind \in FileKinds
      /\ ~Moving /\ ~Moving'
  <2>1. restore'.step = "cleaning" /\ restore'.stamp = restore.stamp /\ kind \in FileKinds
    BY <1>1, <1>t, <1>u
  <2> QED BY <2>1, <1>u DEF Moving
<1>r. restore' \in [step : {"none", "moving", "replacing", "rolling back", "cleaning"}, stamp : Stamps,
                    copy : SUBSET Nat, todo : SUBSET FileKinds, moved : SUBSET FileKinds]
  BY <1>1, <1>t
<1>2. /\ files' \in [FileKinds -> [Stamps -> [of : Nat, rows : SUBSET Nat]]]
      /\ \A k \in FileKinds : \A n \in Stamps : \/ files'[k][n] = files[k][n]
                                                \/ files'[k][n] = NotThere /\ n = restore.stamp
  <2> DEFINE Files == [of : Nat, rows : SUBSET Nat]
  <2>1. files \in [FileKinds -> [Stamps -> Files]] /\ NotThere \in Files
    BY <1>t, WhatIsKnown
  <2> HIDE DEF Files
  <2>2. CASE files' = [files EXCEPT ![kind][restore.stamp] = NotThere]
    <3>1. /\ files' \in [FileKinds -> [Stamps -> Files]]
          /\ \A k \in FileKinds : \A n \in Stamps : \/ files'[k][n] = files[k][n]
                                                    \/ files'[k][n] = NotThere /\ n = restore.stamp
      BY <2>1, <2>2, <1>q, <1>s
    <3> QED BY <3>1 DEF Files
  <2>3. CASE files' = files
    BY <2>3, <1>t
  <2> QED BY <1>1, <2>2, <2>3
<1>3. /\ \A k \in FileKinds : files'[k][0] = files[k][0]
      /\ \A k \in FileKinds : \A n \in Stamps :
           /\ files'[k][n].of = current => files'[k][n] = files[k][n]
           /\ files[k][n].of = current => files'[k][n] = files[k][n]
  BY <1>2, <1>s, <1>w
<1>4. FilesKnown'
  <2>1. ASSUME NEW k \in FileKinds, NEW n \in Stamps
        PROVE  /\ files'[k][n].of <= databases'
               /\ files'[k][n].of = 0 => files'[k][n] = NotThere
               /\ n > restore'.stamp => files'[k][n] = NotThere
    <3>1. CASE files'[k][n] = files[k][n]
      BY <3>1, <1>w, <1>q, <1>u DEF FilesKnown
    <3>2. CASE files'[k][n] = NotThere
      BY <3>2, <1>u, <1>w
    <3> QED BY <3>1, <3>2, <1>2
  <2>2. \A n \in Stamps : files'["shm"][n].rows = {}
    BY <1>2, <1>w DEF FilesKnown
  <2>3. \A q \in Users : \A h \in holding'[q] : h <= databases'
    BY <1>w, <1>u DEF FilesKnown
  <2> QED BY <2>1, <2>2, <2>3 DEF FilesKnown
<1>5. Way'
  <2>1. \A k \in FileKinds : files'[k][restore.stamp].of # current
    BY <1>2, <1>s, <1>w
  <2> QED BY <2>1, <1>q, <1>s, <1>u DEF Way
<1>6. PathIsClear'
  <2> SUFFICES ASSUME ~crossed PROVE PathIsClear'
    BY <1>u DEF PathIsClear
  <2>1. \A k \in FileKinds : files'[k][0].of \in {0, current}
    BY <1>3, <1>w DEF PathIsClear, At
  <2> QED BY <2>1, <1>q, <1>u DEF PathIsClear, At
<1>7. RowsAreKept'
  <2> SUFFICES ASSUME ~crossed PROVE RowsAreKept'
    BY <1>u DEF RowsAreKept
  <2>0. /\ \A x \in Nat : x \in expected <=>
             \E k \in FileKinds, n \in Stamps : files[k][n].of = current /\ x \in files[k][n].rows
        /\ (\E p \in Users : current \in holding[p]) => \E n \in Stamps : files["wal"][n].of = current
    BY <1>w DEF RowsAreKept
  <2>1. \A x \in Nat : x \in expected <=>
             \E k \in FileKinds, n \in Stamps : files'[k][n].of = current /\ x \in files'[k][n].rows
    BY <2>0, <1>3
  <2>2. (\E p \in Users : current \in holding[p]) => \E n \in Stamps : files'["wal"][n].of = current
    BY <2>0, <1>3, <1>w
  <2> QED BY <2>1, <2>2, <1>u DEF RowsAreKept
<1>8. FilesTogether'
  <2> SUFFICES ASSUME ~crossed, ~unrolled, Is(At("db"))',
                      NEW k \in FileKinds, NEW n \in Stamps \ {0}, files'[k][n].of = current
               PROVE  FALSE
    BY <1>u, <1>q DEF FilesTogether
  <2>1. Is(At("db")) /\ files[k][n].of = current
    BY <1>3, <1>w DEF Is, At
  <2> QED BY <2>1, <1>q, <1>w DEF FilesTogether
<1>9. RestoreTypeOK' /\ BackupsAreRedacted'
  <2>1. /\ databases' \in 1..MaxDatabases /\ current' \in 1..databases'
        /\ expected' \subseteq Nat /\ unrolled' \in BOOLEAN
    BY <1>t, <1>u
  <2>2. UNCHANGED <<holding, backup, redacting, captures, crossed, leaked>>
    BY <1>u
  <2>3. troubles' \in Nat
    <3>1. troubles \in Nat
      BY <1>t
    <3>2. troubles' = troubles \/ troubles' = troubles + 1
      BY <1>1
    <3> QED BY <3>1, <3>2
  <2> QED BY ONLY RestoreInv, OthersRest, <2>1, <2>2, <2>3, <1>2, <1>r
<1> QED BY <1>4, <1>5, <1>6, <1>7, <1>8, <1>9 DEF RestoreInv

\* Every step, then.
LEMMA RestoreStepKeeps == RestoreInv /\ [RestoreNext]_restoreVars => RestoreInv'
<1> SUFFICES ASSUME RestoreInv, [RestoreNext]_restoreVars PROVE RestoreInv'
  OBVIOUS
<1>1. CASE UNCHANGED restoreVars
  <2> USE <1>1 DEF restoreVars, At, Is, Moving
  <2>1. RestoreTypeOK' = RestoreTypeOK
    BY DEF RestoreTypeOK
  <2>2. FilesKnown' = FilesKnown /\ Way' = Way
    BY DEF FilesKnown, Way
  <2>3. PathIsClear' = PathIsClear
    BY DEF PathIsClear
  <2>4. RowsAreKept' = RowsAreKept
    BY DEF RowsAreKept
  <2>5. FilesTogether' = FilesTogether
    BY DEF FilesTogether
  <2>6. BackupsAreRedacted' = BackupsAreRedacted
    BY DEF BackupsAreRedacted
  <2> QED BY <2>1, <2>2, <2>3, <2>4, <2>5, <2>6 DEF RestoreInv
<1>2. ASSUME NEW p \in Users,
             \/ OpenDatabase(p) \/ CloseDatabase(p) \/ UserDies(p)
             \/ \E g \in holding[p] : CaptureRow(p, g) \/ Checkpoint(p, g)
             \/ BackupCopies(p) \/ BackupRedacted(p) \/ RedactionFails(p)
      PROVE  RestoreInv'
  BY <1>2, OpenDatabaseKeeps, CloseKeeps, UserDiesKeeps, CaptureKeeps, CheckpointKeeps, BackupKeeps
<1>3. CASE \/ RestoreBegins \/ MoveAside \/ Replace \/ RenameFails
           \/ RollBack \/ RemoveOld \/ RestoreEnds \/ RestoreDies
  BY <1>3, RestoreBeginsKeeps, MoveAsideKeeps, ReplaceKeeps, RenameFailsKeeps, RollBackKeeps, RemoveOldKeeps,
     RestoreEndsKeeps
<1> QED BY <1>1, <1>2, <1>3 DEF RestoreNext

\* At the path is the current database, and its files are nowhere else.
LEMMA ThenRestoresHold == RestoreInv => RestoresHold
<1> SUFFICES ASSUME RestoreInv PROVE RestoresHold
  OBVIOUS
<1>w. /\ RestoreTypeOK /\ BackupsAreRedacted /\ RowsAreKept /\ FilesKnown /\ Way /\ PathIsClear /\ FilesTogether
      /\ 0 \in Stamps /\ "db" \in FileKinds /\ "shm" \in FileKinds /\ "wal" \in FileKinds
      /\ NotThere.of = 0 /\ NotThere.rows = {} /\ current \in Nat \ {0}
      /\ \A k \in FileKinds : \A n \in Stamps : /\ files[k][n].rows \subseteq Nat
                                                /\ files[k][n].of = 0 => files[k][n] = NotThere
  BY WhatIsKnown
<1>e. expected \subseteq Nat
  BY <1>w DEF RestoreTypeOK
<1>1. AtPathIsWhole
  <2> SUFFICES ASSUME ~crossed, ~unrolled, Is(At("db"))
               PROVE  /\ At("wal").of \in {0, At("db").of}
                      /\ At("db").rows \cup At("wal").rows = expected
    BY DEF AtPathIsWhole
  <2>1. /\ \A k \in FileKinds : files[k][0].of \in {0, current}
        /\ Moving => restore.moved = {}
    BY <1>w DEF PathIsClear, At
  <2>2. files["db"][0].of = current
    BY <2>1, <1>w DEF Is, At
  <2>3. \A k \in FileKinds, n \in Stamps \ {0} : files[k][n].of # current
    BY <2>1, <1>w DEF FilesTogether
  <2>4. ASSUME NEW x \in Nat
        PROVE  x \in expected <=> x \in files["db"][0].rows \/ x \in files["wal"][0].rows
    <3>1. x \in expected <=> \E k \in FileKinds, n \in Stamps : files[k][n].of = current /\ x \in files[k][n].rows
      BY <1>w DEF RowsAreKept
    <3>2. x \in expected => x \in files["db"][0].rows \/ x \in files["wal"][0].rows
      <4> SUFFICES ASSUME x \in expected PROVE x \in files["db"][0].rows \/ x \in files["wal"][0].rows
        OBVIOUS
      <4>1. PICK k \in FileKinds, n \in Stamps : files[k][n].of = current /\ x \in files[k][n].rows
        BY <3>1
      <4>2. n = 0
        BY <4>1, <2>3
      <4>3. k # "shm"
        BY <4>1, <1>w DEF FilesKnown
      <4> QED BY <4>1, <4>2, <4>3 DEF FileKinds
    <3>3. x \in files["db"][0].rows => x \in expected
      BY <3>1, <2>2, <1>w
    <3>4. x \in files["wal"][0].rows => x \in expected
      <4> SUFFICES ASSUME x \in files["wal"][0].rows PROVE x \in expected
        OBVIOUS
      <4>1. files["wal"][0].of = current
        BY <2>1, <1>w
      <4> QED BY <4>1, <3>1, <1>w
    <3> QED BY <3>2, <3>3, <3>4
  <2>5. files["db"][0].rows \cup files["wal"][0].rows = expected
    BY <2>4, <1>e, <1>w
  <2> QED BY <2>1, <2>2, <2>5, <1>w DEF At
<1>2. NothingIsGone
  <2> SUFFICES ASSUME ~crossed, NEW x \in expected PROVE x \in RowsOnDisk
    BY DEF NothingIsGone
  <2>1. PICK k \in FileKinds, n \in Stamps : x \in files[k][n].rows
    BY <1>w, <1>e DEF RowsAreKept
  <2> QED BY <2>1 DEF RowsOnDisk
<1> QED BY <1>1, <1>2, <1>w DEF RestoresHold

\* Whatever fails or dies, and whoever writes meanwhile: the database at the path has its
\* log and all its rows, before and after, unless a program opened it on the way or a
\* rename back failed; rows are lost in no case but the first; backups that are left have
\* no secrets unless their redaction failed (backup_helpers.go, replaceDatabaseFile).
THEOREM RestoresAlwaysHold == RestoreSpec => []RestoresHold
<1>1. RestoreInit => RestoreInv
  BY StartsWell
<1>2. RestoreInv /\ [RestoreNext]_restoreVars => RestoreInv'
  BY RestoreStepKeeps
<1>3. RestoreInv => RestoresHold
  BY ThenRestoresHold
<1> QED BY <1>1, <1>2, <1>3, PTL DEF RestoreSpec

-----------------------------------------------------------------------------
\* Neither an upgrade nor a restore takes from the database what is in it: both parts
\* above.
THEOREM DatabaseAlwaysStays == SchemaSpec /\ RestoreSpec => []DatabaseStays
<1>1. UpgradeIsSound /\ RestoresHold => DatabaseStays
  BY DEF DatabaseStays
<1> QED
  BY <1>1, UpgradesAreSound, RestoresAlwaysHold, PTL

=============================================================================
