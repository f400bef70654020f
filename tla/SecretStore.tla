----------------------------- MODULE SecretStore -----------------------------
(***************************************************************************)
(* Settings that are secret (secrets.go, config.go): the config row of one *)
(* holds a reference, the keyring of the system holds the value.  Setting  *)
(* one reads the row, writes the keyring, then writes the row: three steps *)
(* no transaction joins.  store.Open moves plaintext left in rows to the   *)
(* keyring, EnsureDashboardToken and the VAPID handler create what they do *)
(* not find.  Programs that share the database do all this at once, and a  *)
(* keyring may be locked at any time.                                      *)
(***************************************************************************)
EXTENDS Naturals, Sequences

CONSTANTS
  Holders,      (* programs that have the database open, or requests of one *)
  MaxSets,      (* bound on values ever set                                *)
  MaxMishaps    (* bound on failing statements, keyring calls and deaths   *)

ASSUME SecretAssumption == MaxSets \in Nat \ {0} /\ MaxMishaps \in Nat

VARIABLES
  raw,          (* config: the value column                                *)
  ring,         (* keyring: value of a reference, 0 for none               *)
  spc, op,      (* what a program does, and its local variables            *)
  up,           (* programs past store.Open                                *)
  allow,        (* programs run with --insecure-plaintext-secrets          *)
  token,        (* the dashboard token a program goes by, 0 before it has  *)
  used,         (* values and references are numbered in order             *)
  mishaps,
  (* history *)
  last,         (* the value of a key's last set                           *)
  disturbed,    (* keys two programs wrote at once, or a write of which failed *)
  overtaken     (* programs whose token was rotated after they had read it *)

secretVars ==
  <<raw, ring, spc, op, up, allow, token, used, mishaps, last, disturbed,
    overtaken>>

Pass == "smtp_pass"
Token == "dashboard_api_token"
Public == "webpush_vapid_public"
Private == "webpush_vapid_private"
ConfigKeys == {Pass, Token, Public, Private}
IsSensitive(key) == key # Public

None == [kind |-> "none", n |-> 0]
Plain(n) == [kind |-> "plain", n |-> n]
Ref(n) == [kind |-> "ref", n |-> n]
Raw == {None} \cup {Plain(n) : n \in 1..MaxSets} \cup {Ref(n) : n \in 1..MaxSets}

\* todo: the keys still to be written by this call; value 0 clears.
NoOp == [todo |-> <<>>, value |-> 0, existing |-> None, stored |-> None,
         ignoresErrors |-> FALSE, opening |-> FALSE, minting |-> FALSE,
         rotating |-> FALSE]

Todos == {<<>>, <<Pass>>, <<Token>>, <<Public, Private>>, <<Private>>}
Calls == [todo : Todos, value : 0..MaxSets, existing : Raw, stored : Raw,
          ignoresErrors : BOOLEAN, opening : BOOLEAN, minting : BOOLEAN, rotating : BOOLEAN]

SecretTypeOK ==
  /\ raw \in [ConfigKeys -> Raw] /\ ring \in [1..MaxSets -> 0..MaxSets]
  /\ spc \in [Holders -> {"down", "idle", "read", "ring", "write"}]
  /\ op \in [Holders -> Calls] /\ up \subseteq Holders /\ overtaken \subseteq Holders
  /\ token \in [Holders -> 0..MaxSets] /\ used \in 0..MaxSets /\ mishaps \in Nat
  /\ last \in [ConfigKeys -> 0..MaxSets] /\ disturbed \subseteq ConfigKeys

SecretNew ==
  /\ raw = [k \in ConfigKeys |-> None]
  /\ ring = [n \in 1..MaxSets |-> 0]
  /\ used = 0
  /\ last = [k \in ConfigKeys |-> 0]
  /\ allow = {}

\* A plaintext password of an earlier version.
SecretUsed ==
  /\ raw = [k \in ConfigKeys |-> IF k = Pass THEN Plain(1) ELSE None]
  /\ ring = [n \in 1..MaxSets |-> 0]
  /\ used = 1
  /\ last = [k \in ConfigKeys |-> IF k = Pass THEN 1 ELSE 0]
  /\ allow \in {{}, {CHOOSE h \in Holders : TRUE}}

SecretIdle ==
  /\ spc = [h \in Holders |-> "down"]
  /\ op = [h \in Holders |-> NoOp]
  /\ up = {}
  /\ token = [h \in Holders |-> 0]
  /\ mishaps = 0
  /\ disturbed = {} /\ overtaken = {}

SecretInit == (SecretNew \/ SecretUsed) /\ SecretIdle

-----------------------------------------------------------------------------
\* What GetConfig returns when the keyring answers.
Resolve(key) == IF raw[key].kind = "ref" THEN ring[raw[key].n] ELSE raw[key].n

KeysOf(h) == {op[h].todo[i] : i \in DOMAIN op[h].todo}

\* A call that writes keys begins; another may be writing them.
Starts(h, call, pc) ==
  /\ op' = [op EXCEPT ![h] = call]
  /\ spc' = [spc EXCEPT ![h] = pc]
  /\ disturbed' = disturbed \cup
       {k \in ConfigKeys : /\ \E i \in DOMAIN call.todo : call.todo[i] = k
                           /\ \E g \in Holders \ {h} : k \in KeysOf(g)}

Ends(h, pc) ==
  /\ op' = [op EXCEPT ![h] = NoOp]
  /\ spc' = [spc EXCEPT ![h] = pc]

Call(todo, value) == [NoOp EXCEPT !.todo = todo, !.value = value]

\* store.Open: migrateSensitiveConfigSecrets reads all rows, then moves the
\* plaintext of each to the keyring under a new reference.
OpenSecrets(h) ==
  /\ spc[h] = "down"
  /\ IF raw[Pass].kind = "plain"
       THEN Starts(h, [Call(<<Pass>>, raw[Pass].n) EXCEPT !.opening = TRUE], "ring")
            /\ UNCHANGED up
       ELSE /\ spc' = [spc EXCEPT ![h] = "idle"]
            /\ up' = up \cup {h}
            /\ UNCHANGED <<op, disturbed>>
  /\ UNCHANGED <<raw, ring, allow, token, used, mishaps, last, overtaken>>

\* PUT /api/config: a new value, or the empty one.
SetConfig(h) ==
  /\ spc[h] = "idle"
  /\ \/ used < MaxSets /\ used' = used + 1 /\ Starts(h, Call(<<Pass>>, used + 1), "read")
     \/ UNCHANGED used /\ Starts(h, Call(<<Pass>>, 0), "read")
  /\ UNCHANGED <<raw, ring, up, allow, token, mishaps, last, overtaken>>

\* EnsureDashboardToken: a token that is there is taken, also by a second
\* program; else one is made.
EnsureToken(h) ==
  /\ spc[h] = "idle" /\ token[h] = 0
  /\ IF Resolve(Token) # 0
       THEN token' = [token EXCEPT ![h] = Resolve(Token)]
            /\ UNCHANGED <<spc, op, used, disturbed>>
       ELSE /\ used < MaxSets /\ used' = used + 1
            /\ Starts(h, [Call(<<Token>>, used + 1) EXCEPT !.minting = TRUE], "read")
            /\ UNCHANGED token
  /\ UNCHANGED <<raw, ring, up, allow, mishaps, last, overtaken>>

\* The keyring does not answer: GetConfig returns the empty string, and a new
\* token replaces the one others go by.
TokenUnreadable(h) ==
  /\ spc[h] = "idle" /\ token[h] = 0 /\ raw[Token].kind = "ref"
  /\ mishaps < MaxMishaps /\ mishaps' = mishaps + 1
  /\ used < MaxSets /\ used' = used + 1
  /\ op' = [op EXCEPT ![h] = [Call(<<Token>>, used + 1) EXCEPT !.minting = TRUE]]
  /\ spc' = [spc EXCEPT ![h] = "read"]
  /\ disturbed' = disturbed \cup {Token}
  /\ UNCHANGED <<raw, ring, up, allow, token, last, overtaken>>

\* GET /api/webpush/vapid-key: the first request makes a pair and sets both
\* halves; errors of SetConfig are not looked at.
VAPIDKey(h) ==
  /\ spc[h] = "idle" /\ Resolve(Public) = 0
  /\ used < MaxSets /\ used' = used + 1
  /\ Starts(h, [Call(<<Public, Private>>, used + 1) EXCEPT !.ignoresErrors = TRUE], "read")
  /\ UNCHANGED <<raw, ring, up, allow, token, mishaps, last, overtaken>>

\* `niyantra token rotate`, by a program of its own.
RotateToken(h) ==
  /\ spc[h] = "idle" /\ token[h] = 0
  /\ used < MaxSets /\ used' = used + 1
  /\ Starts(h, [Call(<<Token>>, used + 1) EXCEPT !.rotating = TRUE], "read")
  /\ UNCHANGED <<raw, ring, up, allow, token, mishaps, last, overtaken>>

Key(h) == op[h].todo[1]

\* SetConfig reads the row.
ReadRaw(h) ==
  /\ spc[h] = "read"
  /\ op' = [op EXCEPT ![h].existing = raw[Key(h)]]
  /\ spc' = [spc EXCEPT ![h] = "ring"]
  /\ UNCHANGED <<raw, ring, up, allow, token, used, mishaps, last, disturbed, overtaken>>

\* The reference of the row, or a new one (numbered by the value set with it).
RefFor(h) == IF op[h].existing.kind = "ref" THEN op[h].existing.n ELSE op[h].value

\* secureValueForStorage, or the deletion of the reference; what is not secret
\* goes to the row as it is.
Secure(h) ==
  /\ spc[h] = "ring"
  /\ LET v == op[h].value
         old == op[h].existing
         Stored(r) == op' = [op EXCEPT ![h].stored = r]
     IN \/ /\ IsSensitive(Key(h)) /\ v # 0
           /\ ring' = [ring EXCEPT ![RefFor(h)] = v]
           /\ Stored(Ref(RefFor(h)))
        \/ /\ IsSensitive(Key(h)) /\ v = 0
           /\ ring' = IF old.kind = "ref" THEN [ring EXCEPT ![old.n] = 0] ELSE ring
           /\ Stored(None)
        \/ /\ ~IsSensitive(Key(h))
           /\ Stored(Plain(v))
           /\ UNCHANGED ring
  /\ spc' = [spc EXCEPT ![h] = "write"]
  /\ UNCHANGED <<raw, up, allow, token, used, mishaps, last, disturbed, overtaken>>

\* Mutant: the fallback does not ask whether it is allowed.
FallsBackAnyway(h) == TRUE

FallsBack(h) == h \in allow

\* What comes after a SetConfig that has returned, with or without an error.
Returns(h, ok) ==
  IF Len(op[h].todo) = 2 /\ (ok \/ op[h].ignoresErrors)
    THEN /\ op' = [op EXCEPT ![h].todo = <<Private>>, ![h].existing = None]
         /\ spc' = [spc EXCEPT ![h] = "read"]
         /\ UNCHANGED <<up, token>>
    ELSE /\ Ends(h, IF op[h].opening /\ ~ok THEN "down" ELSE "idle")
         /\ up' = IF ok THEN up \cup {h} ELSE up
         /\ token' = IF ok /\ op[h].minting THEN [token EXCEPT ![h] = op[h].value]
                     ELSE token

\* The keyring refuses the value: it goes to the row in plaintext, or not at all.
KeyringFails(h) ==
  /\ spc[h] = "ring" /\ IsSensitive(Key(h)) /\ op[h].value # 0
  /\ mishaps < MaxMishaps /\ mishaps' = mishaps + 1
  /\ \/ /\ FallsBack(h)
        /\ op' = [op EXCEPT ![h].stored = Plain(op[h].value)]
        /\ spc' = [spc EXCEPT ![h] = "write"]
        /\ UNCHANGED <<up, token, disturbed>>
     \/ /\ ~FallsBack(h)
        /\ disturbed' = disturbed \cup ({Private} \cap {Key(h)})
        /\ Returns(h, FALSE)
  /\ UNCHANGED <<raw, ring, allow, used, last, overtaken>>

\* The row is written.
WriteConfig(h) ==
  /\ spc[h] = "write"
  /\ raw' = [raw EXCEPT ![Key(h)] = op[h].stored]
  /\ last' = [last EXCEPT ![Key(h)] = op[h].value]
  /\ overtaken' = IF op[h].rotating THEN {g \in Holders : token[g] # 0} ELSE overtaken
  /\ Returns(h, TRUE)
  /\ UNCHANGED <<ring, allow, used, mishaps, disturbed>>

\* The row is not written, although the keyring has changed.
WriteFails(h) ==
  /\ spc[h] = "write"
  /\ mishaps < MaxMishaps /\ mishaps' = mishaps + 1
  /\ disturbed' = disturbed \cup KeysOf(h)
  /\ Returns(h, FALSE)
  /\ UNCHANGED <<raw, ring, allow, used, last, overtaken>>

\* The program dies.
DiesHolding(h) ==
  /\ spc[h] # "down"
  /\ mishaps < MaxMishaps /\ mishaps' = mishaps + 1
  /\ disturbed' = disturbed \cup KeysOf(h)
  /\ Ends(h, "down")
  /\ up' = up \ {h}
  /\ token' = [token EXCEPT ![h] = 0]
  /\ overtaken' = overtaken \ {h}
  /\ UNCHANGED <<raw, ring, allow, used, last>>

SecretNext ==
  \E h \in Holders :
    \/ OpenSecrets(h) \/ SetConfig(h) \/ EnsureToken(h) \/ TokenUnreadable(h)
    \/ RotateToken(h) \/ VAPIDKey(h) \/ ReadRaw(h) \/ Secure(h) \/ KeyringFails(h)
    \/ WriteConfig(h) \/ WriteFails(h) \/ DiesHolding(h)

SecretSpec == SecretInit /\ [][SecretNext]_secretVars

-----------------------------------------------------------------------------
(* Properties                                                              *)

Writing(key) == \E h \in Holders : key \in KeysOf(h)

\* A secret that has been set is what is read back, cleared ones read as empty, unless
\* it is being written: or two programs wrote it at once, or a step of a write failed.
ReadsBack ==
  \A k \in ConfigKeys \ disturbed : Resolve(k) = last[k] \/ Writing(k)

\* Once a program that may not is past Open, no secret is in plaintext, unless
\* another program may (secrets.go, IsSensitiveConfigKey).
NoPlaintext ==
  allow = {} /\ up # {} =>
    \A k \in ConfigKeys : IsSensitive(k) => raw[k].kind # "plain"

\* The stored halves of the VAPID pair are of one pair.
PairMatches ==
  {Public, Private} \cap disturbed = {} =>
    Resolve(Public) = Resolve(Private) \/ Writing(Private)

\* All programs go by the stored token, but those that had read it before
\* another rotated it: a server reads it when it starts (main.go, cmdServe).
TokensAgree ==
  Token \notin disturbed =>
    \/ \A h \in Holders \ overtaken : token[h] \in {0, Resolve(Token)}
    \/ Writing(Token)

\* Secrets read back, none in plaintext, one VAPID pair, one dashboard token: as said
\* of the four parts above (secrets.go, handlers_ops.go, dashboard_token.go).
SecretsHold == ReadsBack /\ NoPlaintext /\ PairMatches /\ TokensAgree
=============================================================================
