------------------------------- MODULE SignIn -------------------------------
(***************************************************************************)
(* Signing in with a magic link.  The event consumer mints a token and a   *)
(* code, stores both and mails them (handle_builtin_events in              *)
(* runtime/src/broker/processor.rs); a request with either one is          *)
(* exchanged for a session (dispatch_builtin in runtime/src/wasm/mod.rs).  *)
(*                                                                         *)
(* The consumer handles one event at a time.  An event whose mail failed   *)
(* comes again (EventPipeline), which is one more Mint for the same user.  *)
(***************************************************************************)
EXTENDS HttpFront, Mailer, Integers

CONSTANTS Users,
          Tokens,       \* 256-bit tokens; bound: each is minted once
          Codes,        \* six-digit codes
          Guess         \* something no mail contains

VARIABLES mint,         \* the event that is being handled
          mails,        \* <<key, user>> of every mail that left
          unused,       \* history: times a key was minted, less those it signed in
          fresh,        \* history: tokens not minted so far
          spent         \* history: keys redeemed, expired, lost or not stored

signIn == <<mint, mails, unused, fresh, spent>>

LinkKeys == Tokens \cup Codes
NoMint == [pc |-> "idle", user |-> NoValue, token |-> NoValue, code |-> NoValue]

SignInInit ==
    /\ mint = NoMint
    /\ mails = {}
    /\ unused = [k \in LinkKeys |-> 0]
    /\ fresh = Tokens
    /\ spent = {}

-----------------------------------------------------------------------------
(* handle_builtin_events *)

\* mint_magic_token hashes 122 random bits, a time and the address: no token
\* comes twice, and which one does not matter.  A code is one of 900000.
AnyToken == Tokens
MintToken == IF fresh = {} THEN {} ELSE {CHOOSE t \in Tokens : t \in fresh}
MintCode == Codes

\* Users are alike: the first who asks stands for any.
Mint(user) ==
    /\ mint.pc = "idle"
    /\ fresh # {}
    /\ fresh = Tokens => user = CHOOSE u \in Users : TRUE
    /\ \E token \in MintToken, code \in MintCode :
          /\ mint' = [pc |-> "token", user |-> user, token |-> token, code |-> code]
          /\ fresh' = fresh \ {token}
          /\ unused' = [unused EXCEPT ![token] = @ + 1, ![code] = @ + 1]
    /\ UNCHANGED <<mails, spent>>

\* set with 900 seconds; a failure is noted in the trace and otherwise ignored.
StoreKey(k) ==
    \/ Set(k, mint.user) /\ UNCHANGED spent
    \/ SetFails(k, mint.user) /\ spent' = spent \cup {k}

StoreToken ==
    /\ mint.pc = "token"
    /\ StoreKey(mint.token)
    /\ mint' = [mint EXCEPT !.pc = "code"]
    /\ UNCHANGED <<mails, unused, fresh>>

StoreCode ==
    /\ mint.pc = "code"
    /\ StoreKey(mint.code)
    /\ mint' = [mint EXCEPT !.pc = "mail"]
    /\ UNCHANGED <<mails, unused, fresh>>

\* What a user can read in the mail: a link with the token, and the code.
Rendered == {<<mint.token, mint.user>>, <<mint.code, mint.user>>}

\* The mail, under the configuration that is loaded now.  One that a provider
\* did not confirm may have left nevertheless.
SendMail(config, environment) ==
    LET outcomes == SendOutcomes(config, environment)
    IN  /\ mint.pc = "mail"
        /\ \/ "sent" \in outcomes /\ mails' = mails \cup Rendered
           \/ outcomes # {"sent"} /\ UNCHANGED mails
        /\ mint' = NoMint
        /\ UNCHANGED <<kv, unused, fresh, spent>>

-----------------------------------------------------------------------------
(* dispatch_builtin *)

\* A key as it is typed: as mailed, or with dashes and spaces, which go.
AsTyped(key, dashed) == IF dashed THEN Guess ELSE key
CleanToken(key, dashed) == key

\* get_del; a miss and an error of the store are the same to the client.  The
\* roles are stored before the answer, under keys that nothing here reads.
Redeem(r) ==
    /\ At(r, "invoke") /\ req[r].kind = "verify"
    /\ \E dashed \in BOOLEAN :
        LET k == CleanToken(req[r].arg, dashed)
            email == IF k \in StoreKeys THEN kv[k] ELSE NoValue
        IN \/ /\ email # NoValue
              /\ GetDel(k)
              /\ req' = [req EXCEPT ![r].pc = "finish", ![r].seen = email, ![r].status = 200]
              /\ unused' = [unused EXCEPT ![k] = @ - 1]
              /\ spent' = spent \cup {k}
           \/ /\ email = NoValue
              /\ req' = [req EXCEPT ![r].pc = "finish", ![r].status = 401]
              /\ UNCHANGED <<kv, unused, spent>>
           \/ /\ k \in StoreKeys
              /\ GetDelFails(k)
              /\ req' = [req EXCEPT ![r].pc = "finish", ![r].status = 401]
              /\ spent' = spent \cup {k}
              /\ UNCHANGED unused
    /\ UNCHANGED <<mint, mails, fresh>>
=============================================================================
