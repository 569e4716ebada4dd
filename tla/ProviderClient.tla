--------------------------- MODULE ProviderClient ---------------------------
(***************************************************************************)
(* The client of the analysis and Vision provider: its API key, kept in    *)
(* memory and in the credential vault; a text request, with its variants   *)
(* of the protocol, its retries, its waits while the provider says that it *)
(* is still working on the same request, its recovery tokens and its       *)
(* second try on an answer that is no JSON; and the loop of a Vision call. *)
(*                                                                         *)
(* The provider is external: it goes on computing a request whose client   *)
(* timed out, and answers "duplicate" (409) to the same request meanwhile. *)
(* What makes two requests the same is their signature: the prompt, the    *)
(* variant of the protocol and the recovery token.  Delays have no length. *)
(***************************************************************************)
EXTENDS Integers, FiniteSets

CONSTANTS
  Variants,       \* how many variants of the protocol a request has
  Retries,        \* XKIRO_REQUEST_RETRIES
  WaitLimit,      \* XKIRO_DUPLICATE_WAIT_LIMIT
  RecoveryLimit,  \* XKIRO_DUPLICATE_RECOVERY_LIMIT
  JsonAttempts,   \* XKIRO_JSON_REPAIR_ATTEMPTS
  VisionAttempts, \* XKIRO_VISION_RETRIES
  VisionModels,   \* models a call tries when none is selected (at most 6)
  Keys,           \* API keys the user may connect
  EnvKey,         \* the key of the environment, or NoKey
  MaxAsks,        \* bound on the text requests of a behaviour
  NoKey

ASSUME ClientAssumption ==
  /\ {Variants, Retries, WaitLimit, JsonAttempts, VisionAttempts, VisionModels} \subseteq Nat \ {0}
  /\ {RecoveryLimit, MaxAsks} \subseteq Nat
  /\ NoKey \notin Keys /\ EnvKey \in Keys \cup {NoKey}

VARIABLES
  key,         \* the key requests are sent with
  vault,       \* the key in the vault
  connecting,  \* the key whose validation is awaited
  req,         \* the text request
  look,        \* the Vision call
  working,     \* signatures the provider is computing
  refused,     \* the variants the provider's model does not understand
  heard,       \* history: duplicate answers, per prompt
  asks         \* text requests so far

client == <<key, vault, connecting, look, req, working, refused, heard, asks>>
account == <<key, vault, connecting>>
request == <<req, working, refused, heard, asks>>

Prompts == 1..JsonAttempts
Tokens == 0..(MaxAsks * JsonAttempts * RecoveryLimit)
Signature == [prompt : Prompts, variant : 1..Variants, token : Tokens]

\* One call of Vision: the model it is with, of those it may try.
VisionCall ==
  [pc : {"idle", "post", "backoff"}, model : 1..VisionModels, of : 1..VisionModels,
   attempt : 1..VisionAttempts]

\* pc: a call is under way, a delay, or the answer that has come is parsed.
Request ==
  [pc : {"idle", "post", "wait", "backoff", "parse"},
   prompt : Prompts, variant : 1..Variants, token : Tokens,
   attempt : 1..Retries, waits : 0..WaitLimit, recoveries : 0..RecoveryLimit,
   last : Tokens]  \* the last token drawn: a token is never drawn twice

ClientTypeOK ==
  /\ {key, vault, connecting} \subseteq Keys \cup {NoKey}
  /\ req \in Request /\ look \in VisionCall /\ working \subseteq Signature
  /\ refused \subseteq 1..Variants
  /\ heard \in [Prompts -> Nat] /\ asks \in 0..MaxAsks

\* _completion_request is entered: for the first prompt, or for the repair.
Fresh(prompt, last) ==
  [pc |-> "post", prompt |-> prompt, variant |-> 1, token |-> 0, attempt |-> 1,
   waits |-> 0, recoveries |-> 0, last |-> last]

ClientInit ==
  /\ vault \in Keys \cup {NoKey}
  /\ key = IF vault # NoKey THEN vault ELSE EnvKey
  /\ connecting = NoKey
  /\ req = [Fresh(1, 0) EXCEPT !.pc = "idle"]
  /\ working = {}
  /\ \E n \in 0..Variants : refused = 1..n
  /\ look = [pc |-> "idle", model |-> 1, of |-> 1, attempt |-> 1]
  /\ heard = [j \in Prompts |-> 0] /\ asks = 0

(***************************************************************************)
(* The key.                                                                *)
(***************************************************************************)
ConnectAsk(k) ==
  /\ connecting = NoKey /\ connecting' = k
  /\ UNCHANGED <<key, vault, look, request>>

\* The provider refuses the key, cannot be reached, or the vault cannot be
\* written: nothing has changed.
ConnectFails ==
  /\ connecting # NoKey /\ connecting' = NoKey
  /\ UNCHANGED <<key, vault, look, request>>

ConnectSucceeds ==
  /\ connecting # NoKey /\ connecting' = NoKey
  /\ vault' = connecting /\ key' = connecting
  /\ UNCHANGED <<look, request>>

\* A vault that cannot be removed raises before the key is forgotten.
Disconnect ==
  /\ key # NoKey /\ key' = NoKey /\ vault' = NoKey
  /\ UNCHANGED <<connecting, look, request>>

\* The server is started again: the key comes from the vault, or else from
\* the environment, and nobody waits for what the provider computes.
ClientRestart ==
  /\ key' = (IF vault # NoKey THEN vault ELSE EnvKey) /\ connecting' = NoKey
  /\ req' = [req EXCEPT !.pc = "idle"] /\ look' = [look EXCEPT !.pc = "idle"]
  /\ UNCHANGED <<vault, working, refused, heard, asks>>

(***************************************************************************)
(* A text request.                                                         *)
(***************************************************************************)
TheSignature == [prompt |-> req.prompt, variant |-> req.variant, token |-> req.token]

Becomes(r) == req' = r /\ UNCHANGED <<look, refused, asks, account>>
Kept == UNCHANGED <<working, heard>>
Raised == [req EXCEPT !.pc = "idle"]

Ask ==
  /\ req.pc = "idle" /\ key # NoKey /\ asks < MaxAsks
  /\ req' = Fresh(1, req.last) /\ asks' = asks + 1
  /\ UNCHANGED <<look, working, refused, heard, account>>

\* What follows a variant that is not understood, and a call that may be
\* repeated: the last variant and the last attempt raise.
NextVariant(r) ==
  IF r.variant < Variants THEN [r EXCEPT !.variant = @ + 1]
  ELSE [r EXCEPT !.pc = "idle"]

\* Mutant: a call that timed out goes on to the next variant.
MutAgain(r) == NextVariant(r)

Again(r) ==
  IF r.attempt < Retries THEN [r EXCEPT !.pc = "backoff"]
  ELSE [r EXCEPT !.pc = "idle"]

Posting == req.pc = "post" /\ TheSignature \notin working

NotUnderstood ==
  /\ Posting /\ req.variant \in refused
  /\ Becomes(NextVariant(req)) /\ Kept

Answered ==
  /\ Posting /\ req.variant \notin refused /\ key # NoKey
  /\ Becomes([req EXCEPT !.pc = "parse"]) /\ Kept

\* A transient status, or a call that never reached the provider.
Transient == Posting /\ Becomes(Again(req)) /\ Kept

\* The client stops waiting; the provider does not stop computing.
TimesOut ==
  /\ Posting /\ req.variant \notin refused /\ key # NoKey
  /\ working' = working \cup {TheSignature} /\ UNCHANGED heard
  /\ Becomes(Again(req))

\* Any other status raises; so does 401 when the key has been removed.
Refused == Posting /\ Becomes(Raised) /\ Kept

Waited(r) ==
  IF r.waits + 1 < WaitLimit THEN [r EXCEPT !.pc = "wait", !.waits = @ + 1]
  ELSE IF r.recoveries < RecoveryLimit
  THEN [r EXCEPT !.recoveries = @ + 1, !.waits = 0, !.variant = 1,
                 !.token = r.last + 1, !.last = r.last + 1]
  ELSE [r EXCEPT !.pc = "idle"]

Duplicate ==
  /\ req.pc = "post" /\ TheSignature \in working
  /\ heard' = [heard EXCEPT ![req.prompt] = @ + 1] /\ UNCHANGED working
  /\ Becomes(Waited(req))

\* After a delay every attempt begins with the first variant again.
Wake ==
  /\ req.pc = "wait"
  /\ Becomes([req EXCEPT !.pc = "post", !.variant = 1]) /\ Kept

\* Mutant: the attempts are not counted.
MutRetry ==
  /\ req.pc = "backoff"
  /\ Becomes([req EXCEPT !.pc = "post", !.variant = 1]) /\ Kept

Retry ==
  /\ req.pc = "backoff"
  /\ Becomes([req EXCEPT !.pc = "post", !.variant = 1, !.attempt = @ + 1]) /\ Kept

Parse ==
  /\ req.pc = "parse"
  /\ \/ Becomes(Raised)
     \/ req.prompt < JsonAttempts /\ Becomes(Fresh(req.prompt + 1, req.last))
  /\ Kept

\* The job is cancelled at an await; a call under way is not taken back.
CancelRequest ==
  /\ req.pc # "idle"
  /\ \/ UNCHANGED working
     \/ Posting /\ req.variant \notin refused /\ working' = working \cup {TheSignature}
  /\ UNCHANGED heard /\ Becomes(Raised)

\* The provider has computed a request nobody waits for any more.
ProviderFinishes(g) ==
  /\ g \in working /\ working' = working \ {g}
  /\ UNCHANGED <<req, look, refused, heard, asks, account>>

(***************************************************************************)
(* A Vision call (vision_json): the selected model alone, or all of them.  *)
(***************************************************************************)
Sees(l) == look' = l /\ UNCHANGED <<account, request>>
Seen == [pc |-> "idle", model |-> 1, of |-> 1, attempt |-> 1]

\* No key, no such model and no readable image raise at once.
VisionAsk ==
  /\ look.pc = "idle" /\ key # NoKey
  /\ \E n \in {1, VisionModels} : Sees([Seen EXCEPT !.pc = "post", !.of = n])

\* A model that cannot answer is left for the next one.
NextModel(l) ==
  IF l.model < l.of THEN [l EXCEPT !.pc = "post", !.model = @ + 1, !.attempt = 1] ELSE Seen

\* A transient status or a call that failed is repeated while attempts last.
VisionTransient ==
  /\ look.pc = "post"
  /\ Sees(IF look.attempt < VisionAttempts THEN [look EXCEPT !.pc = "backoff"]
          ELSE NextModel(look))

VisionRefused == look.pc = "post" /\ Sees(NextModel(look))
VisionAnswered == look.pc = "post" /\ key # NoKey /\ Sees(Seen)

VisionRetry ==
  look.pc = "backoff" /\ Sees([look EXCEPT !.pc = "post", !.attempt = @ + 1])

VisionStep == VisionTransient \/ VisionRefused \/ VisionAnswered \/ VisionRetry

RequestStep ==
  \/ NotUnderstood \/ Answered \/ Transient \/ TimesOut \/ Refused
  \/ Duplicate \/ Wake \/ Retry \/ Parse

KeyNext ==
  \/ \E k \in Keys : ConnectAsk(k)
  \/ ConnectFails \/ ConnectSucceeds \/ Disconnect \/ ClientRestart

TextNext ==
  \/ Ask \/ RequestStep \/ CancelRequest
  \/ \E g \in Signature : ProviderFinishes(g)

VisionNext == VisionAsk \/ VisionStep

ClientNext == KeyNext \/ TextNext \/ VisionNext

ClientSpec ==
  /\ ClientInit /\ [][ClientNext]_client
  /\ WF_client(RequestStep) /\ WF_client(VisionStep)

(***************************************************************************)
(* Properties.                                                             *)
(***************************************************************************)
\* The wait for a duplicate creates no duplicate: of one prompt the provider
\* never computes a further request unless the client has heard, for each
\* one, a whole series of WaitLimit answers that it is still at work
\* (_completion_request, "khong tao yeu cau trung").
NoDuplicateWork ==
  \A j \in Prompts :
    Cardinality({g \in working : g.prompt = j}) <= 1 + heard[j] \div WaitLimit

\* A request ends, with an answer or an error, whatever the provider does:
\* every call is answered or times out, every retry and wait is counted, and
\* the recoveries are limited (_request_json, _completion_request).
RequestEnds ==
  /\ (req.pc # "idle") ~> (req.pc = "idle")
  /\ (look.pc # "idle") ~> (look.pc = "idle")
=============================================================================
