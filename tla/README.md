# A TLA+ model of the A2A-MCP bridge reference

The bridge lets an agent run a command that needs human approval (human in the
loop, HITL). A human signs the exact action on a consent page the agent cannot
reach; a *vault* exchanges the signature for a single-use *credential* bound to
that action; the *dispatcher*, or a separate *resource server*, consumes the
credential and runs the command. `src/docs/architecture.md` sums it up as one
signature, one credential, one execution. This directory says what that means
precisely, for each deployment, and checks and proves it of what the code does.

Every definition is translated from the Python source, and `PROJECT.json` names
its file and lines (`map`). Paths below are relative to `src/bridge/`.

Contents: [1 Inventory](#1-inventory) · [2 Modules](#2-modules) ·
[3 Abstractions](#3-abstractions) · [4 Runs](#4-runs) · [5 Fairness](#5-fairness) ·
[6 Proofs](#6-proofs) · [7 Where code and documents differ](#7-where-code-and-documents-differ) ·
[8 Not modelled](#8-not-modelled) · [9 Plan](#9-plan) · [10 Running it](#10-running-it)

## 1 Inventory

| Component | State it keeps | Operations | Hard behaviour | What makes it correct |
|---|---|---|---|---|
| Authorization details (`vault/in_process.py:48-161`, `vault/interface.py`) | none | canonical bytes, signing, lifetime bounds | whole-second `exp` against a real-valued clock; args as dict or frozen mapping; bytes are signed, Python equality is compared | equal bytes exactly when the approved fields are equal; an exact maximum lifetime |
| Tier 1 vault (`vault/in_process.py`) | `_issued`, `_consumed`, `_consumed_signatures`, under one lock | `mint`, `consume` | checks of `mint` run before its lock section; all memory dies with the process | binding as far as `==` tells actions apart, single use, one credential per signature, lifetime, no credential across a restart |
| Tier 2 vault (`vault/oauth.py`) | `_consumed`, `_consumed_signatures` | `mint`, `consume` | tokens are self-contained and survive a restart that forgets their use; encoding after the signature was spent; checks before the lock | the same binding, single use per life, replay bounded by `exp`, a signature is not lost |
| Separated resource server (`rs/jwt_resource_server.py`) | its own `_consumed` | `execute` | its own restarts; token spent before the command is looked up and called | binding without sight of the human's signature, one execution per pair of lives, no token lost to a race |
| Dispatcher (`core/dispatcher.py`, `core/registry.py`, `tools.py`) | none | `execute`: unknown command, reserved names, scope, approval, vault or resource server path | the credential is spent before the command runs, and the command may not take the arguments | a HITL command runs only on a credential of its own, and a call that is refused spends none |
| Consent surface (`consent/url_mode.py`, `consent/demo_signer.py`) | `ConsentStore._requests` | `create`, `submit_signed`, `deny`; `GET` page, `POST submit`, `GET result` | session looked up, form awaited, decision taken; several windows on one session; payloads handed out outlive the process | the first decision stands |
| HITL gate (`mcp/hitl.py`) | `_minted` | `try_resume`, `begin` | retries at any moment; a poller of `/result` uses the payload first | acts on the caller's own approval, never runs into its own replay check |
| MCP server (`mcp/server.py`, `mcp/invoker.py`, `mcp/tools.py`) | the call being served | `tools/call`, `tools/list` | a call is several dispatches; a stop between execution and audit row | every approved action runs on some retry; every execution is on record |
| Audit log (`audit.py`) | a SQLite table | `write`, which never raises | failed inserts are swallowed | rows are lost only to a failed insert or a stop |
| Bearer tokens (`auth/hmac.py`, `mcp/auth.py`) | a JSON file | `issue`, `revoke`, `lookup`, `verify_bearer` | unlocked load-modify-save by several processes, one temporary file name, killed writers, two loads per verification | a revoked token stays revoked, an issued one is honoured |
| Translation (`translation/a2a_mcp.py`) | a process-local HMAC key | event to elicitation, response to resume | late, repeated and made-up responses; several tasks paused in one context; separators inside ids, noticed after the pause | a response resumes the context it belongs to, and the signed payload survives the way |
| Task store and commands (`core/client.py`, `commands/`) | `_tasks` under a lock | list, get, create, update, delete | fields set one at a time; copies after the lock is released | a task is returned as one update left it |
| A2A walkthrough (`walkthrough.py`) | none | the scenario of one task | none | the composed system has its steps |
| CLI, output | none | scenarios, formatting | none | - |

How they interact. In the **single-agent deployment** everything lives in one
process: the MCP server calls the dispatcher, which without a token answers
"approval required"; the gate looks in the consent store, which the consent page
fills; with a decision there it calls `vault.mint`, and the server dispatches
again with the credential, which the dispatcher consumes before it runs the
command; then one audit row is written. The consent page is served by the same
process but by other requests. `/result` hands an approved payload to any client
that knows the session id, and a client may take it to `mint` itself
(`tests/e2e/test_mcp_hitl_building_blocks.py` composes them so), at once or
after the process has restarted. In the **separated deployment** the vault mints
in one process and the resource server consumes in another; the caller carries
the token between them, and the two share a key and nothing else. On the **A2A
surface** an agent's task pauses where the MCP server would elicit; the
translation turns the pause into an elicitation and the host's response into a
message that resumes a task, which then mints and dispatches for itself. In
front of the MCP server, `verify_bearer` looks the caller up in a file that
administrators rewrite from other processes.

`PROJECT.json` lists under `hazards` every place in this code where order,
restarts, boundaries or partial failure matter, with the property that would
catch each.

## 2 Modules

```
Authorization ──┬── InProcessVault ──┬── MCInProcessVault
                │        │           └── A2aBridge (also EXTENDS Translation) ── MCA2aBridge
                │        │ INSTANCE as Contract
                │        ▼
                │    Delegation  ◄── Contract, RsContract ── OAuthVault, SeparatedTier2
                │        ▲
                │        │ INSTANCE as Vault
                │    Dispatcher ── MCDispatcher     (EXTENDS TaskStore)
                │
                ├── JwtTokens ──┬── OAuthVault ── SeparatedTier2 ── MCSeparatedTier2
                │               │       └── MCOAuthVault    ▲
                │               └── JwtResourceServer ──────┘ INSTANCE as RS
                └── ConsentServer ── McpServer (also EXTENDS InProcessVault) ── MCMcpServer
TokenStore ── MCTokenStore
```

The theorems about `M` are in `MProofs`, and a proof module builds on those of the
components inside its own (section 6):

```
AuthorizationProofs ──┬── InProcessVaultProofs ──┬── McpServerProofs
                      │                          └── A2aBridgeProofs
                      └── OAuthVaultProofs ───────── SeparatedTier2Proofs
TokenStoreProofs      DispatcherProofs
```

* **`Delegation`** is the abstract specification: a consent is approved,
  exchanged once in each *life* of the issuer, and the credential is redeemed
  and performed, on its own action, once in each life of the executor. No clock,
  no threads, no errors. A restart begins a new life of the issuer, of the
  executor or of both, and forgets what was redeemed; `SelfContained` says
  whether a credential outlives its issuer (a JWT does, a Tier 1 credential does
  not). Five variables, five actions; the deployments differ in which lives they
  count and in `SelfContained` only.
* **`Authorization`**: payload fields, canonical form, ideal HMAC, `exp`, and the
  checks `mint` and `consume` make. `ValueOf` is what Python's `==` sees of an
  action: `consume` compares with it (`SameAction`) what was signed as bytes
  (`tier2` has two actions that it confuses, the proofs of both vaults any).
  No state.
* **`InProcessVault`**: one bridge process with the Tier 1 vault.
  `issued`, `consumed`, `consumed_signatures` are the three fields of the class.
  `call[t]` is what thread `t` holds in local variables between two steps.
  `mint` is `MintVerify` (all that runs before `with self._lock`) and then
  `MintRecord` or `MintReplay` (the lock section); `consume` is one step, its
  body is one lock section; `Perform` is the dispatcher running the command
  after `consume` has returned. `MintRefuse` and `ConsumeRefuse` are the early
  errors and change nothing but the caller's answer. `approvals`, `grants` and
  `log` are histories that no guard of the code reads (a `jti` is the index of
  its grant, which is how uniqueness of `secrets.token_urlsafe` is modelled).
* **`OAuthVault`**: the same for Tier 2, where `mint` has a third step after the
  lock (`MintEncode`, or `MintEncodeFails` for args that `json.dumps` rejects)
  and `consume` two, because the token and the clock are checked before its lock.
  Callers present any minted token or a foreign one.
* **`JwtTokens`**: the claims of the JWT and the checks that `OAuthVault.consume`
  and `JwtResourceServer.execute` make alike.
* **`JwtResourceServer`**: a component without a clock or tokens of its own;
  `execute` is validate, consume (lock section), then the registry look-up and
  the command, which runs, is not registered (`ExecuteUnknown`), or cannot be
  called with these args (`ExecuteRaises`, for actions outside
  `RunnableActions`). **`SeparatedTier2`** composes it with the minting half of
  `OAuthVault`; each side restarts alone.
* **`ConsentServer`**: `ConsentStore`, `POST /submit` and `GET /result`; a `window`
  is one submission between its session look-up and its decision. `held` is what
  clients have fetched from `/result` and in which life: it is theirs, and a
  restart does not take it away.
* **`McpServer`** composes the Tier 1 vault, the consent surface, the gate, the
  dispatcher and the audit log. `handler` is the tool call being served, by its
  stage: `resume` (try_resume), `begin`, `mint`, `dispatch`, `audit`. The
  handler has no `await`, so only one call is in progress at a time; what does
  interleave with its stages are consent windows, the clock, and other clients
  that fetch payloads from `/result` (`Poll`) and take any of those they hold,
  at any later time, to the vault on threads of their own (`PollerStep`).
  Signing and storing the signed payload are one step: nothing reads the payload
  in between. The scope check comes before the approval is asked for, as in
  `Dispatcher.execute`; read tools and unknown tools are calls too, because they
  matter for what is audited.

* **`TokenStore`**: the file behind `self.path` and the one behind its `.tmp`
  name are inodes, so that a rename can put another writer's open file in the
  store's place. An administrator's `issue` or `revoke` is load, open (truncate),
  write, rename, each a step of its own, and the process may be killed before any
  of them. `check` is `verify_bearer` between its two loads of the file. Only one
  verification is in progress at a time, because `verify_bearer` is called
  synchronously on the event loop.
* **`TaskStore`**: the dict, its `Task` objects and the lock. `list` is one step;
  `get`, `create` and `delete` are a lock section and then two steps of `asdict`
  that read the object without the lock; `update` sets the title, then the
  description, inside the lock. **`Dispatcher`** is `Dispatcher.execute` over that
  store: rejections in the order of the code, the five commands, and
  `delete-task` as `Spend` (the vault's `consume`) and `DeleteTask` (the command).
  Calls send what the schema asks for, nothing at all, or one name more, among
  them `count` and the names that `execute(client=..., **kwargs)` takes itself.
  A human may approve such arguments too (`Unfit`): they pass every check, the
  credential is spent, and the command is never entered (`ExecuteRaises`).
  Its vault is `Delegation` itself, which both real vaults are shown to implement.
* **`Translation`**: strings joined at colons are sequences of segments, which
  is how `split(":")` sees them; the tag of an elicitation id is an ideal HMAC
  under the key of one life. **`A2aBridge`** composes it with tasks that pause
  (`Propose`), have their event translated (`Translate`, or `TranslateFails`,
  which leaves them paused), resume, mint and dispatch on the Tier 1 vault. The
  tasks are the vault's threads. The agent's executor and the MCP host are not
  in the repository: the host may answer at any time, repeatedly, with any
  context and task under any tag it has seen or makes up, and any approved or
  altered payload; the executor resumes any task that is paused in the context
  it is told. The steps are those of the one task of `walkthrough.py`, but for
  one thing: the walkthrough mints the signed payload that it still has in hand
  (line 286), the model what the resume message carries. The dict that the
  walkthrough sends (lines 238-241) leaves out `binding_message`, which is
  signed, so a task that minted from it would fail.

Operators named `...Twice`, `...Anyway` and so on, marked `mutant`, are not part
of any specification. Each is a plausible slip in one definition; substituting
it must make some property fail (`PROJECT.json`, `mutants`), which shows that
the property depends on that code.

## 3 Abstractions

* **Cryptography is ideal.** A signature is the pair of key and signed form; equal
  digests mean equal inputs. Nobody makes a signature under a key they lack:
  what callers can present is signatures over approved forms under any key in
  `Keys`, on any fields, with an `exp` as signed or put off (`ClaimableExps`).
* **An action** stands for a command with the value of its args; a **context** for
  `approver_id` with `binding_message`. In `McpServer` a context is a caller,
  because the gate puts the caller's id there, and the id of a consent session is
  that pair (it is a SHA-256 of it). The binding message is a function of the
  action.
* **Time** advances in ticks, `TicksPerSecond` to a second: the code compares
  `time.time()` with whole-second values, and between two whole seconds the
  boundaries behave differently. `Expiry` truncates as the signer does. The
  clock is monotone; a clock set back is outside the model. `Tick` is enabled
  at any moment, so any delay fits between any two steps.
* **Threads** interleave at the boundaries of lock sections and at the clock
  reads; what lies between two of them touches only local variables.
* **A restart** may come between any two steps and loses all memory of the
  process, while payloads, credentials and tokens in callers' hands, and the
  audit database, survive. A stopped process that stays down needs no action of
  its own: it is a behaviour in which the rest does not happen. `Dispatcher` has
  no restart: its task store is in memory, and everything would start over.
* **Files**: reading the store's text is one step (a small file), writing it is
  one step after the truncation, and over another writer's text it may leave
  that one's longer end (`Garbled`). Processes are killed; the machine does not
  lose power. Issued tokens are distinct, as are task ids (uuid prefixes).
* **Tasks** have two fields that change, title and description, enough for an
  update to be seen half done. The status never changes (section 7), the id
  neither.
* **Delivery on the A2A surface**: a response and the resume it is translated to
  are one step; a lost response is one that is never given.
* **Command execution** is an entry in `log`, except in `Dispatcher`. Whether
  the command itself succeeds in the task store makes no difference to the
  vaults: the credential is spent either way.
* **Bounds**, all of them named constants: `MaxTime`, `MaxApprovals` (distinct
  payloads signed), `MaxMints` (credentials ever issued; reaching it leaves a
  `mint` in progress for ever, which no property counts as completion),
  `MaxRestarts`, `MaxRsRestarts`, `MaxHeld` (payloads fetched from `/result`),
  `MaxSinkFailures`, `MaxCrashes` (killed administrators), `MaxVersions`
  (creations and updates of tasks). Because a bounded system comes to a stop
  when its clock, approvals and credentials are used up, and the process itself
  may rightly stand still, the configurations do not look for deadlock.

## 4 Runs

Each `.cfg` sets constants only. Threads, windows, administrators, texts and, in
`a2a`, tasks of one context and actions are declared symmetric: they are compared
for equality only. The run with a liveness property uses no symmetry.

| Run | Question | Instance |
|---|---|---|
| `tier1` | Does the Tier 1 vault implement `Delegation`, restarts included? What survives the loss of its memory, and does the invariant the proofs rest on hold? | 2 threads, 2 actions, an own and a foreign key, 2 approvals, 2 mints, 1 restart, half-second ticks, over-long TTLs, unexpected rar types |
| `tier1_restart_replay` | Does a payload exchange once across a restart, as the class docstring says? (No.) | 1 approval, 1 restart |
| `tier2` | Does the co-located Tier 2 vault implement `Delegation`? What does the documented restart-replay limitation leave intact? Can a race lose a signature? | 2 threads, 3 actions of which `==` tells two apart, frozen and plain args, 1 approval, 2 mints, 1 restart, tokens that fail each of the checks in turn |
| `tier2_equal_args` | Does a token execute exactly the args whose bytes were signed? (No.) | as `tier2`, 2 approvals, one life |
| `tier2_lost_signature` | Does a spent signature always have its credential? (No.) | as `tier2`, one life |
| `separated` | Do two processes that share nothing but a key implement `Delegation` together? How often and until when can one signature execute when either restarts? | vault on 1 thread, resource server on 2, an unknown command, one that runs and one whose args it cannot take, 2 mints, 1 restart each |
| `mcp_contract` | Does the gate act on the caller's own approval, and do approved actions get done? | 2 callers, 2 windows, 1 action, no poller, one life |
| `mcp_pollers` | Does the whole process keep the contract, with a poller of `/result`, a restart and a failing audit database? | 2 callers, one of them read-only, 2 windows, 1 poller, 1 payload fetched, 1 restart, 1 failed insert |
| `token_store` | What do unlocked writers on one file and one temporary name leave of the token store, and what does a verification see? | 2 administrators, 2 tokens, 1 killed process, 4 inodes |
| `dispatcher` | Are tasks returned whole, deletions consented to, and credentials spent only on calls that run? | 2 threads, a read-only and the in-process caller, 2 tasks, 2 texts, 2 creations and updates, arguments that `delete-task` cannot take |
| `dispatcher_status` | Is a call that sends only what its tool declares accepted? (No.) | as `dispatcher` |
| `a2a` | Who resumes, with what, and how often does it run, whatever the host answers? | 2 tasks in one context, 1 with a URN for a context id, 2 actions, 1 approval, 2 mints, 1 restart |

The first property of `tier1`, `tier2`, `separated`, `mcp_pollers`, `token_store`,
`dispatcher` and `a2a` is the inductive invariant of the module, with its type
invariant as the first conjunct (`IInv`, `T2IInv`, `McpIInv`, `TokenIInv`,
`DispatcherIInv`, `A2aIInv`; section 6). What the others say, beyond the contract:

* `ParameterBinding`, `RsParameterBinding`: what ran is an action equal, as
  Python's `==` has it, to one whose very form a human signed. More is not true
  (`ExactBinding`, section 7). For the resource server this is indirect, it sees
  tokens only, and holds because of what the vault puts into them.
* `CredentialSpentOnce` (Tier 1, across restarts), `TokenSpentOncePerLife`
  (Tier 2), `OneExecutionPerPairOfLives` (separated): how often one credential
  or one signature runs. They differ because the memories do: a Tier 1
  credential needs the vault's own issuance record, a Tier 2 token only the key.
* `CredentialDiesWithProcess`: the other half of the Tier 1 restart argument.
* `LifetimeEnforced`, `ReplayWindowBounded`, `RsReplayWindowBounded`: no execution
  under a credential begins after `exp` or later than the vault's maximum TTL
  after the mint read the clock, whatever threads and restarts do. "Begins" is
  the check of `consume`: the command itself may run later.
* `SignatureExchangedOncePerLife`, `SignatureLostOnlyToEncoding`: one credential
  per signature, and not none unless its args cannot be encoded.
* `RsTokenLostOnlyToBadCall`: the resource server spends a token before it looks
  the command up. A token that was spent has run in this life of the server, is
  about to, or is for an action that `==` does not tell from one the server
  cannot run: no race, refusal or drifted call burns an approval.
* `OwnApproval`: the gate's cache and its deterministic session ids never give
  one caller another's credential.
* `DecisionStands`, `ExecutionsWereConsented`: two windows, late submissions and
  repeated elicitations do not revise a decision, and whatever ran in this life
  stands approved, and not denied, in its own caller's session, unless a client
  had its payload from `/result` in an earlier life: such a payload is exchanged
  again after the restart, when there is no session, or one that was denied.
* `RowsAccountedFor`: executions without an audit row are at most those in
  service, those whose insert failed, and one for each time the process stopped.
* `ApprovedRuns`: an approved action is eventually executed, unless the approval
  lapses or the process forgets it. So no retry may run into the gate's own
  replay check: nothing would ever execute after it. (With a poller that is a
  possible outcome, and `mcp_pollers` checks what holds then.)
* `RevocationHolds`: a token whose revocation had the store to itself is never
  honoured by a verification that starts afterwards, whatever races, failed saves
  and killed writers come later. (A revocation that overlaps an `issue` can be
  lost, as can be read from the code: the `issue` saves what it loaded before.)
  `QuietStoreIsExact`, `LiveTokenHonoured`: without overlaps the store says
  exactly what administrators were told, even if one is killed in mid-save, and
  honours every token that nobody set out to revoke. Overlapping saves can leave
  text that does not decode. It then stays so for every later operation, because
  each begins with a load, unless a save that is already under way replaces it.
* `ReturnsWholeTasks`: what `list`, `update` and `delete` return is a version some
  creation or update left, and `delete` returns the last one. `get` and `create`
  copy after the lock: their answer can mix two versions, but only if an update of
  that task came in between.
* `DeletionsConsented`, `SpentCredentialsRun`: a task that is gone was deleted on a
  credential of its own, with a human's approval behind it; and no call that the
  dispatcher refuses spends a credential. What remains is the approval of
  arguments that the command cannot take, which is lost to a `TypeError`.
* `ElicitationsLeadBack`, `ResumedByOwnContext`: every id that a host was given
  in this life leads back to the context of its task, and only such ids, for
  that context, resume anything. A pause can be a dead end, an elicitation
  cannot: where the ids have separators in them the task has already paused when
  the translation refuses it, and stays so with nobody asked.
  `SignedProposalsRun`: a task that resumes with what was signed for its own
  proposal is turned down only for its time or as a replay. `AnswersRunOnce`:
  however often and wherever an answer is delivered, what was signed once runs
  once in each life. The last two bound what the translation leaves open: the
  resume message names a context and no task (`translation/a2a_mcp.py:225`), so
  with two tasks paused in one context the executor may resume the wrong one.
  The vault's binding then refuses to run its proposal under the other's
  signature, and that answer is lost.

**Why these bounds.** Every property of the vaults but the contracts speaks of
at most two credentials, executions or sessions, so two mints and two approvals
reach every violation that two of them can make; two threads (or windows, or one
loop and one poller) suffice for every race, because each lock section excludes
the others and each property speaks of two calls. `MaxTime` covers a mint at,
before and after `exp`, and a consume exactly at `exp` and one tick past it,
with an approval at a fractional second where `TicksPerSecond` is 2
(`mcp_pollers` stops at `exp`: which side of it a step falls on is `tier1`'s
matter). One restart separates two lives; more repeat them. In the token store
two writers are enough for each way of sharing the temporary file, and two
tokens for one operation to undo another; four inodes are one for each name and
each open file. In the task store a torn copy takes one copier, one update and
two texts. The A2A instance has the three relations two tasks can have: same
context, other context, and ids that cannot be translated. That these bounds are
not too small is shown by the mutants: every property is violated, within them,
by a slip in the code. For all but one of the properties that hold, the proofs
remove the bounds altogether.

## 5 Fairness

Only `ApprovedRuns` needs any (`FairMcpSpec`).

* Weak fairness of `ServeStep`: a tool call that has begun is served to its end.
  The handler is straight-line code on the event loop without an `await`, so it
  runs unless the process stops. `AuditFails` is left out: nothing obliges an
  insert to fail.
* Strong fairness of each `CallGated`: the client repeats its call, which is what
  the elicitation asks it to do. It must be strong, because each retry is
  disabled while another call is served. It says nothing of when: a retry may
  come after the approval has lapsed, and the property allows for that.

No fairness is assumed of the human, the clock, pollers or restarts.

## 6 Proofs

TLAPS proves every property that a passing run checks, except the liveness
property `ApprovedRuns`, for any number of threads, tasks, windows, callers,
administrators, actions, keys and restarts, any tick length and any bounds. The
theorems hold of the specification that the run checks (`THEOREM Spec => []Inv`,
`Spec => KeepsContract`); the assumptions are on constants only.

Each module has one **inductive invariant**. A property is seldom inductive by
itself: `CredentialSpentOnce` speaks of the log alone, and a state in which a
thread is about to run a credential that is already in the log satisfies it for
one more step only. The invariant adds what a call in progress may rely on and
what the memory of a process says about its histories, and each run model-checks
the invariant that its proofs rest on. The proofs have one lemma per part of the
invariant and in it one case per action that can disturb that part.

| Module of proofs | Theorems | Property |
|---|---|---|
| `InProcessVaultProofs` | `TypeCorrect`, `Invariance` | `TypeOK`, `IInv` |
| | `SingleUse` | `CredentialSpentOnce`: across restarts too |
| | `BindingHolds` | `ParameterBinding` |
| | `RestartClosure` | `CredentialDiesWithProcess` |
| | `Lifetime` | `LifetimeEnforced` |
| | `OneCredentialPerLife` | `SignatureExchangedOncePerLife` |
| | `NoSignatureLost` | `SpentSignatureHasCredential` (a conjunct of `IInv`) |
| | `ImplementsContract` | `KeepsContract` |
| `OAuthVaultProofs` | `TypeCorrect`, `Invariance` | `TypeOK`, `IInv` |
| | `SingleUsePerLife` | `TokenSpentOncePerLife` |
| | `BindingHolds` | `ParameterBinding` |
| | `ReplayWindow` | `ReplayWindowBounded` |
| | `OneTokenPerLife` | `SignatureExchangedOncePerLife` |
| | `NothingElseLosesSignatures` | `SignatureLostOnlyToEncoding` |
| | `ImplementsContract` | `KeepsContract` |
| `SeparatedTier2Proofs` | `DeploymentInvariance` | `T2IInv` |
| | `DeploymentRefinesVault` | `T2Spec => Spec` of `OAuthVault` |
| | `RsBindingHolds` | `RsParameterBinding` |
| | `ExecutionPerPairOfLives` | `OneExecutionPerPairOfLives` |
| | `RsReplayWindow` | `RsReplayWindowBounded` |
| | `RsTokensAreNotLost` | `RsTokenLostOnlyToBadCall` |
| | `DeploymentImplementsContract` | `RsKeepsContract` |
| `McpServerProofs` | `McpInvariance` | `McpIInv` |
| | `ServerRefinesVault` | `McpSpec => Spec` of `InProcessVault` |
| | `ConsentBehindExecutions` | `ExecutionsWereConsented` |
| | `DispatchUnderOwnApproval` | `OwnApproval` |
| | `RowsAreAccountedFor` | `RowsAccountedFor` |
| | `DecisionsStand` | `DecisionStands` (an action property) |
| | `DeploymentKeepsContract` | `ServerKeepsContract` |
| `TokenStoreProofs` | `TokenInvariance` | `TokenIInv` |
| | `RevocationIsFinal` | `RevocationHolds` |
| | `SavesAreAtomic` | `QuietStoreIsExact` |
| | `LiveTokensAreHonoured` | `LiveTokenHonoured` |
| `DispatcherProofs` | `DispatcherInvariance` | `DispatcherIInv` |
| | `WholeTasks` | `ReturnsWholeTasks` |
| | `EveryDeletionConsented` | `DeletionsConsented` |
| | `NoCredentialWasted` | `SpentCredentialsRun` |
| `A2aBridgeProofs` | `A2aInvariance` | `A2aIInv` |
| | `SurfaceRefinesVault` | `A2aSpec => Spec` of `InProcessVault` |
| | `NoElicitationIsADeadEnd` | `ElicitationsLeadBack` |
| | `ResumedByOwnContextOnly` | `ResumedByOwnContext` |
| | `GenuineAnswersRun` | `SignedProposalsRun` |
| | `AnsweredOnce` | `AnswersRunOnce` |

`AuthorizationProofs` holds lemmas only: what the signer produces, and how
sequences grow.

**Tier 1.** `CallsInv`: a `mint` past its checks holds a payload that was approved
and in bounds *when it looked*; a thread past `consume` holds a jti that is
consumed, not yet in the log, and held by no other thread. `GrantsInv`: `_issued`
is exactly the part of the grants made in this life, consumed jtis are issued
ones, and every grant of this life has its form among the spent signatures. A
restart empties the memory and starts a new life, so these clauses survive it
vacuously, and that is the restart argument. `LogInv` ties the log to the
grants: same life, an action equal under `==`, within the credential's time.
`BindingHolds` follows because `mint` verified the signature over the presented
form and the model's HMAC is injective (`VerifiedIsApproved`), `Lifetime` from the
bounds recorded at the mint's clock read.

**Tier 2.** The same with three more kinds of step. Between its lock section and
the encoding a `mint` alone holds its signature (`EncodeCallsInv`): that keeps one
token per signature although the grant comes after the lock. A token past the
first checks of `consume` is one this vault minted, in whichever life, and was
live when it was looked at (`TokenCallsInv`, from `AcceptedIsMinted`: a token that
passes the checks is none of the foreign ones). A restart forgets which tokens
were used, so what survives it is the clause on lives in `LogInv`; the bound on the
replay window comes from the token's own `exp`.

**The separated deployment.** `T2IInv` is the vault's invariant with the same
clauses for the resource server, over its own lives. Every step of the
deployment is a step of `OAuthVault` or leaves the vault alone
(`VaultSimulated`), so the vault's half is reused, not proved again, and every
theorem about the vault's minting holds here (`DeploymentRefinesVault`).
`ExecutionPerPairOfLives` combines two facts: one token per signature and life of
the vault, one execution per token and life of the server. `RsTokensAreNotLost`
rests on the step from `Consume`, which alone records a jti, to the command: it is
one thread's, and ends in the log unless the command is unknown or cannot be called.

**The contract.** Each refinement theorem maps every action to one of
`Delegation`'s or to a stutter: recording a grant to `Exchange`, recording its use
to `Redeem`, the execution to `Perform`, a restart to one of issuer, of executor
or of both. The invariant supplies the guards of the contract's actions: a form
is exchanged once in a life, so credentials of the model and of the contract
are one-to-one (`SameCredential`), and a credential in a thread's hands has not
been performed.

**MCP server.** The vault's invariant is kept because each step is a step of
`InProcessVault` or leaves it alone (`VaultStep`), so that every theorem about Tier 1
holds of this process too (`ServerRefinesVault`; likewise `SurfaceRefinesVault` for
the A2A surface). What is added: a session's id is
that of its approver and action, and its payload was signed for them
(`SessionsInv`); what a client holds was approved for somebody with the scope, and
if it was fetched in this life it stands in its session (`HeldInv`); whatever is on
its way through the vault, and every credential of this life, has its payload
standing in its own session or in the hands of a client since an earlier life
(`ConsentedInv`); a cached
credential belongs to this life and to its session (`MintedInv`); and the stage of
the handler agrees with its thread's call in the vault (`HandlerInv`). So two
callers cannot share a credential, since ids of sessions are injective, and a
session with an approved payload is never denied, which is what `DecisionsStand`
needs of each window, however old its look-up.

**Token store.** `SettledInv` is the argument for revocations: a settled
revocation is in all that can still become the store, namely the text behind either
file name and the copy that each operation has loaded. So whichever of them is
saved last, it contains the revocation; text that does not decode stops every
operation that would load it. `WritersInv` and `QuietInv` say that an operation that has
the store to itself finds in the temporary file what it put there. The inodes
must suffice (`FreshInode`: finitely many administrators have fewer files open
than there are inodes).

**Dispatcher and task store.** Only the lock's holder updates (`LockInv`); an
object is its last version but for a title that an update has set
(`VersionsInv`); a copy in progress that is marked undisturbed has no update under
way and matches the last version so far (`CopyInv`). `SpendingInv` says of a call
between `Spend` and `DeleteTask` that its credential is redeemed, its own, for
these arguments, and not yet performed; so the only way for it to end without
`Perform` is `ExecuteRaises`.

**A2A surface.** Joining and splitting at colons are shown to be inverse for ids
without a colon (`IdShape`, `VerifiedId`): that is why the check that refuses to
translate a URN is what `NoElicitationIsADeadEnd` needs (`SentInv`: whatever was sent
has ids without one). A resumed task presents
what it was answered with, and nothing else (`ResumedInv`); a task that has minted
holds a credential of this life, its own, and unspent until it spends it
(`MintedInv`); whatever was signed mints until it lapses (`SignedMintable`).
`AnsweredOnce` then follows from the vault's invariant.

**Assumptions.** On the vaults: the secret is a key, TTLs and bounds are natural
numbers, `ValueOf` has a value for each action, a second has a positive number of
ticks, the maximum TTL is positive, `HS256` is an algorithm. The others say
something about the code:

* `ForeignAssumption`, `RsForeignAssumption`: a token that is not the vault's own
  differs in algorithm, key or issuer, which is what it means that nobody else
  has the secret.
* `StringArgsAssumption` (`McpServer`): the gated tool takes strings, which `==`
  tells apart (`tools.py`, `delete_task`).
* `SignerAssumption` (`A2aBridge`): the human's side signs under the one
  `RAR_TYPE` that the vault expects and for less than its maximum lifetime (300 s,
  `consent/demo_signer.py:38`, against 600 s, `vault/in_process.py:45`). The vault's
  own theorems do not assume it.
* `A2aAssumption`: ids are what `split(":")` gives, never an empty list; a task's
  id is unique in its context.
* `TokenStoreAssumption`: finitely many administrators, and two more inodes than
  administrators, one for each file name.

TLC evaluates each of them in the runs of its module.

**Only model-checked**: `ApprovedRuns`, because liveness under fairness is beyond
the prover. The properties of the four runs that expect a violation are false,
so there is nothing to prove.

## 7 Where code and documents differ

Four runs expect a violation; each states what a document says, and TLC's trace
shows what the code does.

1. *A Tier 1 restart reopens payloads* (`tier1_restart_replay`). The docstring of
   `InProcessVault` says a payload replayed after a restart "fails at the issuance
   check". That check is in `consume` and protects credentials; `mint` reads only
   the set of used signatures, which the restart emptied. Until `exp`, a signature
   can be exchanged, and its action executed, once more.
2. *A signature can be spent on nothing* (`tier2_lost_signature`). `OAuthVault.mint`
   marks the signature before it encodes the token. Args in a `MappingProxyType`
   pass the canonical encoder and fail the JWT encoder.
   `SignatureLostOnlyToEncoding` shows this is the only way.
3. *A credential runs more than what was signed* (`tier2_equal_args`). The signature
   covers canonical bytes, which tell `1` from `true`; `consume`, in both vaults and
   in the resource server, compares args with `!=`, for which `1`, `True` and `1.0`
   are equal. The README's "exact command and arguments", "bound to those bytes",
   and the consent page's "this exact action with these exact arguments" hold only
   as far as `==` goes. The gated tool of this repository takes strings, for which
   there is no difference.
4. *The status of a task cannot be updated* (`dispatcher_status`). `update_task`
   declares a parameter `status`, and `Dispatcher.execute` raises `ValueError` for
   every call that has it: `status` is one of the names it reserves for the
   metadata of a result.

These were seen while modelling and have no run of their own.

* A denied action stays denied: `docs/architecture.md:197` has a retry produce a
  fresh event, but the session id is a function of caller and action and sessions
  are never evicted, so on the MCP surface no approval of it is accepted again in
  this life (`DecisionStands` is the other side of that).
* A payload that a client fetched from `/result` runs after a restart, although
  the new life has no session for it or has denied it. It is disagreement 1
  as it shows on the MCP surface; `ExecutionsWereConsented` says how far it goes.
* Arguments named `client` or `self` pass the dispatcher's checks, spend the
  credential that was approved for them and then raise a `TypeError` that nobody
  catches (`core/dispatcher.py:207`, `247`); in the resource server likewise.
* A task whose ids cannot be translated has paused before that is noticed
  (`translation/a2a_mcp.py:178-187`), and no elicitation of its own will ever be sent.
* Not every tool call is audited: `src/README.md:189` has "every MCP tool-call writes
  exactly one `tool_call` audit row", but elicitations, unknown tools and errors
  raised by `mint` or by a command leave the handler before `audit.write`.
* The translation's docstring (`translation/a2a_mcp.py:152-154`) speaks of routing a
  response to the correct paused task, where the message carries the context alone.

## 8 Not modelled

* The canonical encoding byte by byte. That it identifies the signed fields is
  assumed, and floats are taken to be rejected; what `==` does with them
  afterwards is modelled (`ValueOf`).
* The MCP SDK: a call in the model carries a verified caller. Two sessions of one
  caller are one caller, as in the code.
* The consent page itself (`GET /consent/...`), which changes no state.
* In `McpServer`, arguments that the command cannot be called with: their
  `TypeError` leaves the handler before the audit row, without an execution.
  `Dispatcher` and `JwtResourceServer` have it. An `ApiError` of the command is
  told from success in neither `McpServer` nor `JwtResourceServer`: the token is
  spent either way.
* Contents of audit rows, log messages, HTML. The CLI and `core/output.py`:
  sequential scenarios and text layout without state of their own. The
  walkthrough's printing and its Tier 2 variant.
* Calls of the MCP surface that leave out a parameter their schema requires: the SDK
  rejects them. `Dispatcher`, which other callers reach too, has calls with no
  arguments at all.
* The A2A surface over the Tier 2 vault: the vaults differ in `mint` and
  `consume`, which `tier2` covers, not in how a task uses them.

## 9 Plan

Built in this order: `Authorization`, `Delegation`, `InProcessVault` and its
proofs, `OAuthVault`, `JwtResourceServer` and `SeparatedTier2`, `ConsentServer`,
`McpServer`; then lives in `Delegation` and the proof of the refinement across
restarts, `ValueOf`, `TokenStore`, `TaskStore` and `Dispatcher`, `Translation` and
`A2aBridge`; then the proofs about all of them. What could still be
added: theorems about `Delegation` itself, so that what it promises (a credential
is performed at most once in each life of the executor, on its own action, after
an approval) is proved of the contract once and inherited by every deployment
through its refinement; and a finer model of the canonical encoding.

## 10 Running it

```
tlc -workers 2 -config MCInProcessVault.cfg MCInProcessVault
tlapm InProcessVaultProofs.tla
```

The `runs` of `PROJECT.json` name the module and configuration of each run. The
largest take about two minutes. `tlapm` takes from one to a few minutes on each of
the modules named `*Proofs`.
