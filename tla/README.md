# InheritX: models, checks and proofs

TLA+ modules, TLC configurations and TLAPS proofs for InheritX. Line numbers
without a file refer to `src/contracts/inheritance-contract/src/lib.rs`.

    tlc -workers 2 -config estate.cfg MCInheritance.tla     one run
    tlapm InheritanceProofs.tla                             one proof module

## 1. Inventory

InheritX is a set of Soroban contracts (Rust, `contracts/`), a backend (Rust,
`backend/`) that keeps its own database of plans, loans and users, and a
web frontend. Ownership, money and inheritance live in the contracts.

| Component | State it keeps | Operations | Status |
|---|---|---|---|
| Inheritance contract: accounts, roles, KYC | admin, roles, pause switch, KYC status | initialize_admin, assign_role, revoke_role, pause, unpause, submit/approve/reject_kyc, batch_approve_kyc | modelled |
| - plans | plan records, next id, token balances, lists of plans per owner and of deactivated plans | create, deposit, withdraw, set_lendable, waterfall and priorities, beneficiaries alone and in batches, allocations, deactivate, transfer | modelled |
| - claims | claim records, lists of claimed plans | claim_inheritance_plan, batch_claim | modelled |
| - triggers | conditions and trigger record of each plan | set/add conditions, oracle and health reports, record_activity, trigger_inheritance, auto_trigger_check, recall_loan, liquidation_fallback | modelled |
| - emergency access | access record, guardians, approvals, contacts | activate, approve, deactivate, get (drops an expired record), set_guardians, add/remove contact | modelled |
| - wills, messages, notices | hashes, versions, signatures, witnesses; messages per vault; notices and acknowledgments | every entry point that writes them | modelled |
| - upgrade, links, disputes.rs, price_feed.rs | version, two addresses | upgrade, migrate, set_* | not modelled: the code itself is replaced, the links are never used, and the two files are not part of the crate |
| Lending contract: pool, loans | shares, retained yield, reserves, loans by borrower and by id, roles, settings | deposit, withdraw, withdraw_priority, flash_loan, borrow, repay, liquidate, refinance, consolidate, split, settings | modelled |
| - staking and insurance | stakes, reward pools, insurance fund | stake, unstake, claim, compound, fund, premium rate | modelled |
| Loan NFT | metadata with its fields, owners, approvals, operators | mint, burn, transfer, approve | modelled |
| Borrowing contract | loans, collateral, auctions, roles, three pauses | create, repay, extend, increase, liquidate, start/bid/execute auction, settings | modelled |
| Governance contract | balances, delegations, proposals, votes, signed transactions | delegate, propose, vote, execute, cancel, propose/sign/execute transaction, settings | modelled |
| Backend: plans and claims | tables plans, claims, kyc, events of debt | KYC, create, claim, cancel, pause, risk override; risk engine and liquidation bot | partly |
| - loan records, insurance fund | tables of loans, collateral, fund, fund transactions, fund claims | lifecycle, collateral, fund transactions, claims, payouts, metrics | modelled |
| - wills, signatures, witnesses, contingents | will documents, versions, challenges, signatures, witnesses, contingents | generate, finalize, challenge, sign, invite/sign/decline, add/promote | partly |
| - emergency access | contacts, grants, sessions, overrides | create, grant, revoke, start session, override, hourly job | partly |
| - message keys and delivery | data keys, sealed messages | create, rotate, seal, delivery pass | modelled |
| - retries, circuit breaker | two atomics per breaker | call, retry | modelled |
| - login sessions, webhooks, caches, prices, documents, reports; frontend; mock token; example contract | | | not modelled, see section 5 |

**How the parts interact.** Every entry point of a contract is one atomic call
on one storage. Inside the *inheritance contract* the parts meet in that storage:
claims, withdrawals, loans and the recall change the same recorded amount; a
trigger lifts the waiting time and the liquidity check of single claims;
emergency access limits payments and lets a contact trigger; a role granted on
the side (Owner at creation, Guardian by set_guardians, Beneficiary by a claim)
is what another call checks; wills, messages and notices read plans and triggers
but never write them. Its only call to another contract is the token transfer.
The lending side appears there as a change of total_loaned: no entry point
writes it, and the tests do it by writing to the storage (`test.rs` 2132-2143).

The *lending contract* calls the loan NFT: it mints with a loan and burns with
its repayment, and a token that was never minted makes the call trap. The
metadata it sends has a field more than the repository's token decodes, so with
that token every call that makes a loan traps (section 3); the model has this
token, and one that takes what is sent. It calls the receiver of a flash loan in the middle of its own call.
The *borrowing contract* and the *governance contract* call tokens and, from a
proposal, any linked contract; the answer of such a call is a choice of the
environment (it may trap).

The *backend* reads and writes PostgreSQL from concurrent handlers and periodic
jobs. It learns of the contracts by events from outside. Its parts meet in the
tables: claims lock the plan that pauses, cancellations and the risk engine
write; a payout of the insurance fund reads the loan it covers; a session reads
the grant that a revocation ends; sealing reads the key a rotation retires.

**What is hard here.** In a contract there is no interleaving inside a call: an
error or a panic undoes everything. The difficulty is in sequences of calls by
several accounts, in arithmetic that rounds, in one debt kept in several records,
and in batches, which fail entry by entry and keep the rest. In the backend it is
what falls between two statements of one request, what commits although a later
statement fails, and counters written by several threads. The hazards, each at
its line, with the properties that would catch them going wrong, are in
`PROJECT.json` under `hazards`.

**What makes each part correct.**
- *Plans and claims*: recorded amounts and granted claims are always in escrow;
  shares add up; nobody is granted twice; a deactivated plan grants and takes
  nothing; only a batch reaches into what is lent; the lists per account agree
  with the records.
- *Triggers*: fired once and for a reason, never taken back; what was lent then
  is recalled, settled or still booked.
- *Emergency access*: a quorum of different guardians, no replacement of access
  in force, the limit on its first day.
- *Accounts*: a pause holds all funds; losing the last Admin is permanent.
- *Wills and messages*: one active version, and it is the linked one; a
  finalized will, or a finalized or unlocked message, does not change.
- *Heirs*: who keeps claiming is served in the order of the waterfall.
- *Pool*: no call makes a share worth less; what depositors, stakers and the
  reserve are promised is held or lent; loan records, ids, totals and NFTs agree.
- *Borrowing*: active means owed; no call pays out the collateral of others.
- *Governance*: delegates and delegators agree; an outcome stays once voting is
  over; what was executed or cancelled stays so.
- *Backend*: one payout per plan and none while it is frozen; the fund pays what
  its claims say; a challenge signs once; every open session was granted; the
  newest key is active; an open circuit closes again when calls succeed.

## 2. Modules

    Storage                     maps, tokens and lists, for all contracts
      InheritanceState          storage, records, constants, shared guards
        AdminOperations  PlanOperations  ClaimOperations
        TriggerOperations  EmergencyOperations      one action per entry point
          InheritanceContract   all of them: Next, Spec, properties
            EstateRefinement    refinement of EstateLedger (the abstract contract)
              MCInheritance     instances for TLC
            PlanRecords         with WillRegistry, LegacyMessages, BeneficiaryNotices
              MCRecords         instances for TLC
      LoanNft
      LedgerClock               accounts and a clock, for all the others
        LendingState (with LoanNft), PoolOperations, LoanOperations, LendingSettings
          LendingContract       the pool, its loans, stakes and NFTs
        BorrowingContract       loans, liquidations, auctions
        GovernanceContract      votes, delegation, signed transactions
        BackendRequests         requests between two statements, roll-backs
          PlanService           plans, claims, risk engine, liquidation bot
            LoanService         loan rows, collateral, insurance fund
          WillService           documents, challenges, witnesses, contingents
          AccessService         contacts, grants, sessions, overrides
          MessageService        keys, sealed messages, delivery
    CircuitBreaker              breaker and retries
      MCCompanions              everything from LendingContract on, for TLC
    IterationLemmas, InheritanceProofs, PlanProofs, EstateProofs, RecordsProofs,
    LendingProofs, CompanionProofs, CompositionProofs    theorems

**State.** Each VARIABLE of a contract is a storage key and says which
(`DataKey::...`). A persistent map is a function on the keys present: `Put` is
`storage.set`, `Drop` is `storage.remove`. `token` holds the balances of the
settlement token; the escrow is the contract's own balance. A table of the
backend is a sequence of rows, and an id is the place of its row. `PROJECT.json`
maps each definition to the lines it translates.

**Actions of a contract.** An action is a call that returns Ok: all the guards
and early returns of the handler, then all its writes. A failing call is a
stuttering step. Consequences: the lock of enter_guard is never
seen between calls; a call that finds an expired emergency record drops it and
then fails, so the record is back, and only get_emergency_access removes one;
access_legacy_message hashes the caller's address against hashes of e-mails,
never returns Ok, and so has no action; neither do the purchase, the claim and
the cancellation of a loan insurance and accrue_interest_with_reserve in the
lending contract, which look up a loan under a key nothing writes. A release
build traps on overflow, so a subtraction below zero is a failing call too.

**Actions of the backend.** A handler that reads and writes under one lock is one
action. A handler that reads first and writes later without a lock is two or
more: what it read stays in `requests` with its worker, and any other request
may act before it goes on. READ COMMITTED is modelled by what it lets a
statement see; `SELECT .. FOR UPDATE` by reading again in the writing
action; a handler that fails or whose connection drops ends by `RollBack`.
In the circuit breaker an action is one access to one atomic.

**Batches** are folds over the entries, written as recursive functions:
`PlanAfterAdds`, `PlanAfterRemovals`, `BookAfterClaims`, `BoxAfterBatch`. Each
entry acts on what the one before left, and one that fails is skipped.

**Data.** `hash_string` feeds the positions of the characters to its hash and
not the characters, so what is left of an e-mail is its length: `HashString`
is `EmailLength`, and e-mails of one length share their claim key. Time is
counted in days, for every period in the code is a whole number of them.
Indices start at 1. `U64Max` is a constant: the fee that becomes zero
when its product overflows, the overflow check of deposit and the saturating
subtractions are in the model. `ClaimRecord` carries the payout, which
the code puts in the CLAIM event. In the lending contract rewards are counted in
`DEFAULT_REWARD_RATE` per day; in the borrowing contract `amount_repaid` may
exceed the principal, as in the code; the circuit breaker's count stops one
above the threshold, where nothing tells it from more.

**Assumptions of the model.**
- create, deposit and withdraw of the inheritance contract take the token contract
  as an argument. The model has one token. `EscrowBacksPlans` and the refinement
  hold under it, and say nothing of callers who pass another token.
- `FreezePlan`, `LegalHold`, `VestingExitSettlement` are read and never written,
  and has_active_vesting_schedule is constantly false: those branches are dead.
- A share is a share of what the plan *still* holds, single and batch alike.
- `ExternalLend` is the lending side; it books at most what is available, on an
  active lendable plan.
- The database is outside the repository: a statement has the effect its SQL
  states. Where the migrations would reject it (section 3) the model follows the
  statement, for the tests run against their own schema.
- initialize of the lending contract grants no role, and only an admin can grant
  one, so no admin call of it can ever succeed. `LendingStart` explores the contract
  as deployed and also as the tests presume it: with an admin, a listed collateral,
  and with or without an NFT.
- An admin may approve an amount of either sign for a claim on the insurance fund
  (`ApprovedAmount`), as the handler and the table do; claimed amounts are positive
  by a CHECK. Contributions, yield and fees are positive: nothing in the repository
  calls record_transaction with them, so their amounts are the environment's.
- Token balances of the governance contract have any sign, as set_token_balance
  does; a negative one takes votes away. They are not bounded by i128, whose overflow
  makes a call trap.
- The NFT token is either the repository's, which decodes other metadata than the
  lending contract sends, or one that differs from it only in taking them
  (`SentFields`, `OwnFields`).
- The trigger record has a field the code lacks: `by`, the account that triggered the
  plan by hand, None for auto_trigger_check. No guard reads it; `TriggersAreDue` does.
- Amounts passed to the borrowing contract are positive, as in every test; a
  negative repayment is accepted by the code (section 3).
- Event and log output, and dates nothing reads, are left out.

**Faulty variants.** An operator whose comment begins with "Faulty:" is a
plausible bug of its neighbour. No action uses one. `PROJECT.json` lists them
under `mutants`: put in the neighbour's place, each makes TLC refute the
property it is listed with, which shows the run can tell.

**The abstract contract.** `EstateLedger` is what the inheritance contract
promises about money: an escrow, a fund per plan, grants, inherited and closed
plans, and seven ways to change them. `EstateRefinement` maps the contract's
storage to it; `ImplementsLedger` says that every call is one ledger step or none.

## 3. Runs

All values below are small, and the cases they allow are what matters. In the
runs of the inheritance contract there are three accounts (owner, heir, admin_),
and e-mails ann and bob of different lengths, with cid as long as ann. A plan of
100 holds 98 after the 2% fee, so halves of it, loans of 30 and moves of 50 (90
in `emergency`) can exhaust it, round and collide. An empty candidate set takes an entry point out of
an instance: each run keeps the operations its question needs. Each bound is a
constant named "bound" where it is declared. `MaxRecovered` stops recalls once 40
of it is recovered: a loan can then be recalled, booked again and written off,
but not without end.

| Run | Distinct states | What varies | Properties |
|---|---|---|---|
| estate | 135,766 | deposits, withdrawals, loans, single and batch claims (with one heir entered twice), pause, trigger, recall, write-off, deactivation | TypeOK, EscrowBacksPlans, TriggeredLoansAccounted, TriggerIsFinal, DeactivationIsFinal, LoansStayCovered, AmountFallsForAReason, PauseHoldsFunds, ImplementsLedger |
| beneficiaries | 388,849 | add, remove, re-add, re-prioritise, allocations, batches, claims in between, a third e-mail with a colliding hash | AllocationsAddUp, ClaimedFlagIsBacked, ClaimsAreFinal |
| accounts | 124,324 | two plans, transfers both ways, deactivation, claims, KYC, the Admin role granted and revoked, two accounts that try to become the admin | IndexesAgree, LockoutIsPermanent |
| emergency | 638,895 | guardian lists and thresholds, approvals, access given, revoked and lapsing over fifteen days in weeks, date and inactivity conditions, a withdrawal and claims above the limit and one at it, alone and in a batch, triggers by the contact | GuardianAccessHasQuorum, EmergencyAccessIsNotReplaced, TriggersAreDue, CooldownLimitsEachPayment |
| waterfall | 319,766 | heirs who keep claiming, loans, pauses, withdrawals, deactivation, a manual condition with an oracle and a health reporter | HeirsAreServed (`PersistentSpec`) |
| records | 381,461 | wills, messages and notices while the plan is created, transferred and triggered | RecordsTypeOK, ActiveWillIsLinked, MessageIndexAgrees, FinalizedWillStays, MessagesSettle, UnlockReachesEveryMessage |
| companions | 417,738 | the other contracts and the backend, in 19 parts (below) | CompanionTypes, LendingBooksAgree, ActiveMeansOwed, DelegatorsAgree, PaidOutOnce, LoanRowsAgree, ChallengeUsedOnce, OpenSessionsWereGranted, NewestKeyIsActive, SharePriceNeverFalls, BooksAreBacked, OthersCollateralIsKept, OutcomeIsSettled, FrozenIsNotClaimed, CircuitCloses (`FairSpec`) |

One plan suffices where a property speaks of one plan, for a call changes
`plans[p]` of one plan alone. The lists have two plans in `accounts`. The sum of
`EscrowBacksPlans` is checked over one plan and its claims, and proved for any
number. `emergency` moves in weeks, which puts a call on the day of an activation,
on the last day of the seven (still in force) and after it. Approvals are bounded
by the guardians, versions and messages by two, which is what a predecessor and a
successor need.

**The parts of companions.** These components share no storage, so a behaviour of
all of them together is an interleaving of behaviours of each, and every property is
about one of them. `part` is chosen at the start and never changes; the properties
are checked in every part. Where two requests run at once (`Second`), the first worker
does everything, and the second what competes with it for the part's property: a
claim or a cancellation, a pause, a payout, a session, a rotation or a delivery.

| Part | Component | Bounds, and the cases they let happen |
|---|---|---|
| shares | PoolOperations, loans, rate model | 8 calls; deposits of 2000 after locked shares of 1000, withdrawals of 1000, yield of 202 and reserves of 2 taken out, flash loans returned in full and too small, days in fours |
| loans | LoanOperations | 4 loan ids; borrowing, late repayment, partial liquidation, refinancing, consolidation of distinct, single and doubled ids, splits that do and do not add up |
| nft | LoanNft, borrowing | transfers, approvals, a token set after a loan was made; the same with the repository's token, which lets no loan be made |
| stakes | staking | two stakers, rewards per day, claims and compounding |
| admin, fees | LendingSettings | a contract as deployed; a second pool, which resets the insurance fund |
| auctions | BorrowingContract | two loans of one collateral, one of them auctioned; repayments of 500 up to 1500, liquidation, increases, discount over 8 days, bids against repayment |
| desk | BorrowingContract | one loan; extensions, increases, pauses, roles, ratios |
| votes | GovernanceContract | one proposal of ada's, three accounts, two delegations, four delegations and votes in all (`MaxActs`), balances set during the vote, one of them negative, days before and after the deadline |
| signers | GovernanceContract | three lists of signers and thresholds while a transaction is signed |
| plans | PlanService | two concurrent requests on one plan, one of them a claim or a cancellation, months, debts of 80 at two prices, risk engine and bot |
| pledges | LoanService | one loan of 30 days in months, two collateral assets, collateral of up to 160 given back and added in 80s, two prices of gold, a pause between the check of a loan and its row |
| fund | LoanService | two insurance claims of 100, approved as claimed or for -100, against a fund of up to 200, two payments in all (`MaxPayouts`), payouts that fail half-way |
| documents | WillService | two documents, two challenges, two concurrent requests |
| people | WillService | two witnesses, one contingent, who sign, decline and are promoted at once |
| grants, overrides | AccessService | a contact, two grants of eight days, one session; overrides with and without an end, the hourly job |
| messages | MessageService | three keys, two messages, two deliveries, two passes at once |
| breaker | CircuitBreaker | two callers of two attempts, threshold 2, timeout 2 |

Deadlock is not checked (`CHECK_DEADLOCK FALSE`): a contract or a service runs only
when it is called, and the bounds leave an instance without further calls.

**Fairness.** Two properties need any.
- `HeirsAreServed`: `PersistentSpec` adds weak fairness of each heir's own claim. It
  states that heirs keep calling, an assumption about the environment and not about
  the contract: the property reads "an heir who keeps calling is served".
- `CircuitCloses`: `CompanionFairness` adds weak fairness of each caller's next step
  and of the passing of time. A thread that has begun a call goes on (a task is never
  suspended for ever by the runtime), requests keep coming in, and the clock runs.
  That the external service recovers is *not* assumed: the property speaks of a
  service that stays up.

Nothing in the repository calls auto_trigger_check, batch_claim or
unlock_messages_on_inheritance on a schedule, so no fairness is assumed of them, and
nothing is claimed about when a due condition fires or a message opens. The same goes
for the backend's jobs that `main` never starts.

### Where the code and its documents part

Five runs are expected to end in a violation; each checks what a comment says.

| Run | The document | The code |
|---|---|---|
| lending_after_trigger | a trigger "freezes new loans" | set_lendable looks at no trigger, and lifts the freeze |
| batch_claim_blocks | higher priorities "must claim before this one" | batch_claim leaves is_claimed false, so those after a batch-paid heir are refused for good |
| unsigned_finalization | the signature is bound "to a specific will version" | finalize_will takes any signature of the vault |
| unmatched_will | the will's beneficiaries "match those stored in the plan" | a will that names one twice and omits another matches |
| failed_probe | after a probe, "failure re-opens" the circuit | only the failure that reaches the threshold sets the time, so a failed probe leaves the circuit half-open |

Smaller ones, read in the code and visible in the models, without a run.

*Inheritance contract*
- deactivate_inheritance_plan (2180-2182): the tokens "should be transferred
  back"; the plan is only marked.
- `src/README.md:59`: "Owner cannot withdraw unless unlock conditions are met";
  withdraw checks none, nor the trigger nor the activity of the plan.
- Line 1421: "Fee: 2% of user input"; when the product overflows u64 it is 0.
- require_acknowledgment (5065): "beneficiaries must acknowledge before they can
  claim"; no claim looks at it.
- transfer_plan_ownership (5147): `PlanNotActive` for an inactive plan; inactive
  plans are transferred.
- A reject_kyc after an approval leaves the approval in force (2132).
- Approvals of guardians who were taken off the list still count.
- Notices and acknowledgments are kept by index and stay when beneficiaries move.
- The oracle and the health condition share one address (2963): adding one replaces
  the reporter of the other.
- A batch pays out of what is lent, which single claims leave in place; the exception
  is part of `LoansStayCovered`.

*Lending contract*
- test.rs:2503-2509 expects the admin to have the Admin role after initialize, which
  grants none.
- liquidate leaves the record of the loan as it was, counts the payment as new deposits
  besides, and may be repeated; `BooksAreBacked` names it as an exception.
- add_asset_pool resets the insurance fund and the premium of the whole contract.
- withdraw_priority takes the retained yield for any caller.
- consolidate_loans counts an id given twice twice; the loans a split makes are
  reached by consolidation alone; a repayment after a refinancing traps.
- `test_nft_minting_and_burning` (test.rs:892-935) expects that a loan with the NFT set
  succeeds and is minted. The lending contract sends a LoanMetadata of seven fields
  (lib.rs:77-87, `asset` among them); the repository's token decodes six (loan-nft
  lib.rs:4-13), and a structure is decoded only from a map with exactly its fields. So
  mint traps, and with it every borrow, refinancing, consolidation and split; loans
  made before the token was set cannot be closed. `NftFollowsLoan` is about tokens that
  take the metadata, and says that with this one no NFT exists.
- A token set after a loan was made cannot be burnt, and the loan not be repaid.
- Staked shares stay withdrawable; rewards compounded are counted twice, and a further
  stake drops those not yet claimed.

*Borrowing and governance*
- A loan repaid twice returns its collateral twice (`OthersCollateralIsKept` names the
  exception); amount_repaid may pass the principal; an auction of a closed loan can be
  executed; a negative repayment is accepted.
- Proposals of kind update target the contract itself, so their execution traps.
- set_token_balance requires no authorization and takes negative balances, with which a
  vote lowers the count of its choice; a delegate who has voted lets the
  delegators vote as well (test.rs:260-293); signers may be listed twice, and
  signatures given under an older list count.

*Backend*
- Two claims of one plan, a claim and a cancellation, a decline and a signature, or two
  promotions may each pass their checks before either writes.
- The risk flag of a plan stays once its debt is 0; the due list ignores pauses; the
  bot acts on the debt it read earlier.
- payout_claim commits the payment on its own: after a failure a claim may be paid twice,
  though what is marked as paid was paid (`LoanRowsAgree`). A negative approved amount is
  accepted, and paying it raises the reserves.
- The required and the withdrawable collateral (collateral_management.rs:551-633) have no
  clamp: for a loan repaid beyond its principal the first is negative and the second more
  than is pledged, and the division rounds to nearest. They are queries and not modelled.
- A session started while its grant is revoked stays open; versions generated at once
  get the same number; rotations at once leave several active keys; two passes deliver a
  message twice or mark a delivered one as failed.
- The activation by timeout never fires, for no code sets the status it looks for.
- check_expiring_access says "hasn't been notified yet" and notifies every hour.
- The migrations and the code disagree: fee and net_amount are DECIMAL and decoded as
  strings; the RETURNING of create_plan and cancel_plan omits columns its row type
  expects; `LEFT JOIN .. FOR UPDATE` is refused by PostgreSQL; no migration creates
  emergency_access, and emergency_access_grants has other columns than service.rs uses.

## 4. Theorems

TLC shows a property on the instances above; these hold for any accounts,
amounts, lists, batches, requests and bounds that satisfy the named assumptions of
the module that declares the constants (`AccountAssumption`, `AmountAssumption`,
`EmailAssumption`, `ArgumentAssumption`; `RecordsAssumption`; `ClockAssumption` and
the assumptions of each contract and service).

| Theorem | States |
|---|---|
| `InheritanceProofs!TypesAreKept` | Spec => []TypeOK |
| `InheritanceProofs!ClaimsStay` | Spec => ClaimsAreFinal |
| `InheritanceProofs!DeactivationStays` | Spec => DeactivationIsFinal |
| `InheritanceProofs!LoansStayAccounted` | Spec => []TriggeredLoansAccounted |
| `InheritanceProofs!TriggerStays` | Spec => TriggerIsFinal |
| `InheritanceProofs!EscrowBacked` | Spec => []EscrowBacksPlans |
| `PlanProofs!MarksAreBacked` | Spec => []ClaimedFlagIsBacked |
| `PlanProofs!SharesAddUp` | Spec => []AllocationsAddUp |
| `PlanProofs!LoansCoveredBeforeTriggers` | Spec => LoansStayCovered |
| `PlanProofs!IndexesStayInStep` | Spec => []IndexesAgree |
| `EstateProofs!PauseHolds` | Spec => PauseHoldsFunds |
| `EstateProofs!LockoutStays` | Spec => LockoutIsPermanent |
| `EstateProofs!AccessStays` | Spec => EmergencyAccessIsNotReplaced |
| `EstateProofs!CooldownLimits` | Spec => CooldownLimitsEachPayment |
| `EstateProofs!FallsHaveReasons` | Spec => AmountFallsForAReason |
| `EstateProofs!QuorumReached` | Spec => GuardianAccessHasQuorum |
| `EstateProofs!TriggersHaveCauses` | Spec => TriggersAreDue |
| `EstateProofs!LedgerImplemented` | Spec => ImplementsLedger |
| `EstateProofs!LedgerBacksEstates` | ImplementsLedger => []EscrowBacksPlans |
| `RecordsProofs!RecordsKeepContract` | RecordsSpec => Spec |
| `RecordsProofs!LinkedWill` | RecordsSpec => []ActiveWillIsLinked |
| `RecordsProofs!SettledWill` | RecordsSpec => FinalizedWillStays |
| `RecordsProofs!MessagesIndexed` | RecordsSpec => []MessageIndexAgrees |
| `RecordsProofs!MessagesStay` | RecordsSpec => MessagesSettle |
| `RecordsProofs!UnlockingIsComplete` | RecordsSpec => UnlockReachesEveryMessage |
| `RecordsProofs!RecordTypes` | RecordsSpec => []RecordsTypeOK |
| `LendingProofs!SharePriceStays` | LendingSpec => SharePriceNeverFalls |
| `LendingProofs!BooksStayBacked` | LendingSpec => BooksAreBacked |
| `LendingProofs!LoansAgree` | LendingSpec => []LoanIndexAgrees |
| `LendingProofs!NftsFollowLoans` | LendingSpec => []NftFollowsLoan |
| `LendingProofs!DebtIsOwed` | LendingSpec => []BorrowedIsOwed |
| `LendingProofs!StakesAreCounted` | LendingSpec => []StakesAddUp |
| `LendingProofs!LendingBooks` | LendingSpec => []LendingBooksAgree |
| `LendingProofs!LendingTypes` | LendingSpec => []LendingTypeOK |
| `CompanionProofs!PlansArePaidOnce` | []PaidOutOnce |
| `CompanionProofs!FrozenPlansStay` | FrozenIsNotClaimed |
| `CompanionProofs!ChallengesBindOnce` | []ChallengeUsedOnce |
| `CompanionProofs!SessionsWereGranted` | []OpenSessionsWereGranted |
| `CompanionProofs!OwedLoansAreActive` | []ActiveMeansOwed |
| `CompanionProofs!BorrowingTypes` | []BorrowingTypeOK |
| `CompanionProofs!CollateralStays` | OthersCollateralIsKept |
| `CompanionProofs!VotesAreSettled` | OutcomeIsSettled |
| `CompanionProofs!DelegationsStraight` | []DelegatorsAgree |
| `CompanionProofs!LoanRowsTellOneStory` | []LoanRowsAgree |
| `CompanionProofs!LoanTypes` | []LoanServiceTypeOK |
| `CompanionProofs!NewestKeyStaysActive` | []NewestKeyIsActive |
| `CompanionProofs!MessagesHaveKeys` | []MessageServiceTypeOK |
| `CompanionProofs!GovernanceTypes` | []GovernanceTypeOK |
| `CompanionProofs!PlanServiceTypes` | []PlanServiceTypeOK |
| `CompanionProofs!WillServiceTypes` | []WillServiceTypeOK |
| `CompanionProofs!AccessServiceTypes` | []AccessServiceTypeOK |
| `CompanionProofs!BreakerTypes` | []BreakerTypeOK |
| `CompositionProofs!ContractsAlone` | CompanionSpec => LendingSpec /\ BorrowingSpec /\ GovernanceSpec |
| `CompositionProofs!ServicesAlone` | CompanionSpec => the specification of the service, in its parts |
| `CompositionProofs!CompanionsTyped` | CompanionSpec => []CompanionTypes |
| `CompositionProofs!CompanionsAgree` | CompanionSpec => the other invariants of `companions` |
| `CompositionProofs!CompanionsKeep` | CompanionSpec => its action properties |

**The argument.**
- *Types.* TypeOK is inductive as it stands, because it carries the ranges the
  arithmetic needs: an amount within u64, a total allocation within 10000,
  the plans numbered without a gap. There is one lemma per operation; the tuples
  `otherThanPlans`, `otherThanTrigger`, ... say what a group of
  operations leaves alone, so a lemma treats only what its operation writes.
- *Batches.* The provers take no induction over data. `IterationLemmas` gets
  round it with a first-order induction over the subset of 0..n where a fact
  holds: `IterateIn` says that a fold stays in any set its step stays in.
  `InheritanceProofs` gives the rule for each of the three batches (what
  holds before, and is kept by each entry, holds after), and shows that a sum
  bounds its terms. An index of a batch of removals stays in range because
  the fold goes from the last to the first: that is part of its rule.
- *Sums.* `Total`, the sum of a finite map, is a recursive fold over a set that takes
  out one chosen element at a time, while a step of the contract changes another.
  `IterationLemmas` shows that the choice does not matter: the fold has a table of
  partial sums (`SumTableExists`), any two tables agree wherever they are defined
  (`SumsAgree`, by induction on the size of the set), hence `TotalChanges`: two maps
  that differ in one key have totals that differ by what it holds.
- *Claims, triggers, loans, escrow.* `StepFacts` states what each step may do to plans
  (`PlansKept`), claims, triggers and the escrow (`EscrowKept`); one lemma per group
  proves it under TypeOK. `TriggeredLoansAccounted` is inductive with TypeOK: the
  recall moves an amount from one side of the inequality to the other, and a
  write-off settles all that is booked. `EscrowBacksPlans` is inductive with TypeOK
  and the finiteness of the claim records: each step moves at least as many tokens
  into the escrow as it promises, a claim only from the plan to its record, and a
  batch does so entry by entry (a share is at most what is shared).
- *Kinds of steps.* For what the plans hold, the thirty or so calls fall into four kinds
  (`StepKinds` of PlanProofs): an edit of one plan, a listing (creation, deactivation,
  transfer), a claim, and a call that touches no plan. An edit also says how it booked the
  money (paid in, paid out, written off, unmoved, newly triggered) and what it did to the
  beneficiaries (`SoundEdit`: marks stay with their e-mail hash, shares stay summed). Each
  property about plans is then proved per kind and not per call. A batch of claims is
  reasoned about through an invariant of its fold (`BatchGrant`). ClaimedFlagIsBacked needs
  that claim records are never removed; LoansStayCovered needs the liquidity guard of a
  withdrawal and of a claim, and that a batch leaves its heir unmarked, the one exception
  the property grants.
- *Lists.* IndexesAgree alone is inductive only with the fact that no list names a plan
  twice (`Distinct`): the removal of the first entry takes out the plan only then.
  `RemoveFirstHolds` and `AppendHolds` say what each does to a list.
- *Refinement.* Each kind of step maps to one step of EstateLedger or to a stutter: an edit
  to a deposit, payment, write-off or trigger, a claim and a batch to Grant. The amount
  granted in a batch is a sum over the keys that are new: in the contract as well as in the
  ledger it is `Total` of one function, so that what has to be shown is that this function
  is the same under the mapping.
- *What the ledger is for.* LedgerBacksEstates does not mention `Spec`: the seven steps of
  the ledger alone keep the escrow at or above what is recorded and granted, whatever
  contract takes them. Its invariant (`LedgerBacked`) adds that funds and grants are
  finitely many natural numbers, which is why a step of the ledger says so of what it
  writes; a step that moves one fund (`OneFundMoves`) and one that grants out of it
  (`OneFundGrants`) are all the cases there are. With LedgerImplemented this derives
  EscrowBacked a second time, by way of the refinement.
- *Cooldown, falls.* A plan takes less only by an edit of it or by claims of it
  (`FallsByEditOrClaim`), and only claims grant (`OnlyClaimsGrant`). For an entry of a batch
  the limit is a share of what the plan holds before the entry, which is no more than what
  it held before the batch.
- *Quorum.* The threshold counts entries of a list, the property different guardians: the
  proof needs that no guardian is in the list twice (`ApprovalsDistinct`, an invariant), and
  that a list without repetition has as many members as entries (`DistinctCounted`).
- *Guards.* PauseHolds, LockoutStays and AccessStays are facts about guards; they
  need no typing, only what each group of operations may do to the roles, to the
  escrow and to an access record. TriggersHaveCauses is about the account that the new
  record names: TriggerInheritance writes its caller, who passed MayTrigger, and
  AutoTriggerCheck, which writes None, found a condition due.
- *Wills.* ActiveWillIsLinked alone is not inductive: a new version needs to know
  that the versions are a sequence. `WillInv` adds `VersionsTyped`.
  FinalizedWillStays follows from a step relation (`VersionStep`): a vault's
  versions are left alone, linked for the first time, or renewed, and the last
  two are refused when the active version is finalized; that a link is refused
  then uses WillInv, for a vault with a version has a link.
- *Records.* RecordsKeepContract carries every theorem about Spec over to the
  contract with its wills, messages and notices.
- *Requests.* Each service has an invariant over its tables and what its workers still
  carry in `requests`. PaidOutOnce rests on the row lock: the insertion reads the status
  again, so it does not matter how many requests passed the first check. FrozenIsNotClaimed
  compares the flags at the lock, not at the first read. ChallengeUsedOnce needs that a
  signature is only written together with the mark on its challenge.
  OpenSessionsWereGranted holds of grants that have been revoked since: rows of grants are
  never removed and never change their parties.
- *Share price.* SharePriceNeverFalls compares two products, so each call is brought to one
  of two forms: deposits that grow by at least what the new shares cover (`Grows`), or
  shares burned for at most their part (`Shrinks`); rounding down helps in both. It is not
  inductive alone. Interest, fees and liquidations raise the deposits of a pool, and that
  would be worth nobody's share in a pool without shares: `PoolsSound` adds that a loan is
  of a pool that has shares, and that a pool counts the shares in hands and the
  `MINIMUM_LIQUIDITY` of the first deposit (`SharesCounted`, with `TotalChanges`), so that
  no withdrawal takes the last one.
- *Loans and NFTs.* The calls of borrowers are brought to one form, `NewLoans`: loans are
  closed, others made with ids from next_loan_id on, and the list of the borrower follows.
  `LoanBook` adds to LoanIndexAgrees that a list is ascending and the loans finitely many,
  `NftsSound` that nothing is minted while no NFT contract is set, or one that decodes other
  metadata.
- *Debts.* total_borrowed is compared with a sum over open loans. `Portion` cuts
  that sum into the loans a call leaves alone and those it closes or makes, so a split or a
  merge needs only the sums of the two small parts (`MadeOfParts`, `MadeOfLoans`). A merge that
  names an id twice adds its principal twice to the new loan and to the total alike.
- *Stakes, rates.* StakesAddUp is inductive with `StakesCounted`: finitely many stakes, none in a
  token without a pool. LendersEarnWhatIsPaid needs BorrowedIsOwed (used parts stay within
  10000, `UsedPart`) and the bounds set_rate_model and set_reserve_factor check.
- *The vault.* BooksAreBacked is split into what the vault holds of a token besides the pool
  and the fund (`Free`) and the sum of the collateral. A call either leaves the loans and
  lets Free rise (`BackingStays`), or turns loans over (`BackingTurns`): Free rises by what the
  collateral of the loans it makes exceeds that of the loans it closes. The collateral of the
  parts of a split is rounded twice; each part is to the whole at most what its debt is to the
  debt (`Scaled`), and a sum of such parts keeps the proportion (`ScaledTotals`). A
  consolidation is backed unless an id is given twice: then the list has more entries than
  loans (`DistinctIds`), which is one of the two exceptions of the property.
- *Borrowing.* ActiveMeansOwed needs the ranges of BorrowingTypeOK (a seizure is capped by
  the collateral), and holds through repayments beyond the principal, because a closed loan
  is never owed again. OthersCollateralIsKept compares what a call takes from the contract
  with what its loan locked before and locks after (`OneLoanKeeps`); a repayment or an
  execution that serves a closed loan again writes that loan, which is the exception granted.
- *Votes.* OutcomeIsSettled needs that proposals are a sequence that only grows, and that
  the deadline of a proposal never changes.
- *Delegations.* That nobody's votes go round in a circle is not inductive as the property says
  it, through the walk of `DelegatesFrom`. `DelegationInv` says instead that the accounts can
  be ranked so that each one delegates to a higher one; a walk of as many hops as there are
  delegations then reaches the end of the way, and raising the accounts met on it by one
  delegation gives the next ranking (`StillRanked`).
- *Legacy messages.* `BoxSound` says of messages and lists that every list is ascending and
  names exactly the messages of its vault that were not deleted. Creation appends the next
  id; deletion filters (`WithoutKeeps`: of a list without repetition, the rest in the same
  order); a batch keeps BoxSound entry by entry. UnlockReachesEveryMessage needs that the
  list is complete, for only messages on it are unlocked.
- *Loan rows and the insurance fund.* EventsExplainCollateral compares, per asset, what the rows
  pledge, what they pledged when opened, and the sum of the events: each statement changes one
  row and one event (`LoanInv`). PaidClaimsAreFunded is about the payments recorded
  (`FundInv`): a payment appends a row with the amount of its claim, which is approved and
  held until it is marked, so no other handler pays it and no later decision changes its
  amount. Nothing depends on the sign of an amount.
- *Types of tables.* `TableOf` says that a sequence is one of rows of a kind, and has one lemma
  per statement: a row inserted (`TableInserted`), updated, or all of them rewritten. The type
  of a table depends on what a request still carries between two statements (`FitsLater` of the
  plans: what a handler will insert fits). In LendingProofs the types need `LendingBooks`: that
  no amount falls below zero is what the books say.
- *Composition.* MCCompanions chooses a part and lets it run. `ContractsAlone` shows that its
  steps are steps or stutters of each contract's own specification; the services share
  `requests`, so each implements its own only in its parts (`ServicesAlone`) and in the others
  its tables stay empty (`TablesStayEmpty`), where its invariants hold of nothing. Every
  theorem about a contract or a service by itself then holds of the specification TLC runs.
  It rests on `InstanceAssumption`: the account, token and days that MCCompanions names are
  among those of the model.
- *Keys.* NewestKeyIsActive is inductive with the types of the rows: a rotation retires only
  keys it has read and commits only under the next version number, so the key it adds is the
  newest.

**Out of the prover's reach, and left to TLC.** Liveness (HeirsAreServed,
CircuitCloses): it rests on fairness and ENABLED.

**Only model-checked.** Nothing else: every invariant and every action property of the runs
that pass is a theorem. What the recursive folds compute is not proved, only what they keep.

## 5. Not modelled

- *Code that is replaced or not built*: upgrade and migrate of every contract (the
  contract after them is another program); disputes.rs and price_feed.rs of the
  inheritance contract, which no module includes; the stored addresses of linked
  contracts, which nothing reads.
- *Request handling* (`app.rs`, `auth.rs`, `session.rs`, middleware): routing, tokens and
  rate limits in front of the services that are modelled. Nothing ever creates a row of
  the login sessions, so their expiry has nothing to act on.
- *Delivery to the outside* (`webhook.rs`, `notifications.rs`, `beneficiary_sync.rs`):
  HTTP calls and e-mail, with no state that a property could be about beyond one row per
  attempt.
- *Figures* (`price_feed.rs`, `interest_reconciliation.rs`, `yield_service.rs`,
  `stress_testing.rs` beyond its debt events): decimal and floating-point computations on
  values from outside. Prices are a choice of the environment in `LoanService`.
- *Documents, audits and reports*: rows written once and read by queries.
- *Parts of modelled services*: two-factor codes, loan simulations and dashboards of
  `service.rs`; the settings of a contingency, which no operation reads; the queries of
  `collateral_management.rs`.
- *Frontend, mock token, example contract*: an interface, a test double, a template.

What would come next: a composition of the inheritance contract with the lending contract,
once an entry point of the code joins them.
