---------------------------- MODULE AccountHandler ----------------------------
(***************************************************************************)
(* The account handler, which the scheduler starts every five minutes: for *)
(* each hosting account it shares what environments need, clones the       *)
(* launch constraint role and records whether the account's stack is up to *)
(* date (accountHandler.ts, hostingAccountLifecycleService.updateAccount,  *)
(* iamRoleCloneService.ts).  It works with what the deployment publishes   *)
(* (PostDeployment), which may change under it, as may the role and the    *)
(* stacks of the accounts.                                                 *)
(*                                                                         *)
(* A role is its trust policy, its inline policies by name and its managed *)
(* policies by name; those in Custom belong to an account and are copied,  *)
(* the others are AWS's own and are attached.                              *)
(***************************************************************************)
EXTENDS PostDeployment

CONSTANTS
    Accounts,    \* the hosting accounts, in the order of their createdAt
    Roles,       \* what a deployment may make of the launch constraint role
    Custom,      \* names of customer-managed policies
    Parties      \* bound: who takes part in a behaviour, how often the script is run in
                 \* it, and how many executions of the handler fail half way; the
                 \* combinations to explore

Account == {Accounts[i] : i \in DOMAIN Accounts}

VARIABLES
    party,       \* deployers and accounts that take part
    launchRole,  \* the launch constraint role in the main account
    onboarded,   \* accounts that have a row
    hosting,     \* hosting account -> what is in it
    status,      \* status attribute of the account row
    handler,     \* the handler's execution
    failuresLeft \* executions of the handler that may still fail

handlerVars == <<party, launchRole, onboarded, hosting, status, handler, failuresLeft>>
vars == <<portfolios, templates, products, onboarding, bootFiles, script, runsLeft,
          party, launchRole, onboarded, hosting, status, handler, failuresLeft>>

ASSUME AccountAssumption ==
    /\ Accounts \in Seq(Account)
    /\ \A r \in Roles : r = [trust |-> r.trust, inline |-> r.inline, managed |-> r.managed]
    /\ \A p \in Parties : p.runs \in 0..MaxRuns /\ p.failures \in Nat

NoRole == [trust |-> Missing, inline |-> {}, managed |-> {}]

NewHosting ==
    [stack |-> Missing, state |-> "none", role |-> NoRole, policies |-> {}, shared |-> {}]

\* queue: places in Accounts still to come; steady: the source role has not changed since the clone began
Waiting == [pc |-> "waiting", queue |-> {}, steady |-> FALSE,
            expected |-> Missing, actual |-> Missing, verdict |-> Missing]

Here == Accounts[Least(handler.queue)]
Later == handler.queue \ {Least(handler.queue)}

HandlerGoes(pc) == handler' = [handler EXCEPT !.pc = pc]

\* Mutant of NextAccount: the end of the list is noticed one account late.
NextAccountPastEnd ==
    handler' = [Waiting EXCEPT
        !.queue = Later,
        !.pc = IF handler.queue = {} THEN "waiting" ELSE "assuming"]

NextAccount ==
    handler' = [Waiting EXCEPT
        !.queue = Later,
        !.pc = IF Later = {} THEN "waiting" ELSE "assuming"]

NoOtherChange == UNCHANGED <<setupVars, party, launchRole, onboarded, failuresLeft>>

(***************************************************************************)
(* AccountHandler.execute                                                  *)
(***************************************************************************)
\* getAccounts: the rows, by createdAt
AccountMetadata == {i \in DOMAIN Accounts : Accounts[i] \in onboarded}

\* _getAccountMetadata and getPortfolioId; without a portfolio the execution throws, and
\* with no account there is nothing to do
StartHandler ==
    /\ handler.pc = "waiting"
    /\ PortfolioFound # 0
    /\ AccountMetadata # {}
    /\ handler' = [Waiting EXCEPT
         !.pc = "assuming",
         !.queue = AccountMetadata]
    /\ UNCHANGED <<hosting, status>> /\ NoOtherChange

\* Mutant of AssumeRole: a role that cannot be assumed ends the execution.
AssumeRoleOrStop ==
    /\ handler.pc = "assuming"
    /\ IF hosting[Here].state = "none"
       THEN handler' = Waiting
       ELSE HandlerGoes("sharing")
    /\ UNCHANGED <<hosting, status>> /\ NoOtherChange

\* getAwsServiceForRole: the role exists with the account's stack.  This is the
\* only failure the loop survives.
AssumeRole ==
    /\ handler.pc = "assuming"
    /\ IF hosting[Here].state = "none"
       THEN NextAccount
       ELSE HandlerGoes("sharing")
    /\ UNCHANGED <<hosting, status>> /\ NoOtherChange

\* updateAccount shares one thing after the other, by calls that may be repeated.
Share(pc, thing, next) ==
    /\ handler.pc = pc
    /\ hosting' = [hosting EXCEPT ![Here].shared = @ \cup {thing}]
    /\ handler' = [handler EXCEPT !.pc = next, !.steady = (next = "copyingRole")]
    /\ UNCHANGED status /\ NoOtherChange

\* the documents that the outputs of the main stack name
ShareSSMDocuments == Share("sharing", "documents", "sharingImages")

ShareAMIs == Share("sharingImages", "images", "sharingPortfolio")

\* shared by the main account and accepted by the hosting account
ShareAndAcceptScPortfolio == Share("sharingPortfolio", "portfolio", "associating")

\* The role that launches environments in the account may use the portfolio.
AssociatePrincipalWithPortfolio == Share("associating", "principal", "copyingRole")

\* _copyRole.  A trust policy that differs is put URL-encoded, which IAM refuses
\* (HandlerThrows).
CopyRole ==
    /\ handler.pc = "copyingRole"
    /\ hosting[Here].role.trust \in {Missing, launchRole.trust}
    /\ hosting' = [hosting EXCEPT ![Here].role.trust = launchRole.trust]
    /\ HandlerGoes("copyingInline")
    /\ UNCHANGED status /\ NoOtherChange

NamesOf(inline) == {p.name : p \in inline}

\* _copyInlinePolicies: those that are missing or have another document are put
CopyInlinePolicies ==
    /\ handler.pc = "copyingInline"
    /\ hosting' = [hosting EXCEPT ![Here].role.inline =
         {p \in @ : p.name \notin NamesOf(launchRole.inline)} \cup launchRole.inline]
    /\ HandlerGoes("copyingManaged")
    /\ UNCHANGED status /\ NoOtherChange

\* Policies are compared by ARN, and the copy of a customer-managed policy has
\* the ARN of its own account: it is always found missing.
Uncopied == {p \in launchRole.managed : p \in Custom \/ p \notin hosting[Here].role.managed}

\* _copyManagedPolicies: createPolicy refuses a name that exists (HandlerThrows)
CopyManagedPolicies ==
    /\ handler.pc = "copyingManaged"
    /\ Uncopied \cap hosting[Here].policies = {}
    /\ hosting' = [hosting EXCEPT
         ![Here].role.managed = @ \cup Uncopied,
         ![Here].policies = @ \cup (Uncopied \cap Custom)]
    /\ HandlerGoes("detaching")
    /\ UNCHANGED status /\ NoOtherChange

\* Mutant of DetachPolicies: inline policies are left alone.
DetachManagedPolicies ==
    /\ handler.pc = "detaching"
    /\ hosting' = [hosting EXCEPT ![Here].role.managed = @ \cap launchRole.managed]
    /\ handler' = [handler EXCEPT !.pc = "comparing", !.expected = onboarding]
    /\ UNCHANGED status /\ NoOtherChange

\* _detachPoliciesThatAreNotMatching, by name; then _updateHostingAccountStatus
\* reads the onboarding template
DetachPolicies ==
    /\ handler.pc = "detaching"
    /\ hosting' = [hosting EXCEPT
         ![Here].role.managed = @ \cap launchRole.managed,
         ![Here].role.inline = {p \in @ : p.name \in NamesOf(launchRole.inline)}]
    /\ handler' = [handler EXCEPT !.pc = "comparing", !.expected = onboarding]
    /\ UNCHANGED status /\ NoOtherChange

GetTemplate ==
    /\ handler.pc = "comparing"
    /\ handler.expected # Missing
    /\ handler' = [handler EXCEPT !.pc = "describing", !.actual = hosting[Here].stack]
    /\ UNCHANGED <<hosting, status>> /\ NoOtherChange

Verdict(expected, actual) == IF expected = actual THEN "CURRENT" ELSE "NEEDS_UPDATE"

\* Only the two complete states are acted on: CloudFormation has no state
\* 'FAILED', so ERRORED is never written.
DescribeStack ==
    /\ handler.pc = "describing"
    /\ IF hosting[Here].state = "complete"
       THEN handler' = [handler EXCEPT
              !.pc = "writing", !.verdict = Verdict(handler.expected, handler.actual)]
       ELSE NextAccount
    /\ UNCHANGED <<hosting, status>> /\ NoOtherChange

WriteStatus ==
    /\ handler.pc = "writing"
    /\ status' = [status EXCEPT ![Here] = handler.verdict]
    /\ NextAccount
    /\ UNCHANGED hosting /\ NoOtherChange

\* the execution throws, so the accounts after this one are not reached
HandlerThrows ==
    /\ \/ handler.pc = "copyingRole"
          /\ hosting[Here].role.trust \notin {Missing, launchRole.trust}
       \/ handler.pc = "copyingManaged" /\ Uncopied \cap hosting[Here].policies # {}
       \/ handler.pc = "comparing" /\ handler.expected = Missing
    /\ handler' = Waiting
    /\ UNCHANGED <<hosting, status>> /\ NoOtherChange

\* a call is refused, or the four minutes are over
HandlerFails ==
    /\ handler.pc # "waiting"
    /\ failuresLeft > 0
    /\ failuresLeft' = failuresLeft - 1
    /\ handler' = Waiting
    /\ UNCHANGED <<setupVars, party, launchRole, onboarded, hosting, status>>

(***************************************************************************)
(* What changes around it                                                  *)
(***************************************************************************)
\* the last step of an onboarding (HostingAccounts)
AccountStored(a) ==
    /\ a \in party \ onboarded
    /\ onboarded' = onboarded \cup {a}
    /\ UNCHANGED <<setupVars, party, launchRole, hosting, status, handler, failuresLeft>>

\* CloudFormation gives the role its new policies before the script is run.
DeployRole(r) ==
    /\ launchRole # r
    /\ \E d \in Deployer \cap party : script[d].pc = "stopped" /\ runsLeft > 0
    /\ party \cap Account # {}
    /\ launchRole' = r
    /\ handler' = [handler EXCEPT !.steady = FALSE]
    /\ UNCHANGED <<setupVars, party, onboarded, hosting, status, failuresLeft>>

\* An administrator of the account creates or updates its stack from the
\* template that is in S3.
UpdateStack(a) ==
    /\ a \in party
    /\ hosting[a].state # "updating"
    /\ hosting[a].stack # onboarding
    /\ hosting' = [hosting EXCEPT ![a].state = "updating", ![a].stack = onboarding]
    /\ UNCHANGED <<setupVars, party, launchRole, onboarded, status, handler, failuresLeft>>

StackUpdated(a) ==
    /\ hosting[a].state = "updating"
    /\ hosting' = [hosting EXCEPT ![a].state = "complete"]
    /\ UNCHANGED <<setupVars, party, launchRole, onboarded, status, handler, failuresLeft>>

\* bound: the role is always the same where no account takes part
Init ==
    /\ SetupInit
    /\ \E p \in Parties : party = p.who /\ runsLeft = p.runs /\ failuresLeft = p.failures
    /\ launchRole \in Roles
    /\ party \cap Account = {} => launchRole = CHOOSE r \in Roles : TRUE
    /\ onboarded = {}
    /\ hosting = [a \in Account |-> NewHosting]
    /\ status = [a \in Account |-> Missing]
    /\ handler = Waiting

HandlerStep ==
    \/ StartHandler \/ AssumeRole
    \/ ShareSSMDocuments \/ ShareAMIs
    \/ ShareAndAcceptScPortfolio \/ AssociatePrincipalWithPortfolio
    \/ CopyRole \/ CopyInlinePolicies \/ CopyManagedPolicies \/ DetachPolicies
    \/ GetTemplate \/ DescribeStack \/ WriteStatus \/ HandlerThrows

Next ==
    \/ \E d \in Deployer : d \in party /\ SetupStep(d) /\ UNCHANGED handlerVars
    \/ HandlerStep \/ HandlerFails
    \/ \E a \in Account : AccountStored(a) \/ UpdateStack(a) \/ StackUpdated(a)
    \/ \E r \in Roles : DeployRole(r)

Spec == Init /\ [][Next]_vars

\* the scheduler starts an execution every five minutes and Lambda runs it;
\* CloudFormation ends what it began
FairSpec ==
    /\ Spec
    /\ WF_vars(HandlerStep)
    /\ \A a \in Account : WF_vars(StackUpdated(a))

(***************************************************************************)
(* Properties                                                              *)
(***************************************************************************)
Role ==
    [trust : {r.trust : r \in Roles} \cup {Missing},
     inline : SUBSET UNION {r.inline : r \in Roles},
     managed : SUBSET UNION {r.managed : r \in Roles}]

Hosting ==
    [stack : Content \cup {Missing}, state : {"none", "updating", "complete"}, role : Role,
     policies : SUBSET Custom, shared : SUBSET {"documents", "images", "portfolio", "principal"}]

HandlerState ==
    [pc : {"waiting", "assuming", "sharing", "sharingImages", "sharingPortfolio", "associating",
           "copyingRole", "copyingInline", "copyingManaged", "detaching", "comparing",
           "describing", "writing"},
     queue : SUBSET DOMAIN Accounts, steady : BOOLEAN,
     expected : Content \cup {Missing}, actual : Content \cup {Missing},
     verdict : {Missing, "CURRENT", "NEEDS_UPDATE"}]

TypeOK ==
    /\ SetupTypeOK
    /\ launchRole \in Roles /\ onboarded \subseteq Account
    /\ hosting \in [Account -> Hosting]
    /\ status \in [Account -> {Missing, "CURRENT", "NEEDS_UPDATE"}]
    /\ handler \in HandlerState
    /\ handler.pc # "waiting" => handler.queue # {}
    /\ handler.pc = "writing" => handler.verdict # Missing
    /\ failuresLeft \in Nat

\* After a clone the account's role allows exactly what the launch constraint
\* role does, whatever the account's role was, unless a deployment changed the
\* role while it was being cloned.
CloneIsExact ==
    handler.pc \in {"comparing", "describing", "writing"} /\ handler.steady =>
        hosting[Here].role = launchRole

\* How far the clone of a role that does not change has come.
CloneGoesOn ==
    LET here == hosting[Here].role
        known == {p \in here.inline : p.name \in NamesOf(launchRole.inline)}
    IN  handler.steady =>
          /\ handler.pc \in {"copyingInline", "copyingManaged", "detaching"} =>
                here.trust = launchRole.trust
          /\ handler.pc \in {"copyingManaged", "detaching"} => known = launchRole.inline
          /\ handler.pc = "detaching" => launchRole.managed \subseteq here.managed

\* The inductive invariant of the deployment's setup and of the account handler.
IInv == SetupIInv /\ TypeOK /\ CloneGoesOn /\ CloneIsExact

\* An account's row ends up saying whether its stack has the template that is in
\* S3, provided the cloning of the role can succeed: its trust policy is the one
\* that was cloned, and it has no customer-managed policy.
Settled(a) ==
    /\ a \in onboarded /\ hosting[a].state = "complete"
    /\ portfolios > 0
    /\ \A b \in Account :
         /\ hosting[b].role.trust \in {Missing, launchRole.trust}
         /\ launchRole.managed \cap Custom = {}

StatusFollowsStack ==
    \A a \in Account :
        <>[]Settled(a) => <>[](status[a] = Verdict(onboarding, hosting[a].stack))
================================================================================
