---------------------------- MODULE PostDeployment ----------------------------
(***************************************************************************)
(* The script that follows a deployment of the main stack                  *)
(* (postDeployment.ts, serviceCatalogSetup.ts): it publishes environment   *)
(* types as Service Catalog products, then uploads the template that       *)
(* hosting accounts are onboarded with.  People run it, again after it     *)
(* stopped half way, and two of them may run it at the same time.          *)
(***************************************************************************)
EXTENDS Integers, Sequences, FiniteSets

CONSTANTS
    Deployer,    \* who runs the script
    EnvType,     \* environment types, one template each
    First,       \* the type of the first template file
    Content,     \* contents of template files
    EtagIsMd5,   \* whether S3's ETag is the MD5 of the object; it is not in a
                 \* bucket encrypted with a KMS key, as the artifacts bucket is
    MaxRuns      \* bound: runs of the script

Missing == "missing"

ASSUME DeploymentAssumption ==
    /\ IsFiniteSet(Deployer)
    /\ First \in EnvType /\ Missing \notin EnvType
    /\ EtagIsMd5 \in BOOLEAN /\ MaxRuns \in Nat

VARIABLES
    portfolios,  \* how many portfolios of the name exist; 1 is listed first
    templates,   \* artifacts bucket: type -> content of its template
    products,    \* Service Catalog products in order of creation
    onboarding,  \* artifacts bucket: content of onboard-account.cfn.yaml
    bootFiles,   \* artifacts bucket: the files that environments boot with
    script,      \* progress of every deployer's script
    runsLeft     \* runs of the script that may still begin

setupVars == <<portfolios, templates, products, onboarding, bootFiles, script, runsLeft>>

Stopped == [pc |-> "stopped", content |-> Missing, portfolio |-> 0, todo |-> {},
            type |-> Missing, product |-> 0, version |-> 0]

Goes(d, pc) == script' = [script EXCEPT ![d].pc = pc]

(***************************************************************************)
(* ServiceCatalogSetup.run                                                 *)
(***************************************************************************)
\* getPortfolioId: the first portfolio that has the name, looked for in all pages
PortfolioFound == IF portfolios = 0 THEN 0 ELSE 1

Start(d, c) ==
    /\ script[d].pc = "stopped"
    /\ runsLeft > 0
    /\ runsLeft' = runsLeft - 1
    /\ script' = [script EXCEPT ![d] =
         [Stopped EXCEPT !.content = c,
                         !.pc = IF PortfolioFound = 0 THEN "creatingPortfolio" ELSE "comparing",
                         !.portfolio = PortfolioFound]]
    /\ UNCHANGED <<portfolios, templates, products, onboarding, bootFiles>>

CreateSCPortfolio(d) ==
    /\ script[d].pc = "creatingPortfolio"
    /\ portfolios' = portfolios + 1
    /\ script' = [script EXCEPT ![d].pc = "comparing", ![d].portfolio = portfolios + 1]
    /\ UNCHANGED <<templates, products, onboarding, bootFiles, runsLeft>>

\* The digest computed for each file is the one of the first file.
LocalMd5(d, t) == <<First, script[d].content>>

Etag(t) ==
    IF EtagIsMd5 /\ templates[t] # Missing THEN <<t, templates[t]>> ELSE <<Missing, t>>

EnvTypesToUpdate(d) == {t \in EnvType : LocalMd5(d, t) # Etag(t)}

CompareTemplates(d) ==
    /\ script[d].pc = "comparing"
    /\ script' = [script EXCEPT
         ![d].todo = EnvTypesToUpdate(d),
         ![d].pc = IF EnvTypesToUpdate(d) = {} THEN "onboarding" ELSE "uploading"]
    /\ UNCHANGED <<portfolios, templates, products, onboarding, bootFiles, runsLeft>>

\* one putObject per template; a setup works on products only after the last
UploadTemplates(d) ==
    /\ script[d].pc = "uploading"
    /\ templates' = [t \in EnvType |->
         IF t \in script[d].todo THEN script[d].content ELSE templates[t]]
    /\ Goes(d, "searching")
    /\ UNCHANGED <<portfolios, products, onboarding, bootFiles, runsLeft>>

\* the products of the portfolio with the name of the type
Published(p, t) ==
    {i \in DOMAIN products : products[i].portfolio = p /\ products[i].type = t}

Numbers(i) == {v.number : v \in products[i].versions}

Least(S) == CHOOSE i \in S : \A j \in S : i <= j
Largest(S) == CHOOSE i \in S : \A j \in S : j <= i

\* _getProductId, then for a product that exists describeProductAsAdmin
SearchProduct(d, t) ==
    /\ script[d].pc = "searching"
    /\ t \in script[d].todo
    /\ LET found == Published(script[d].portfolio, t) IN
       script' =
         IF found = {}
         THEN [script EXCEPT ![d].pc = "creating", ![d].type = t]
         ELSE [script EXCEPT ![d].pc = "versioning", ![d].type = t,
                             ![d].product = Least(found),
                             ![d].version = Largest(Numbers(Least(found))) + 1]
    /\ UNCHANGED <<portfolios, templates, products, onboarding, bootFiles, runsLeft>>

\* Mutant of NewVersion: the template on the deployer's disk is passed along.
NewVersionFromDisk(d, n) ==
    [number |-> n, content |-> script[d].content, by |-> d]

\* Service Catalog reads the template from S3 when the version is made.
NewVersion(d, n) ==
    [number |-> n, content |-> templates[script[d].type], by |-> d]

\* Mutant of CreateVersion: the call has no idempotency token.
CreateVersionAnyway(d) ==
    /\ script[d].pc = "versioning"
    /\ products' = [products EXCEPT ![script[d].product].versions =
         @ \cup {NewVersion(d, script[d].version)}]
    /\ Goes(d, "constraining")
    /\ UNCHANGED <<portfolios, templates, onboarding, bootFiles, runsLeft>>

\* createProvisioningArtifact: the token is made of product and version name,
\* so a version that another run made meanwhile is not made twice.
CreateVersion(d) ==
    /\ script[d].pc = "versioning"
    /\ products' = [products EXCEPT ![script[d].product].versions =
         IF script[d].version \in Numbers(script[d].product) THEN @
         ELSE @ \cup {NewVersion(d, script[d].version)}]
    /\ Goes(d, "constraining")
    /\ UNCHANGED <<portfolios, templates, onboarding, bootFiles, runsLeft>>

\* _addProductsToPortfolio: created, and put into the portfolio by a second call
CreateProduct(d) ==
    /\ script[d].pc = "creating"
    /\ products' = Append(products,
         [type |-> script[d].type, portfolio |-> 0, constrained |-> FALSE,
          versions |-> {NewVersion(d, 1)}])
    /\ script' = [script EXCEPT ![d].pc = "associating", ![d].product = Len(products) + 1]
    /\ UNCHANGED <<portfolios, templates, onboarding, bootFiles, runsLeft>>

AssociateProduct(d) ==
    /\ script[d].pc = "associating"
    /\ products' = [products EXCEPT ![script[d].product].portfolio = script[d].portfolio]
    /\ Goes(d, "constraining")
    /\ UNCHANGED <<portfolios, templates, onboarding, bootFiles, runsLeft>>

\* Mutant of CreateLaunchConstraint: the constraint of a new product is forgotten.
ConstrainOldProducts(d) ==
    /\ script[d].pc = "constraining"
    /\ products' = [products EXCEPT ![script[d].product].constrained =
         @ \/ script[d].version # 0]
    /\ script' = [script EXCEPT
         ![d].todo = script[d].todo \ {script[d].type},
         ![d].pc = IF script[d].todo = {script[d].type} THEN "onboarding" ELSE "searching",
         ![d].version = 0, ![d].product = 0]
    /\ UNCHANGED <<portfolios, templates, onboarding, bootFiles, runsLeft>>

\* a constraint that exists is accepted; then the next type
CreateLaunchConstraint(d) ==
    /\ script[d].pc = "constraining"
    /\ products' = [products EXCEPT ![script[d].product].constrained = TRUE]
    /\ script' = [script EXCEPT
         ![d].todo = script[d].todo \ {script[d].type},
         ![d].pc = IF script[d].todo = {script[d].type} THEN "onboarding" ELSE "searching",
         ![d].version = 0, ![d].product = 0]
    /\ UNCHANGED <<portfolios, templates, onboarding, bootFiles, runsLeft>>

(***************************************************************************)
(* The rest of the script, and its interruption.  CognitoSetup, which runs *)
(* in between, has a module of its own (UserPool).                         *)
(***************************************************************************)
UploadOnboardAccountCfn(d) ==
    /\ script[d].pc = "onboarding"
    /\ onboarding' = script[d].content
    /\ Goes(d, "bootstrapping")
    /\ UNCHANGED <<portfolios, templates, products, bootFiles, runsLeft>>

\* one putObject per file; none is ever taken out again, so the folder is complete
\* from the end of the first upload that was not interrupted
UploadFolder == bootFiles' = "complete"

\* uploadBootstrapScriptsToS3: packages are downloaded, then everything is uploaded
UploadBootstrapScripts(d) ==
    /\ script[d].pc = "bootstrapping"
    /\ UploadFolder
    /\ Goes(d, "done")
    /\ UNCHANGED <<portfolios, templates, products, onboarding, runsLeft>>

\* the terminal is closed, or a call throws
Interrupted(d) ==
    /\ script[d].pc \notin {"stopped", "done"}
    /\ script' = [script EXCEPT ![d] = Stopped]
    /\ UNCHANGED <<portfolios, templates, products, onboarding, bootFiles, runsLeft>>

RunAgain(d) ==
    /\ script[d].pc = "done"
    /\ runsLeft > 0
    /\ script' = [script EXCEPT ![d] = Stopped]
    /\ UNCHANGED <<portfolios, templates, products, onboarding, bootFiles, runsLeft>>

SetupInit ==
    /\ portfolios = 0
    /\ templates = [t \in EnvType |-> Missing]
    /\ products = <<>>
    /\ onboarding = Missing
    /\ bootFiles = Missing
    /\ script = [d \in Deployer |-> Stopped]
    /\ runsLeft \in 0..MaxRuns

SetupStep(d) ==
    \/ \E c \in Content : Start(d, c)
    \/ CreateSCPortfolio(d) \/ CompareTemplates(d) \/ UploadTemplates(d)
    \/ \E t \in EnvType : SearchProduct(d, t)
    \/ CreateVersion(d) \/ CreateProduct(d) \/ AssociateProduct(d)
    \/ CreateLaunchConstraint(d) \/ UploadOnboardAccountCfn(d)
    \/ UploadBootstrapScripts(d)
    \/ Interrupted(d) \/ RunAgain(d)

(***************************************************************************)
(* Properties                                                              *)
(***************************************************************************)
\* where a script stands while it works on one type
OnType == {"versioning", "creating", "associating", "constraining"}
\* where it stands when all types are published
Over == {"onboarding", "bootstrapping", "done"}

Version == [number : Nat \ {0}, content : Content, by : Deployer]

Product == [type : EnvType, portfolio : Nat, constrained : BOOLEAN, versions : (SUBSET Version) \ {{}}]

Script ==
    [pc : {"stopped", "creatingPortfolio", "comparing", "uploading", "searching"}
            \cup OnType \cup Over,
     content : Content \cup {Missing}, portfolio : Nat, todo : SUBSET EnvType,
     type : EnvType \cup {Missing}, product : Nat, version : Nat]

SetupTypeOK ==
    /\ portfolios \in 0..Cardinality(Deployer) /\ runsLeft \in 0..MaxRuns
    /\ templates \in [EnvType -> Content \cup {Missing}]
    /\ onboarding \in Content \cup {Missing} /\ bootFiles \in {Missing, "complete"}
    /\ products \in Seq(Product)
    /\ \A i \in DOMAIN products :
         /\ products[i].portfolio <= portfolios
         /\ \A v \in products[i].versions : v.number <= MaxRuns
    /\ script \in [Deployer -> Script]
    /\ \A d \in Deployer : script[d].product <= Len(products)

\* The names of a product's versions are distinct, so "the newest version" that
\* environments are launched with is well defined, also when two people deploy at once.
VersionsDistinct ==
    \A i \in DOMAIN products :
        \A v, w \in products[i].versions : v.number = w.number => v = w

Newest(i) == CHOOSE v \in products[i].versions : v.number = Largest(Numbers(i))

\* A script that has published all types has done so: every type has a product in
\* the portfolio, with the launch constraint that lets it be launched in a hosting
\* account, and at its end the files that environments boot with are in the bucket,
\* whatever earlier runs left half done.
PublishedAndConstrained ==
    \A d \in Deployer :
        /\ script[d].pc \in {"onboarding", "bootstrapping", "done"} =>
              \A t \in EnvType :
                  \E i \in Published(script[d].portfolio, t) : products[i].constrained
        /\ script[d].pc = "done" => bootFiles = "complete"

\* Two first runs at once may each create the portfolio, or a product of one name.
Unduplicated == portfolios = 1 /\ \A t \in EnvType : Cardinality(Published(1, t)) = 1

\* Once everybody's script has run to its end, the newest version of each product
\* is made from the template that is in S3, whichever order the runs took.
NewestIsPublished ==
    (\A d \in Deployer : script[d].pc = "done") /\ Unduplicated =>
        \A t \in EnvType : Newest(Least(Published(1, t))).content = templates[t]

(***************************************************************************)
(* The inductive invariant                                                 *)
(***************************************************************************)
\* What a script holds is what it needs at the place where it stands: a template
\* for every type it works on, and a product of the type, which is in its portfolio
\* unless the script is about to put it there.
Prepared(d) ==
    LET s == script[d] IN
    /\ s.pc # "stopped" => s.content \in Content
    /\ s.pc \notin {"stopped", "creatingPortfolio"} => s.portfolio \in 1..portfolios
    /\ s.pc = "uploading" => s.todo # {}
    /\ s.pc \in {"searching"} \cup OnType =>
          s.todo # {} /\ \A t \in s.todo : templates[t] \in Content
    /\ s.pc \in OnType => s.type \in s.todo
    /\ s.pc \in OnType \ {"creating"} =>
          /\ s.product \in DOMAIN products
          /\ products[s.product].type = s.type
          /\ products[s.product].portfolio = IF s.pc = "associating" THEN 0 ELSE s.portfolio
    /\ s.pc = "versioning" => \E v \in products[s.product].versions : s.version = v.number + 1

\* A product is put into a portfolio by the script that made it.
AssociatedOnce ==
    \A d, e \in Deployer :
        /\ script[d].pc = "associating" /\ script[e].pc = "associating"
        /\ script[d].product = script[e].product
        => d = e

\* scripts that have yet to create a portfolio
Founding == {d \in Deployer : script[d].pc = "creatingPortfolio"}

Running == {d \in Deployer : script[d].pc # "stopped"}

\* scripts that may yet make a version of the type
Versioning(t) ==
    {d \in Deployer :
       \/ script[d].pc \in {"creatingPortfolio", "comparing", "uploading"}
       \/ script[d].pc \in {"searching", "versioning", "creating"} /\ t \in script[d].todo
       \/ script[d].pc \in {"associating", "constraining"} /\ t \in script[d].todo \ {script[d].type}}

\* No product has more versions than runs of the script, nor are there more
\* portfolios than deployers: what is there and what is still to come are within
\* the bounds.
WithinRuns ==
    /\ portfolios + Cardinality(Founding) <= Cardinality(Deployer)
    /\ Cardinality(Running) + runsLeft <= MaxRuns
    /\ \A i \in DOMAIN products : \A v \in products[i].versions :
         v.number + Cardinality(Versioning(products[i].type)) + runsLeft <= MaxRuns

\* A type that a script has dealt with is published in its portfolio.
DoneIsPublished ==
    \A d \in Deployer :
        /\ script[d].pc = "uploading" => script[d].todo = EnvType
        /\ script[d].pc \in Over => script[d].todo = {}
        /\ script[d].pc \in {"searching"} \cup OnType \cup Over =>
              \A t \in EnvType \ script[d].todo :
                  \E i \in Published(script[d].portfolio, t) : products[i].constrained
        /\ script[d].pc = "done" => bootFiles = "complete"

\* The product's newest version has the template that is in S3.
Current(i) ==
    \E v \in products[i].versions :
        /\ v.content = templates[products[i].type]
        /\ \A w \in products[i].versions : w.number <= v.number

\* The script has seen to the type's template, or must do so before its end.
Carries(d, t) ==
    LET s == script[d] IN
    \/ s.pc \in {"stopped", "creatingPortfolio", "comparing", "uploading"}
    \/ s.pc \in {"searching"} \cup OnType /\ t \in s.todo /\ (s.pc \in OnType => s.type # t)
    \/ s.pc = "creating" /\ s.type = t
    \/ /\ s.pc = "versioning" /\ s.type = t
       /\ \A v \in products[s.product].versions : v.number >= s.version => v.content = templates[t]
    \/ s.pc = "associating" /\ s.type = t /\ Current(s.product)
    \/ /\ s.pc \in {"searching"} \cup OnType \cup Over
       /\ \E i \in Published(s.portfolio, t) : Current(i)

\* Every type has a script that carries it, once there is a portfolio.
Carried == portfolios = 0 \/ \A t \in EnvType : \E d \in Deployer : Carries(d, t)

SetupIInv ==
    /\ SetupTypeOK
    /\ \A d \in Deployer : Prepared(d)
    /\ AssociatedOnce /\ WithinRuns /\ VersionsDistinct
    /\ ~EtagIsMd5 => DoneIsPublished /\ Carried
================================================================================
