-------------------------- MODULE AccountHandlerProofs --------------------------
(***************************************************************************)
(* Proofs about the deployment's setup and the account handler, for any    *)
(* deployers, environment types, accounts, roles and numbers of runs.      *)
(*                                                                         *)
(* First what each step of the script does to the script and to the        *)
(* products, then each part of the inductive invariant for all steps, then *)
(* the clone of the role, which only depends on what the setup leaves      *)
(* alone.                                                                  *)
(***************************************************************************)
EXTENDS AccountHandler, FiniteOrders, SequenceTheorems

(***************************************************************************)
(* What the steps of the script do                                         *)
(***************************************************************************)
\* The types of the setup's state, without the bounds that follow from WithinRuns.
Typed ==
    /\ portfolios \in Nat /\ runsLeft \in 0..MaxRuns
    /\ templates \in [EnvType -> Content \cup {Missing}]
    /\ onboarding \in Content \cup {Missing} /\ bootFiles \in {Missing, "complete"}
    /\ products \in Seq(Product)
    /\ \A i \in DOMAIN products : products[i].portfolio <= portfolios
    /\ script \in [Deployer -> Script]
    /\ \A d \in Deployer : script[d].product <= Len(products)

\* The products are those with the numbers 1 to their length, each of its type.
LEMMA Indexed ==
    ASSUME products \in Seq(Product)
    PROVE  /\ DOMAIN products = 1..Len(products) /\ Len(products) \in Nat
           /\ \A i \in DOMAIN products : products[i] \in Product
BY LenProperties, ElementOfSeq

\* The script of d goes on as n, the others stay where they are.
Moves(d, n) ==
    /\ n \in Script /\ script' \in [Deployer -> Script]
    /\ script'[d] = n
    /\ \A e \in Deployer : e # d => script'[e] = script[e]

\* An assignment to one script is such a move.
LEMMA MoveScript ==
    ASSUME script \in [Deployer -> Script], NEW d \in Deployer, NEW n \in Script,
           script' = [script EXCEPT ![d] = n]
    PROVE  Moves(d, n)
BY DEF Moves

\* Product i becomes q, the others stay as they are.
Becomes(i, q) ==
    /\ products' \in Seq(Product) /\ Len(products') = Len(products)
    /\ DOMAIN products' = DOMAIN products
    /\ products'[i] = q
    /\ \A j \in DOMAIN products : j # i => products'[j] = products[j]

\* An assignment to one product is such a change.
LEMMA ChangeProduct ==
    ASSUME products \in Seq(Product), NEW i \in DOMAIN products, NEW q \in Product,
           products' = [products EXCEPT ![i] = q]
    PROVE  Becomes(i, q)
<1>1. i \in 1..Len(products)  BY Indexed
<1>2. /\ products' \in Seq(Product) /\ Len(products') = Len(products)
      /\ \A j \in 1..Len(products) : products'[j] = IF j = i THEN q ELSE products[j]
  BY <1>1, ExceptSeq
<1>3. DOMAIN products' = 1..Len(products)  BY <1>2, LenProperties
<1> QED  BY <1>1, <1>2, <1>3, Indexed DEF Becomes

\* A stopped script is one.
LEMMA StoppedIsScript == Stopped \in Script
BY DEF Stopped, Script, Missing, OnType, Over

\* A run begins in the portfolio that was found, or before creating one.
LEMMA StartEffect ==
    ASSUME Typed, NEW d \in Deployer, NEW c \in Content, Start(d, c)
    PROVE  \E n : /\ Moves(d, n) /\ n.content = c
                  /\ \/ n.pc = "creatingPortfolio" /\ portfolios = 0
                     \/ n.pc = "comparing" /\ portfolios # 0 /\ n.portfolio = 1
                  /\ n.todo = {} /\ n.product = 0
<1> DEFINE pc == IF PortfolioFound = 0 THEN "creatingPortfolio" ELSE "comparing"
           n == [Stopped EXCEPT !.content = c, !.pc = pc, !.portfolio = PortfolioFound]
<1>1. script' = [script EXCEPT ![d] = n]  BY DEF Start
<1>2. /\ n \in Script /\ n.content = c /\ n.pc = pc /\ n.portfolio = PortfolioFound
      /\ n.todo = Stopped.todo /\ n.product = Stopped.product
  BY StoppedIsScript DEF Script, PortfolioFound
<1>3. Stopped.todo = {} /\ Stopped.product = 0  BY DEF Stopped
<1> HIDE DEF n
<1>4. Moves(d, n)  BY <1>1, <1>2, MoveScript DEF Typed
<1> QED  BY <1>2, <1>3, <1>4 DEF PortfolioFound

\* A step that only assigns the place of the script keeps the rest of it.
LEMMA GoesEffect ==
    ASSUME Typed, NEW d \in Deployer, NEW pc, Goes(d, pc),
           pc \in {"searching", "constraining", "bootstrapping", "done"}
    PROVE  \E n : /\ Moves(d, n) /\ n.pc = pc
                  /\ n.content = script[d].content /\ n.portfolio = script[d].portfolio
                  /\ n.todo = script[d].todo /\ n.type = script[d].type
                  /\ n.product = script[d].product /\ n.version = script[d].version
<1> PICK s : s = script[d] /\ s \in Script  BY DEF Typed
<1> DEFINE n == [s EXCEPT !.pc = pc]
<1>1. script' = [script EXCEPT ![d] = n]  BY DEF Goes
<1>2. /\ n \in Script /\ n.pc = pc /\ n.content = s.content /\ n.portfolio = s.portfolio
      /\ n.todo = s.todo /\ n.type = s.type /\ n.product = s.product /\ n.version = s.version
  BY DEF Script, OnType, Over
<1> HIDE DEF n
<1>3. Moves(d, n)  BY <1>1, <1>2, MoveScript DEF Typed
<1> QED  BY <1>2, <1>3

\* A portfolio that was created is the last one, and the script's own.
LEMMA CreateSCPortfolioEffect ==
    ASSUME Typed, NEW d \in Deployer, CreateSCPortfolio(d)
    PROVE  \E n : /\ Moves(d, n) /\ n.pc = "comparing" /\ n.portfolio = portfolios + 1
                  /\ n.content = script[d].content /\ n.product = script[d].product
<1> PICK s : s = script[d] /\ s \in Script  BY DEF Typed
<1> DEFINE n == [s EXCEPT !.pc = "comparing", !.portfolio = portfolios + 1]
<1>1. script' = [script EXCEPT ![d] = n]  BY DEF CreateSCPortfolio
<1>2. /\ n \in Script /\ n.pc = "comparing" /\ n.portfolio = portfolios + 1
      /\ n.content = s.content /\ n.product = s.product
  <2>1. portfolios + 1 \in Nat  BY DEF Typed
  <2> QED  BY <2>1 DEF Script
<1> HIDE DEF n
<1>3. Moves(d, n)  BY <1>1, <1>2, MoveScript DEF Typed
<1> QED  BY <1>2, <1>3

\* All types are to do, whatever the script was about.
LEMMA CompareEffect ==
    ASSUME Typed, NEW d \in Deployer, CompareTemplates(d)
    PROVE  \E n : /\ Moves(d, n)
                  /\ \/ n.pc = "onboarding" /\ n.todo = {} /\ EtagIsMd5
                     \/ n.pc = "uploading" /\ n.todo # {} /\ (~EtagIsMd5 => n.todo = EnvType)
                  /\ n.content = script[d].content /\ n.portfolio = script[d].portfolio
                  /\ n.product = script[d].product
<1> PICK s : s = script[d] /\ s \in Script  BY DEF Typed
<1> PICK todo : todo = EnvTypesToUpdate(d)  OBVIOUS
<1>1. todo \in SUBSET EnvType  BY DEF EnvTypesToUpdate
<1>2. ~EtagIsMd5 => todo = EnvType
  <2>1. First \in EnvType /\ Missing \notin EnvType  BY DeploymentAssumption
  <2> QED  BY <2>1 DEF EnvTypesToUpdate, LocalMd5, Etag
<1>3. EnvType # {} /\ EtagIsMd5 \in BOOLEAN  BY DeploymentAssumption
<1> PICK pc : pc = IF todo = {} THEN "onboarding" ELSE "uploading"  OBVIOUS
<1> DEFINE n == [s EXCEPT !.todo = todo, !.pc = pc]
<1>4. script' = [script EXCEPT ![d] = n]  BY DEF CompareTemplates
<1>5. /\ n \in Script /\ n.pc = pc /\ n.todo = todo
      /\ n.content = s.content /\ n.portfolio = s.portfolio /\ n.product = s.product
  BY <1>1 DEF Script, Over
<1> HIDE DEF n
<1>6. Moves(d, n)  BY <1>4, <1>5, MoveScript DEF Typed
<1> QED  BY <1>2, <1>3, <1>5, <1>6

\* The numbers of a product's versions are finitely many.
LEMMA NumbersFinite ==
    ASSUME SetupTypeOK, NEW i \in DOMAIN products
    PROVE  Numbers(i) \in SUBSET Nat /\ IsFiniteSet(Numbers(i))
<1>1. products[i] \in Product  BY Indexed DEF SetupTypeOK
<1>2. \A v \in products[i].versions : v.number \in Nat /\ v.number <= MaxRuns
  BY <1>1 DEF SetupTypeOK, Product, Version
<1>3. Numbers(i) \in SUBSET Nat /\ \A k \in Numbers(i) : k <= MaxRuns  BY <1>2 DEF Numbers
<1>4. MaxRuns \in Nat  BY DeploymentAssumption
<1> QED  BY <1>3, <1>4, FS_BoundedSetOfNaturals

\* The first product that was published is one of them.
LEMMA LeastPublished ==
    ASSUME SetupTypeOK, NEW p, NEW t, Published(p, t) # {}
    PROVE  Least(Published(p, t)) \in Published(p, t)
<1>1. DOMAIN products = 1..Len(products) /\ Len(products) \in Nat  BY Indexed DEF SetupTypeOK
<1>2. IsFiniteSet(1..Len(products))  BY <1>1, FS_Interval
<1>3. Published(p, t) \in SUBSET (1..Len(products))  BY <1>1 DEF Published
<1>4. IsFiniteSet(Published(p, t))  BY <1>2, <1>3, FS_Subset
<1>5. Published(p, t) \in SUBSET Int  BY <1>1, <1>3
<1> QED  BY <1>4, <1>5, HasLeast DEF Least

\* The largest number is that of a version.
LEMMA LargestNumber ==
    ASSUME SetupTypeOK, NEW i \in DOMAIN products, products[i].versions # {}
    PROVE  \E v \in products[i].versions :
              /\ Largest(Numbers(i)) = v.number
              /\ \A w \in products[i].versions : w.number <= v.number
<1>1. Numbers(i) \in SUBSET Nat /\ IsFiniteSet(Numbers(i))  BY NumbersFinite
<1>2. Numbers(i) # {}  BY DEF Numbers
<1>3. PICK m \in Numbers(i) : \A k \in Numbers(i) : k <= m
  BY <1>1, <1>2, HasLargest
<1>4. Largest(Numbers(i)) \in Numbers(i) /\ \A k \in Numbers(i) : k <= Largest(Numbers(i))
  BY <1>3 DEF Largest
<1> QED  BY <1>4 DEF Numbers

\* The search finds the type unpublished, or the first product of the type with
\* the number that follows its versions'.
LEMMA SearchEffect ==
    ASSUME SetupTypeOK, Typed, NEW d \in Deployer, NEW t \in EnvType, SearchProduct(d, t)
    PROVE  \E n : /\ Moves(d, n) /\ n.type = t /\ n.todo = script[d].todo
                  /\ n.content = script[d].content /\ n.portfolio = script[d].portfolio
                  /\ \/ n.pc = "creating" /\ n.product = script[d].product
                     \/ /\ n.pc = "versioning"
                        /\ n.product \in Published(script[d].portfolio, t)
                        /\ \E v \in products[n.product].versions :
                             /\ n.version = v.number + 1
                             /\ \A w \in products[n.product].versions : w.number <= v.number
<1> PICK s : s = script[d] /\ s \in Script  BY DEF Typed
<1> PICK found : found = Published(s.portfolio, t)  OBVIOUS
<1>1. CASE found = {}
  <2> DEFINE n == [s EXCEPT !.pc = "creating", !.type = t]
  <2>1. script' = [script EXCEPT ![d] = n]  BY <1>1 DEF SearchProduct
  <2>2. /\ n \in Script /\ n.pc = "creating" /\ n.type = t /\ n.todo = s.todo
        /\ n.content = s.content /\ n.portfolio = s.portfolio /\ n.product = s.product
    BY DEF Script, OnType
  <2> HIDE DEF n
  <2>3. Moves(d, n)  BY <2>1, <2>2, MoveScript DEF Typed
  <2> QED  BY <2>2, <2>3
<1>2. CASE found # {}
  <2>1. PICK i : i = Least(found) /\ i \in found  BY <1>2, LeastPublished
  <2>2. i \in DOMAIN products  BY <2>1 DEF Published
  <2>3. products[i] \in Product /\ i \in Nat  BY <2>2, Indexed DEF Typed
  <2>4. products[i].versions # {}  BY <2>3 DEF Product
  <2>5. PICK v \in products[i].versions :
           /\ Largest(Numbers(i)) = v.number
           /\ \A w \in products[i].versions : w.number <= v.number
    BY <2>2, <2>4, LargestNumber
  <2>6. PICK k : k = v.number + 1  OBVIOUS
  <2>7. k \in Nat  BY <2>3, <2>6 DEF Product, Version
  <2> DEFINE n == [s EXCEPT !.pc = "versioning", !.type = t, !.product = i, !.version = k]
  <2>8. script' = [script EXCEPT ![d] = n]
    <3>1. k = Largest(Numbers(Least(found))) + 1  BY <2>1, <2>5, <2>6
    <3> QED  BY <1>2, <2>1, <3>1 DEF SearchProduct
  <2>9. /\ n \in Script /\ n.pc = "versioning" /\ n.type = t /\ n.todo = s.todo
        /\ n.content = s.content /\ n.portfolio = s.portfolio /\ n.product = i /\ n.version = k
    BY <2>3, <2>7 DEF Script, OnType
  <2> HIDE DEF n
  <2>10. Moves(d, n)  BY <2>8, <2>9, MoveScript DEF Typed
  <2> QED  BY <2>1, <2>5, <2>6, <2>9, <2>10
<1> QED  BY <1>1, <1>2

\* A new version has the number that was found, and the template that is in S3.
LEMMA CreateVersionEffect ==
    ASSUME Typed, NEW d \in Deployer, Prepared(d), CreateVersion(d)
    PROVE  LET i == script[d].product
               v == NewVersion(d, script[d].version)
               old == products[i].versions IN
           \E q : /\ Becomes(i, q) /\ v \in Version
                  /\ v.number = script[d].version /\ v.content = templates[script[d].type]
                  /\ q.type = products[i].type /\ q.portfolio = products[i].portfolio
                  /\ q.constrained = products[i].constrained
                  /\ \/ q.versions = old /\ \E w \in old : w.number = v.number
                     \/ /\ q.versions = old \cup {v}
                        /\ \A w \in old : w.number # v.number
<1> PICK s : s = script[d] /\ s \in Script  BY DEF Typed
<1> PICK i : i = s.product  OBVIOUS
<1> PICK v : v = NewVersion(d, s.version)  OBVIOUS
<1>1. s.pc = "versioning"  BY DEF CreateVersion
<1>2. i \in DOMAIN products  BY <1>1 DEF Prepared, OnType
<1>3. products[i] \in Product  BY <1>2, Indexed DEF Typed
<1>4. PICK o : o = products[i]  OBVIOUS
<1>5. v.number = s.version /\ v.content = templates[s.type]  BY DEF NewVersion
<1>6. v \in Version
  <2>1. templates[s.type] \in Content  BY <1>1 DEF Prepared, OnType
  <2>2. PICK w \in o.versions : s.version = w.number + 1  BY <1>1, <1>4 DEF Prepared
  <2>3. s.version \in Nat \ {0}  BY <1>3, <1>4, <2>2 DEF Product, Version
  <2> QED  BY <2>1, <2>3 DEF NewVersion, Version
<1>7. PICK W : W = IF s.version \in Numbers(i) THEN o.versions ELSE o.versions \cup {v}  OBVIOUS
<1> DEFINE q == [o EXCEPT !.versions = W]
<1>8. products' = [products EXCEPT ![i] = q]  BY <1>4, <1>7 DEF CreateVersion
<1>9. W \in (SUBSET Version) \ {{}}  BY <1>3, <1>4, <1>6, <1>7 DEF Product
<1>10. /\ q \in Product /\ q.type = o.type /\ q.portfolio = o.portfolio
       /\ q.constrained = o.constrained /\ q.versions = W
  BY <1>3, <1>4, <1>9 DEF Product
<1> HIDE DEF q
<1>11. Becomes(i, q)  BY <1>2, <1>8, <1>10, ChangeProduct DEF Typed
<1>12. s.version \in Numbers(i) <=> \E w \in o.versions : w.number = v.number
  BY <1>4, <1>5 DEF Numbers
<1> QED  BY <1>4, <1>5, <1>6, <1>7, <1>10, <1>11, <1>12

\* A new product is the last one and is in no portfolio yet.
LEMMA CreateProductEffect ==
    ASSUME Typed, NEW d \in Deployer, Prepared(d), CreateProduct(d)
    PROVE  /\ \E n : /\ Moves(d, n) /\ n.pc = "associating" /\ n.product = Len(products) + 1
                     /\ n.content = script[d].content /\ n.portfolio = script[d].portfolio
                     /\ n.todo = script[d].todo /\ n.type = script[d].type
           /\ products' \in Seq(Product) /\ Len(products') = Len(products) + 1
           /\ DOMAIN products' = DOMAIN products \cup {Len(products) + 1}
           /\ \A i \in DOMAIN products : products'[i] = products[i]
           /\ LET q == products'[Len(products) + 1] IN
              /\ q.type = script[d].type /\ q.portfolio = 0
              /\ q.versions = {NewVersion(d, 1)} /\ NewVersion(d, 1) \in Version
              /\ NewVersion(d, 1).number = 1
              /\ NewVersion(d, 1).content = templates[script[d].type]
<1> PICK s : s = script[d] /\ s \in Script  BY DEF Typed
<1>1. s.pc = "creating"  BY DEF CreateProduct
<1>2. s.type \in EnvType /\ templates[s.type] \in Content  BY <1>1 DEF Prepared, OnType, Script
<1>3. PICK v : v = NewVersion(d, 1)  OBVIOUS
<1>4. v \in Version /\ v.number = 1 /\ v.content = templates[s.type]
  BY <1>2, <1>3 DEF NewVersion, Version
<1> DEFINE q == [type |-> s.type, portfolio |-> 0, constrained |-> FALSE, versions |-> {v}]
<1>5. q \in Product /\ q.type = s.type /\ q.portfolio = 0 /\ q.versions = {v}
  BY <1>2, <1>4 DEF Product
<1>6. products' = Append(products, q)  BY <1>3 DEF CreateProduct
<1> HIDE DEF q
<1>7. /\ products' \in Seq(Product) /\ Len(products') = Len(products) + 1
      /\ \A i \in 1..Len(products) : products'[i] = products[i]
      /\ products'[Len(products) + 1] = q
  BY <1>5, <1>6, AppendProperties DEF Typed
<1>8. DOMAIN products = 1..Len(products) /\ Len(products) \in Nat  BY Indexed DEF Typed
<1>9. DOMAIN products' = 1..(Len(products) + 1)  BY <1>7, LenProperties
<1>10. DOMAIN products' = DOMAIN products \cup {Len(products) + 1}  BY <1>8, <1>9
<1> PICK k : k = Len(products) + 1  OBVIOUS
<1> DEFINE n == [s EXCEPT !.pc = "associating", !.product = k]
<1>11. script' = [script EXCEPT ![d] = n]  BY DEF CreateProduct
<1>12. /\ n \in Script /\ n.pc = "associating" /\ n.product = k
       /\ n.content = s.content /\ n.portfolio = s.portfolio
       /\ n.todo = s.todo /\ n.type = s.type
  <2>1. k \in Nat  BY <1>8
  <2> QED  BY <2>1 DEF Script, OnType
<1> HIDE DEF n
<1>13. Moves(d, n)  BY <1>11, <1>12, MoveScript DEF Typed
<1> QED  BY <1>3, <1>4, <1>5, <1>7, <1>8, <1>10, <1>12, <1>13

\* The product is put into the script's portfolio.
LEMMA AssociateEffect ==
    ASSUME Typed, NEW d \in Deployer, Prepared(d), AssociateProduct(d)
    PROVE  LET i == script[d].product IN
           \E q : /\ Becomes(i, q) /\ q.type = products[i].type
                  /\ q.portfolio = script[d].portfolio
                  /\ q.constrained = products[i].constrained
                  /\ q.versions = products[i].versions
<1> PICK s : s = script[d] /\ s \in Script  BY DEF Typed
<1> PICK i : i = s.product  OBVIOUS
<1>1. i \in DOMAIN products  BY DEF Prepared, OnType, AssociateProduct
<1>2. PICK o : o = products[i] /\ o \in Product  BY <1>1, Indexed DEF Typed
<1> DEFINE q == [o EXCEPT !.portfolio = s.portfolio]
<1>3. products' = [products EXCEPT ![i] = q]  BY <1>2 DEF AssociateProduct
<1>4. s.portfolio \in Nat  BY DEF Script
<1>5. /\ q \in Product /\ q.type = o.type /\ q.portfolio = s.portfolio
      /\ q.constrained = o.constrained /\ q.versions = o.versions
  BY <1>2, <1>4 DEF Product
<1> HIDE DEF q
<1>6. Becomes(i, q)  BY <1>1, <1>3, <1>5, ChangeProduct DEF Typed
<1> QED  BY <1>2, <1>5, <1>6

\* The product is constrained, and its type is done with.
LEMMA ConstraintEffect ==
    ASSUME Typed, NEW d \in Deployer, Prepared(d), CreateLaunchConstraint(d)
    PROVE  LET i == script[d].product IN
           /\ \E q : /\ Becomes(i, q) /\ q.type = products[i].type
                     /\ q.portfolio = products[i].portfolio /\ q.constrained
                     /\ q.versions = products[i].versions
           /\ \E n : /\ Moves(d, n) /\ n.content = script[d].content
                     /\ n.portfolio = script[d].portfolio /\ n.product = 0
                     /\ n.todo = script[d].todo \ {script[d].type}
                     /\ \/ n.pc = "onboarding" /\ n.todo = {}
                        \/ n.pc = "searching" /\ n.todo # {}
<1> PICK s : s = script[d] /\ s \in Script  BY DEF Typed
<1> PICK i : i = s.product  OBVIOUS
<1>1. i \in DOMAIN products /\ s.type \in s.todo
  BY DEF Prepared, OnType, CreateLaunchConstraint
<1>2. PICK o : o = products[i] /\ o \in Product  BY <1>1, Indexed DEF Typed
<1> DEFINE q == [o EXCEPT !.constrained = TRUE]
<1>3. products' = [products EXCEPT ![i] = q]  BY <1>2 DEF CreateLaunchConstraint
<1>4. /\ q \in Product /\ q.type = o.type /\ q.portfolio = o.portfolio
      /\ q.constrained = TRUE /\ q.versions = o.versions
  BY <1>2 DEF Product
<1> HIDE DEF q
<1>5. Becomes(i, q)  BY <1>1, <1>3, <1>4, ChangeProduct DEF Typed
<1> PICK todo : todo = s.todo \ {s.type}  OBVIOUS
<1> PICK pc : pc = IF s.todo = {s.type} THEN "onboarding" ELSE "searching"  OBVIOUS
<1> DEFINE n == [s EXCEPT !.todo = todo, !.pc = pc, !.version = 0, !.product = 0]
<1>6. script' = [script EXCEPT ![d] = n]  BY DEF CreateLaunchConstraint
<1>7. todo \in SUBSET EnvType /\ (todo = {} <=> s.todo = {s.type})  BY <1>1 DEF Script
<1>8. /\ n \in Script /\ n.todo = todo /\ n.pc = pc /\ n.product = 0
      /\ n.content = s.content /\ n.portfolio = s.portfolio
  BY <1>7 DEF Script, Over
<1> HIDE DEF n
<1>9. Moves(d, n)  BY <1>6, <1>8, MoveScript DEF Typed
<1> QED  BY <1>2, <1>4, <1>5, <1>7, <1>8, <1>9

\* A script that is interrupted, or run again, is stopped.
LEMMA StopEffect ==
    ASSUME Typed, NEW d \in Deployer, script' = [script EXCEPT ![d] = Stopped]
    PROVE  /\ Moves(d, Stopped) /\ Stopped.pc = "stopped"
           /\ Stopped.todo = {} /\ Stopped.product = 0
BY StoppedIsScript, MoveScript DEF Typed, Stopped

\* The state is of its types if the bounds are forgotten.
LEMMA TypedFromTypeOK ==
    ASSUME SetupTypeOK
    PROVE  Typed
<1>1. Cardinality(Deployer) \in Nat  BY DeploymentAssumption, FS_CardinalityType
<1> QED  BY <1>1 DEF SetupTypeOK, Typed

\* What a step of a script leaves of the products: only the one that the script
\* associates changes its portfolio, and nothing that was there is lost.
ProductsGrow(d) ==
    /\ products' \in Seq(Product)
    /\ DOMAIN products \subseteq DOMAIN products' /\ Len(products) <= Len(products')
    /\ \A i \in DOMAIN products :
         /\ products'[i].type = products[i].type
         /\ products[i].versions \subseteq products'[i].versions
         /\ products[i].constrained => products'[i].constrained
         /\ \/ products'[i].portfolio = products[i].portfolio
            \/ script[d].pc = "associating" /\ script[d].product = i

\* No step of a script does more to the products.
LEMMA Grow ==
    ASSUME Typed, NEW d \in Deployer, Prepared(d), SetupStep(d)
    PROVE  ProductsGrow(d)
<1>1. Len(products) \in Nat /\ products \in Seq(Product)  BY Indexed DEF Typed
<1>2. CASE UNCHANGED products  BY <1>1, <1>2 DEF ProductsGrow
<1>3. CASE CreateVersion(d)
  <2>1. script[d].product \in DOMAIN products  BY <1>3 DEF CreateVersion, Prepared, OnType
  <2> QED  BY <1>1, <1>3, <2>1, CreateVersionEffect DEF ProductsGrow, Becomes
<1>4. CASE CreateProduct(d)  BY <1>1, <1>4, CreateProductEffect DEF ProductsGrow
<1>5. CASE AssociateProduct(d)
  <2>1. script[d].product \in DOMAIN products /\ script[d].pc = "associating"
    BY <1>5 DEF AssociateProduct, Prepared, OnType
  <2> QED  BY <1>1, <1>5, <2>1, AssociateEffect DEF ProductsGrow, Becomes
<1>6. CASE CreateLaunchConstraint(d)
  <2>1. script[d].product \in DOMAIN products  BY <1>6 DEF CreateLaunchConstraint, Prepared, OnType
  <2> QED  BY <1>1, <1>6, <2>1, ConstraintEffect DEF ProductsGrow, Becomes
<1> QED
  BY <1>2, <1>3, <1>4, <1>5, <1>6
  DEF SetupStep, Start, CreateSCPortfolio, CompareTemplates, UploadTemplates, SearchProduct,
      UploadOnboardAccountCfn, UploadBootstrapScripts, Interrupted, RunAgain

\* Each step moves its script alone, which then knows no product that does not exist.
LEMMA Move ==
    ASSUME SetupTypeOK, Typed, NEW d \in Deployer, Prepared(d), SetupStep(d)
    PROVE  \E n \in Script : Moves(d, n) /\ n.product <= Len(products')
<1>1. /\ Len(products) \in Nat /\ Len(products) <= Len(products')
      /\ DOMAIN products = 1..Len(products)
      /\ script[d].product <= Len(products) /\ script[d] \in Script
      /\ script[d].product \in Nat
  BY Indexed, Grow DEF Typed, ProductsGrow, Script
<1>2. Len(products') \in Nat  BY Grow, LenProperties DEF ProductsGrow
<1>3. script[d].product <= Len(products') /\ 0 <= Len(products')  BY <1>1, <1>2
<1>4. CASE \E c \in Content : Start(d, c)  BY <1>3, <1>4, StartEffect DEF Moves
<1>5. CASE CreateSCPortfolio(d)  BY <1>3, <1>5, CreateSCPortfolioEffect DEF Moves
<1>6. CASE CompareTemplates(d)  BY <1>3, <1>6, CompareEffect DEF Moves
<1>7. CASE UploadTemplates(d) \/ CreateVersion(d) \/ AssociateProduct(d)
           \/ UploadOnboardAccountCfn(d) \/ UploadBootstrapScripts(d)
  BY <1>3, <1>7, GoesEffect
  DEF Moves, UploadTemplates, CreateVersion, AssociateProduct, UploadOnboardAccountCfn,
      UploadBootstrapScripts
<1>8. CASE \E t \in EnvType : SearchProduct(d, t)
  <2>1. PICK t \in EnvType : SearchProduct(d, t)  BY <1>8
  <2>2. UNCHANGED products  BY <2>1 DEF SearchProduct
  <2>3. Published(script[d].portfolio, t) \subseteq 1..Len(products)  BY <1>1 DEF Published
  <2> QED  BY <1>1, <1>2, <1>3, <2>1, <2>2, <2>3, SearchEffect DEF Moves
<1>9. CASE CreateProduct(d)
  <2>1. PICK n : Moves(d, n) /\ n.product = Len(products) + 1  BY <1>9, CreateProductEffect
  <2>2. Len(products') = Len(products) + 1  BY <1>9, CreateProductEffect
  <2> QED  BY <1>1, <1>2, <2>1, <2>2 DEF Moves
<1>10. CASE CreateLaunchConstraint(d)  BY <1>3, <1>10, ConstraintEffect DEF Moves
<1>11. CASE Interrupted(d) \/ RunAgain(d)
  BY <1>3, <1>11, StopEffect DEF Moves, Interrupted, RunAgain
<1> QED
  BY <1>4, <1>5, <1>6, <1>7, <1>8, <1>9, <1>10, <1>11 DEF SetupStep

\* A template that is in S3 is only ever replaced by another one.
LEMMA TemplatesKept ==
    ASSUME Typed, NEW d \in Deployer, Prepared(d), SetupStep(d)
    PROVE  /\ templates' \in [EnvType -> Content \cup {Missing}]
           /\ \A t \in EnvType : templates[t] \in Content => templates'[t] \in Content
<1>1. CASE UploadTemplates(d)
  <2>1. script[d].content \in Content  BY <1>1 DEF UploadTemplates, Prepared
  <2> QED  BY <1>1, <2>1 DEF UploadTemplates, Typed
<1>2. CASE UNCHANGED templates  BY <1>2 DEF Typed
<1> QED
  BY <1>1, <1>2
  DEF SetupStep, Start, CreateSCPortfolio, CompareTemplates, SearchProduct, CreateVersion,
      CreateProduct, AssociateProduct, CreateLaunchConstraint,
      UploadOnboardAccountCfn, UploadBootstrapScripts, Interrupted, RunAgain

\* Portfolios are only created, by the scripts that found none.
LEMMA PortfoliosGrow ==
    ASSUME Typed, NEW d \in Deployer, SetupStep(d)
    PROVE  /\ portfolios' \in Nat /\ portfolios <= portfolios'
           /\ portfolios' # portfolios => CreateSCPortfolio(d)
<1>1. CASE CreateSCPortfolio(d)  BY <1>1 DEF CreateSCPortfolio, Typed
<1>2. CASE UNCHANGED portfolios  BY <1>2 DEF Typed
<1> QED
  BY <1>1, <1>2
  DEF SetupStep, Start, CompareTemplates, UploadTemplates, SearchProduct, CreateVersion,
      CreateProduct, AssociateProduct, CreateLaunchConstraint,
      UploadOnboardAccountCfn, UploadBootstrapScripts, Interrupted, RunAgain

(***************************************************************************)
(* The parts of the setup's invariant                                      *)
(***************************************************************************)
\* Types are kept.
LEMMA TypedKept ==
    ASSUME SetupIInv, NEW d \in Deployer, SetupStep(d)
    PROVE  Typed'
<1>1. SetupTypeOK /\ Typed /\ Prepared(d)  BY TypedFromTypeOK DEF SetupIInv
<1>2. portfolios' \in Nat /\ portfolios <= portfolios' /\ portfolios \in Nat
  BY <1>1, PortfoliosGrow DEF Typed
<1>3. runsLeft' \in 0..MaxRuns
  <2>1. MaxRuns \in Nat /\ runsLeft \in 0..MaxRuns  BY <1>1, DeploymentAssumption DEF Typed
  <2>2. CASE \E c \in Content : Start(d, c)  BY <2>1, <2>2 DEF Start
  <2>3. CASE UNCHANGED runsLeft  BY <2>1, <2>3
  <2> QED
    BY <2>2, <2>3
    DEF SetupStep, CreateSCPortfolio, CompareTemplates, UploadTemplates, SearchProduct,
        CreateVersion, CreateProduct, AssociateProduct, CreateLaunchConstraint,
        UploadOnboardAccountCfn, UploadBootstrapScripts, Interrupted, RunAgain
<1>4. /\ templates' \in [EnvType -> Content \cup {Missing}]
      /\ products' \in Seq(Product)
  BY <1>1, TemplatesKept, Grow DEF ProductsGrow
<1>5. onboarding' \in Content \cup {Missing} /\ bootFiles' \in {Missing, "complete"}
  <2>1. CASE UploadOnboardAccountCfn(d)
    <3>1. script[d].content \in Content \cup {Missing}  BY <1>1 DEF Typed, Script
    <3> QED  BY <1>1, <2>1, <3>1 DEF UploadOnboardAccountCfn, Typed
  <2>2. CASE UploadBootstrapScripts(d)
    BY <1>1, <2>2 DEF UploadBootstrapScripts, UploadFolder, Typed
  <2>3. CASE UNCHANGED <<onboarding, bootFiles>>  BY <1>1, <2>3 DEF Typed
  <2> QED
    BY <2>1, <2>2, <2>3
    DEF SetupStep, Start, CreateSCPortfolio, CompareTemplates, UploadTemplates, SearchProduct,
        CreateVersion, CreateProduct, AssociateProduct, CreateLaunchConstraint,
        Interrupted, RunAgain
<1>6. ASSUME NEW i \in DOMAIN products'
      PROVE  products'[i].portfolio <= portfolios'
  <2>1. CASE i \in DOMAIN products
    <3>1. products[i].portfolio \in Nat /\ products[i].portfolio <= portfolios
      BY <1>1, <2>1, Indexed DEF Typed, Product
    <3>2. CASE products'[i].portfolio = products[i].portfolio  BY <1>2, <3>1, <3>2
    <3>3. CASE AssociateProduct(d) /\ script[d].product = i
      <4>1. script[d].portfolio \in 1..portfolios  BY <1>1, <3>3 DEF AssociateProduct, Prepared
      <4>2. products'[i].portfolio = script[d].portfolio
        BY <1>1, <3>3, AssociateEffect DEF Becomes
      <4> QED  BY <1>2, <4>1, <4>2
    <3>4. script[d].pc = "associating" => AssociateProduct(d) \/ Interrupted(d)
      BY DEF SetupStep, Start, CreateSCPortfolio, CompareTemplates, UploadTemplates,
             SearchProduct, CreateVersion, CreateProduct, CreateLaunchConstraint,
             UploadOnboardAccountCfn, UploadBootstrapScripts, RunAgain
    <3>5. Interrupted(d) => UNCHANGED products  BY DEF Interrupted
    <3> QED  BY <1>1, <2>1, <3>2, <3>3, <3>4, <3>5, Grow DEF ProductsGrow
  <2>2. CASE CreateProduct(d) /\ i = Len(products) + 1
    BY <1>1, <1>2, <2>2, CreateProductEffect
  <2>3. CASE CreateProduct(d)
    <3>1. DOMAIN products' = DOMAIN products \cup {Len(products) + 1}
      BY <1>1, <2>3, CreateProductEffect
    <3> QED  BY <2>1, <2>2, <2>3, <3>1
  <2>4. CASE UNCHANGED products  BY <2>1, <2>4
  <2>5. CASE CreateVersion(d)  BY <1>1, <2>1, <2>5, CreateVersionEffect DEF Becomes
  <2>6. CASE AssociateProduct(d)  BY <1>1, <2>1, <2>6, AssociateEffect DEF Becomes
  <2>7. CASE CreateLaunchConstraint(d)  BY <1>1, <2>1, <2>7, ConstraintEffect DEF Becomes
  <2> QED
    BY <2>3, <2>4, <2>5, <2>6, <2>7
    DEF SetupStep, Start, CreateSCPortfolio, CompareTemplates, UploadTemplates, SearchProduct,
        UploadOnboardAccountCfn, UploadBootstrapScripts, Interrupted, RunAgain
<1>7. /\ script' \in [Deployer -> Script]
      /\ \A e \in Deployer : script'[e].product <= Len(products')
  <2>1. PICK n \in Script : Moves(d, n) /\ n.product <= Len(products')  BY <1>1, Move
  <2>2. /\ Len(products) <= Len(products') /\ Len(products) \in Nat /\ Len(products') \in Nat
    BY <1>1, <1>4, Grow, LenProperties DEF ProductsGrow, Typed
  <2>3. ASSUME NEW e \in Deployer, e # d
        PROVE  script'[e].product <= Len(products')
    <3>1. script'[e] = script[e] /\ script[e] \in Script  BY <1>1, <2>1, <2>3 DEF Moves, Typed
    <3>2. script[e].product \in Nat /\ script[e].product <= Len(products)
      BY <1>1, <3>1 DEF Typed, Script
    <3> QED  BY <2>2, <3>1, <3>2
  <2> QED  BY <2>1, <2>3 DEF Moves
<1> QED  BY <1>2, <1>3, <1>4, <1>5, <1>6, <1>7 DEF Typed

\* What another script holds is left alone.
LEMMA OthersPrepared ==
    ASSUME SetupIInv, NEW d \in Deployer, SetupStep(d), NEW e \in Deployer, e # d
    PROVE  Prepared(e)'
<1>1. SetupTypeOK /\ Typed /\ Prepared(d) /\ Prepared(e) /\ AssociatedOnce
  BY TypedFromTypeOK DEF SetupIInv
<1>2. PICK s : s = script[e] /\ s \in Script  BY <1>1 DEF Typed
<1>3. script'[e] = s  BY <1>1, <1>2, Move DEF Moves
<1>4. portfolios \in Nat /\ portfolios' \in Nat /\ portfolios <= portfolios'
  BY <1>1, PortfoliosGrow DEF Typed
<1>5. \A t \in EnvType : templates[t] \in Content => templates'[t] \in Content
  BY <1>1, TemplatesKept
<1>6. s.pc # "stopped" => s.content \in Content  BY <1>1, <1>2 DEF Prepared
<1>7. s.pc \notin {"stopped", "creatingPortfolio"} => s.portfolio \in 1..portfolios'
  <2>1. s.pc \notin {"stopped", "creatingPortfolio"} => s.portfolio \in 1..portfolios
    BY <1>1, <1>2 DEF Prepared
  <2> QED  BY <1>4, <2>1
<1>8. s.pc = "uploading" => s.todo # {}  BY <1>1, <1>2 DEF Prepared
<1>9. s.pc \in {"searching"} \cup OnType =>
        s.todo # {} /\ \A t \in s.todo : templates'[t] \in Content
  <2>1. s.todo \subseteq EnvType  BY <1>2 DEF Script
  <2> QED  BY <1>1, <1>2, <1>5, <2>1 DEF Prepared
<1>10. s.pc \in OnType => s.type \in s.todo  BY <1>1, <1>2 DEF Prepared
<1>11. ASSUME s.pc \in OnType \ {"creating"}
       PROVE  /\ s.product \in DOMAIN products'
              /\ products'[s.product].type = s.type
              /\ products'[s.product].portfolio = IF s.pc = "associating" THEN 0 ELSE s.portfolio
  <2>1. /\ s.product \in DOMAIN products
        /\ products[s.product].type = s.type
        /\ products[s.product].portfolio = IF s.pc = "associating" THEN 0 ELSE s.portfolio
    BY <1>1, <1>2, <1>11 DEF Prepared
  <2>2. /\ s.product \in DOMAIN products'
        /\ products'[s.product].type = products[s.product].type
        /\ \/ products'[s.product].portfolio = products[s.product].portfolio
           \/ script[d].pc = "associating" /\ script[d].product = s.product
    BY <1>1, <2>1, Grow DEF ProductsGrow
  <2>3. ~(script[d].pc = "associating" /\ script[d].product = s.product)
    <3>1. SUFFICES ASSUME script[d].pc = "associating", script[d].product = s.product
                   PROVE  FALSE
      OBVIOUS
    <3>2. s.pc # "associating"  BY <1>1, <1>2, <3>1 DEF AssociatedOnce
    <3>3. products[s.product].portfolio = 0  BY <1>1, <3>1 DEF Prepared, OnType
    <3>4. s.portfolio \in 1..portfolios  BY <1>1, <1>2, <1>11 DEF Prepared, OnType
    <3> QED  BY <1>4, <2>1, <3>2, <3>3, <3>4
  <2> QED  BY <2>1, <2>2, <2>3
<1>12. ASSUME s.pc = "versioning"
       PROVE  \E v \in products'[s.product].versions : s.version = v.number + 1
  <2>1. s.product \in DOMAIN products  BY <1>1, <1>2, <1>12 DEF Prepared, OnType
  <2>2. PICK v \in products[s.product].versions : s.version = v.number + 1
    BY <1>1, <1>2, <1>12 DEF Prepared
  <2>3. v \in products'[s.product].versions  BY <1>1, <2>1, <2>2, Grow DEF ProductsGrow
  <2> QED  BY <2>2, <2>3
<1> QED
  BY <1>3, <1>6, <1>7, <1>8, <1>9, <1>10, <1>11, <1>12 DEF Prepared

\* Each step leaves its script with what its next place needs.
LEMMA MoverPrepared ==
    ASSUME SetupIInv, NEW d \in Deployer, SetupStep(d)
    PROVE  Prepared(d)'
<1>1. SetupTypeOK /\ Typed /\ Prepared(d)  BY TypedFromTypeOK DEF SetupIInv
<1>2. PICK s : s = script[d] /\ s \in Script  BY <1>1 DEF Typed
<1>3. portfolios \in Nat  BY <1>1 DEF Typed
<1>4. CASE \E c \in Content : Start(d, c)
  <2>1. PICK c \in Content : Start(d, c)  BY <1>4
  <2>2. portfolios' = portfolios  BY <2>1 DEF Start
  <2>3. PICK n : /\ Moves(d, n) /\ n.content = c
                 /\ \/ n.pc = "creatingPortfolio"
                    \/ n.pc = "comparing" /\ portfolios # 0 /\ n.portfolio = 1
    BY <1>1, <2>1, StartEffect
  <2>4. n.pc = "comparing" => n.portfolio \in 1..portfolios  BY <1>3, <2>3
  <2> QED  BY <2>2, <2>3, <2>4 DEF Prepared, Moves, OnType
<1>5. CASE CreateSCPortfolio(d)
  <2>1. PICK n : /\ Moves(d, n) /\ n.pc = "comparing" /\ n.portfolio = portfolios + 1
                 /\ n.content = s.content
    BY <1>1, <1>2, <1>5, CreateSCPortfolioEffect
  <2>2. s.content \in Content  BY <1>1, <1>2, <1>5 DEF CreateSCPortfolio, Prepared
  <2>3. n.portfolio \in 1..portfolios'  BY <1>3, <1>5, <2>1 DEF CreateSCPortfolio
  <2> QED  BY <2>1, <2>2, <2>3 DEF Prepared, Moves, OnType
<1>6. CASE CompareTemplates(d)
  <2>1. PICK n : /\ Moves(d, n)
                 /\ \/ n.pc = "onboarding"
                    \/ n.pc = "uploading" /\ n.todo # {}
                 /\ n.content = s.content /\ n.portfolio = s.portfolio
    BY <1>1, <1>2, <1>6, CompareEffect
  <2>2. s.content \in Content /\ s.portfolio \in 1..portfolios /\ portfolios' = portfolios
    BY <1>1, <1>2, <1>6 DEF CompareTemplates, Prepared
  <2> QED  BY <2>1, <2>2 DEF Prepared, Moves, OnType
<1>7. CASE UploadTemplates(d)
  <2>1. Goes(d, "searching") /\ s.pc = "uploading"  BY <1>2, <1>7 DEF UploadTemplates
  <2>2. PICK n : /\ Moves(d, n) /\ n.pc = "searching" /\ n.todo = s.todo
                 /\ n.content = s.content /\ n.portfolio = s.portfolio
    BY <1>1, <1>2, <2>1, GoesEffect
  <2>3. s.content \in Content /\ s.portfolio \in 1..portfolios /\ s.todo # {}
    BY <1>1, <1>2, <2>1 DEF Prepared
  <2>4. portfolios' = portfolios /\ \A t \in s.todo : templates'[t] = s.content
    BY <1>2, <1>7 DEF UploadTemplates, Script
  <2> QED  BY <2>2, <2>3, <2>4 DEF Prepared, Moves, OnType
<1>8. CASE \E t \in EnvType : SearchProduct(d, t)
  <2>1. PICK t \in EnvType : SearchProduct(d, t)  BY <1>8
  <2>2. s.pc = "searching" /\ t \in s.todo /\ UNCHANGED <<portfolios, templates, products>>
    BY <1>2, <2>1 DEF SearchProduct
  <2>3. PICK n : /\ Moves(d, n) /\ n.type = t /\ n.todo = s.todo
                 /\ n.content = s.content /\ n.portfolio = s.portfolio
                 /\ \/ n.pc = "creating"
                    \/ /\ n.pc = "versioning" /\ n.product \in Published(s.portfolio, t)
                       /\ \E v \in products[n.product].versions : n.version = v.number + 1
    BY <1>1, <1>2, <2>1, SearchEffect
  <2>4. /\ s.content \in Content /\ s.portfolio \in 1..portfolios
        /\ s.todo # {} /\ \A u \in s.todo : templates[u] \in Content
    BY <1>1, <1>2, <2>2 DEF Prepared, OnType
  <2> QED  BY <2>2, <2>3, <2>4 DEF Prepared, Moves, OnType, Published
<1>9. CASE CreateVersion(d)
  <2>1. Goes(d, "constraining") /\ s.pc = "versioning" /\ UNCHANGED <<portfolios, templates>>
    BY <1>2, <1>9 DEF CreateVersion
  <2>2. PICK n : /\ Moves(d, n) /\ n.pc = "constraining" /\ n.todo = s.todo /\ n.type = s.type
                 /\ n.content = s.content /\ n.portfolio = s.portfolio /\ n.product = s.product
    BY <1>1, <1>2, <2>1, GoesEffect
  <2>3. PICK q : /\ Becomes(s.product, q) /\ q.type = products[s.product].type
                 /\ q.portfolio = products[s.product].portfolio
    BY <1>1, <1>2, <1>9, CreateVersionEffect
  <2>4. /\ s.content \in Content /\ s.portfolio \in 1..portfolios /\ s.type \in s.todo
        /\ s.todo # {} /\ \A u \in s.todo : templates[u] \in Content
        /\ s.product \in DOMAIN products /\ products[s.product].type = s.type
        /\ products[s.product].portfolio = s.portfolio
    BY <1>1, <1>2, <2>1 DEF Prepared, OnType
  <2> QED  BY <2>1, <2>2, <2>3, <2>4 DEF Prepared, Moves, OnType, Becomes
<1>10. CASE CreateProduct(d)
  <2>1. s.pc = "creating" /\ UNCHANGED <<portfolios, templates>>  BY <1>2, <1>10 DEF CreateProduct
  <2>2. PICK n : /\ Moves(d, n) /\ n.pc = "associating" /\ n.todo = s.todo /\ n.type = s.type
                 /\ n.content = s.content /\ n.portfolio = s.portfolio
                 /\ n.product = Len(products) + 1
    BY <1>1, <1>2, <1>10, CreateProductEffect
  <2>3. /\ Len(products) + 1 \in DOMAIN products'
        /\ products'[Len(products) + 1].type = s.type
        /\ products'[Len(products) + 1].portfolio = 0
    BY <1>1, <1>2, <1>10, CreateProductEffect
  <2>4. /\ s.content \in Content /\ s.portfolio \in 1..portfolios /\ s.type \in s.todo
        /\ s.todo # {} /\ \A u \in s.todo : templates[u] \in Content
    BY <1>1, <1>2, <2>1 DEF Prepared, OnType
  <2> QED  BY <2>1, <2>2, <2>3, <2>4 DEF Prepared, Moves, OnType
<1>11. CASE AssociateProduct(d)
  <2>1. Goes(d, "constraining") /\ s.pc = "associating" /\ UNCHANGED <<portfolios, templates>>
    BY <1>2, <1>11 DEF AssociateProduct
  <2>2. PICK n : /\ Moves(d, n) /\ n.pc = "constraining" /\ n.todo = s.todo /\ n.type = s.type
                 /\ n.content = s.content /\ n.portfolio = s.portfolio /\ n.product = s.product
    BY <1>1, <1>2, <2>1, GoesEffect
  <2>3. PICK q : /\ Becomes(s.product, q) /\ q.type = products[s.product].type
                 /\ q.portfolio = s.portfolio
    BY <1>1, <1>2, <1>11, AssociateEffect
  <2>4. /\ s.content \in Content /\ s.portfolio \in 1..portfolios /\ s.type \in s.todo
        /\ s.todo # {} /\ \A u \in s.todo : templates[u] \in Content
        /\ s.product \in DOMAIN products /\ products[s.product].type = s.type
    BY <1>1, <1>2, <2>1 DEF Prepared, OnType
  <2> QED  BY <2>1, <2>2, <2>3, <2>4 DEF Prepared, Moves, OnType, Becomes
<1>12. CASE CreateLaunchConstraint(d)
  <2>1. s.pc = "constraining" /\ UNCHANGED <<portfolios, templates>>
    BY <1>2, <1>12 DEF CreateLaunchConstraint
  <2>2. PICK n : /\ Moves(d, n) /\ n.todo = s.todo \ {s.type}
                 /\ n.content = s.content /\ n.portfolio = s.portfolio
                 /\ \/ n.pc = "onboarding"
                    \/ n.pc = "searching" /\ n.todo # {}
    BY <1>1, <1>2, <1>12, ConstraintEffect
  <2>3. /\ s.content \in Content /\ s.portfolio \in 1..portfolios
        /\ \A u \in s.todo : templates[u] \in Content
    BY <1>1, <1>2, <2>1 DEF Prepared, OnType
  <2> QED  BY <2>1, <2>2, <2>3 DEF Prepared, Moves, OnType
<1>13. CASE UploadOnboardAccountCfn(d) \/ UploadBootstrapScripts(d)
  <2>1. /\ \/ Goes(d, "bootstrapping") /\ s.pc = "onboarding"
           \/ Goes(d, "done") /\ s.pc = "bootstrapping"
        /\ UNCHANGED <<portfolios, templates>>
    BY <1>2, <1>13 DEF UploadOnboardAccountCfn, UploadBootstrapScripts
  <2>2. PICK n : /\ Moves(d, n) /\ n.pc \in {"bootstrapping", "done"}
                 /\ n.content = s.content /\ n.portfolio = s.portfolio
    BY <1>1, <1>2, <2>1, GoesEffect
  <2>3. s.content \in Content /\ s.portfolio \in 1..portfolios  BY <1>1, <1>2, <2>1 DEF Prepared
  <2> QED  BY <2>1, <2>2, <2>3 DEF Prepared, Moves, OnType
<1>14. CASE Interrupted(d) \/ RunAgain(d)
  BY <1>1, <1>14, StopEffect DEF Interrupted, RunAgain, Prepared, Moves, OnType
<1> QED
  BY <1>4, <1>5, <1>6, <1>7, <1>8, <1>9, <1>10, <1>11, <1>12, <1>13, <1>14 DEF SetupStep

\* A script comes to associate a product by making it, when no other script knows it.
LEMMA AssociatedOnceKept ==
    ASSUME SetupIInv, NEW d \in Deployer, SetupStep(d)
    PROVE  AssociatedOnce'
<1>1. SetupTypeOK /\ Typed /\ Prepared(d) /\ AssociatedOnce
  BY TypedFromTypeOK DEF SetupIInv
<1>2. PICK n \in Script : Moves(d, n)  BY <1>1, Move
<1>3. CASE n.pc = "associating"
  <2>1. CASE CreateProduct(d)
    <3>1. n.product = Len(products) + 1
      BY <1>1, <1>2, <2>1, CreateProductEffect DEF Moves
    <3>2. ASSUME NEW e \in Deployer, e # d, script'[e].product = n.product PROVE FALSE
      <4>1. script[e].product \in Nat /\ script[e].product <= Len(products)
        BY <1>1 DEF Typed, Script
      <4>2. script'[e] = script[e]  BY <1>2, <3>2 DEF Moves
      <4>3. Len(products) \in Nat  BY <1>1, Indexed DEF Typed
      <4> QED  BY <3>1, <3>2, <4>1, <4>2, <4>3
    <3> QED  BY <1>1, <1>2, <3>2 DEF AssociatedOnce, Moves
  <2>2. CASE ~CreateProduct(d)
    <3>1. CASE \E c \in Content : Start(d, c)
      BY <1>1, <1>2, <1>3, <3>1, StartEffect DEF Moves
    <3>2. CASE CreateSCPortfolio(d)
      BY <1>1, <1>2, <1>3, <3>2, CreateSCPortfolioEffect DEF Moves
    <3>3. CASE CompareTemplates(d)  BY <1>1, <1>2, <1>3, <3>3, CompareEffect DEF Moves
    <3>4. CASE \E t \in EnvType : SearchProduct(d, t)
      BY <1>1, <1>2, <1>3, <3>4, SearchEffect DEF Moves
    <3>5. CASE CreateLaunchConstraint(d)
      BY <1>1, <1>2, <1>3, <3>5, ConstraintEffect DEF Moves
    <3>6. CASE Interrupted(d) \/ RunAgain(d)
      BY <1>1, <1>2, <1>3, <3>6, StopEffect DEF Moves, Interrupted, RunAgain
    <3>7. CASE UploadTemplates(d) \/ CreateVersion(d) \/ AssociateProduct(d)
               \/ UploadOnboardAccountCfn(d) \/ UploadBootstrapScripts(d)
      BY <1>1, <1>2, <1>3, <3>7, GoesEffect
      DEF Moves, UploadTemplates, CreateVersion, AssociateProduct, UploadOnboardAccountCfn,
          UploadBootstrapScripts
    <3> QED  BY <2>2, <3>1, <3>2, <3>3, <3>4, <3>5, <3>6, <3>7 DEF SetupStep
  <2> QED  BY <2>1, <2>2
<1>4. CASE n.pc # "associating"
  BY <1>1, <1>2, <1>4 DEF AssociatedOnce, Moves
<1> QED  BY <1>3, <1>4

\* A version is only added with a number that is not taken.
LEMMA VersionsDistinctKept ==
    ASSUME SetupIInv, NEW d \in Deployer, SetupStep(d)
    PROVE  VersionsDistinct'
<1>1. SetupTypeOK /\ Typed /\ Prepared(d) /\ VersionsDistinct
  BY TypedFromTypeOK DEF SetupIInv
<1>2. CASE CreateVersion(d)
  <2>1. PICK i : i = script[d].product  OBVIOUS
  <2>2. i \in DOMAIN products  BY <1>1, <1>2, <2>1 DEF CreateVersion, Prepared, OnType
  <2>3. PICK q, v : /\ Becomes(i, q)
                    /\ \/ q.versions = products[i].versions
                       \/ /\ q.versions = products[i].versions \cup {v}
                          /\ \A w \in products[i].versions : w.number # v.number
    BY <1>1, <1>2, <2>1, CreateVersionEffect
  <2>4. \A v1, w \in q.versions : v1.number = w.number => v1 = w
    BY <1>1, <2>2, <2>3 DEF VersionsDistinct
  <2> QED  BY <1>1, <2>2, <2>3, <2>4 DEF VersionsDistinct, Becomes
<1>3. CASE CreateProduct(d)
  <2>1. /\ DOMAIN products' = DOMAIN products \cup {Len(products) + 1}
        /\ \A i \in DOMAIN products : products'[i] = products[i]
        /\ products'[Len(products) + 1].versions = {NewVersion(d, 1)}
    BY <1>1, <1>3, CreateProductEffect
  <2> QED  BY <1>1, <2>1 DEF VersionsDistinct
<1>4. CASE AssociateProduct(d) \/ CreateLaunchConstraint(d)
  <2>1. PICK i : i = script[d].product  OBVIOUS
  <2>2. i \in DOMAIN products
    BY <1>1, <1>4, <2>1 DEF AssociateProduct, CreateLaunchConstraint, Prepared, OnType
  <2>3. PICK q : Becomes(i, q) /\ q.versions = products[i].versions
    BY <1>1, <1>4, <2>1, AssociateEffect, ConstraintEffect
  <2>4. \A v, w \in q.versions : v.number = w.number => v = w
    BY <1>1, <2>2, <2>3 DEF VersionsDistinct
  <2> QED  BY <1>1, <2>2, <2>3, <2>4 DEF VersionsDistinct, Becomes
<1>5. CASE UNCHANGED products  BY <1>1, <1>5 DEF VersionsDistinct
<1> QED
  BY <1>2, <1>3, <1>4, <1>5
  DEF SetupStep, Start, CreateSCPortfolio, CompareTemplates, UploadTemplates, SearchProduct,
      UploadOnboardAccountCfn, UploadBootstrapScripts, Interrupted, RunAgain

\* A product that is published in a portfolio remains so, as do its versions.
LEMMA PublishedKept ==
    ASSUME Typed, NEW d \in Deployer, Prepared(d), SetupStep(d),
           NEW p \in Nat \ {0}, NEW t
    PROVE  \A i \in Published(p, t) :
               /\ i \in DOMAIN products /\ i \in Published(p, t)'
               /\ products[i].constrained => products'[i].constrained
<1>1. SUFFICES ASSUME NEW i \in Published(p, t)
               PROVE  /\ i \in DOMAIN products /\ i \in Published(p, t)'
                      /\ products[i].constrained => products'[i].constrained
  OBVIOUS
<1>2. i \in DOMAIN products /\ products[i].portfolio = p /\ products[i].type = t
  BY DEF Published
<1>3. ~(script[d].pc = "associating" /\ script[d].product = i)
  BY <1>2 DEF Prepared, OnType
<1>4. /\ i \in DOMAIN products' /\ products'[i].type = t /\ products'[i].portfolio = p
      /\ products[i].constrained => products'[i].constrained
  BY <1>2, <1>3, Grow DEF ProductsGrow
<1> QED  BY <1>2, <1>4 DEF Published

\* Another script's types stay published, and its files uploaded.
LEMMA OthersPublished ==
    ASSUME SetupIInv, DoneIsPublished, NEW d \in Deployer, SetupStep(d),
           NEW e \in Deployer, e # d
    PROVE  /\ script'[e].pc = "uploading" => script'[e].todo = EnvType
           /\ script'[e].pc \in Over => script'[e].todo = {}
           /\ script'[e].pc \in {"searching"} \cup OnType \cup Over =>
                \A t \in EnvType \ script'[e].todo :
                    \E i \in Published(script[e].portfolio, t)' : products'[i].constrained
           /\ script'[e].pc = "done" => bootFiles' = "complete"
<1>1. SetupTypeOK /\ Typed /\ Prepared(d) /\ Prepared(e)
  BY TypedFromTypeOK DEF SetupIInv
<1>2. script'[e] = script[e]  BY <1>1, Move DEF Moves
<1>3. bootFiles = "complete" => bootFiles' = "complete"
  BY DEF SetupStep, Start, CreateSCPortfolio, CompareTemplates, UploadTemplates, SearchProduct,
         CreateVersion, CreateProduct, AssociateProduct, CreateLaunchConstraint,
         UploadOnboardAccountCfn, UploadBootstrapScripts, UploadFolder, Interrupted, RunAgain
<1>4. ASSUME script[e].pc \in {"searching"} \cup OnType \cup Over,
             NEW t \in EnvType \ script[e].todo
      PROVE  \E i \in Published(script[e].portfolio, t)' : products'[i].constrained
  <2>1. script[e].portfolio \in Nat \ {0}
    BY <1>1, <1>4 DEF Prepared, Typed, OnType, Over
  <2>2. PICK i \in Published(script[e].portfolio, t) : products[i].constrained
    BY <1>4 DEF DoneIsPublished
  <2>3. PICK p : p = script[e].portfolio  OBVIOUS
  <2>4. i \in Published(p, t)' /\ products'[i].constrained
    BY <1>1, <2>1, <2>2, <2>3, PublishedKept
  <2>5. Published(p, t)' = Published(script[e].portfolio, t)'  BY <1>2, <2>3 DEF Published
  <2> QED  BY <2>4, <2>5
<1> QED  BY <1>2, <1>3, <1>4 DEF DoneIsPublished

\* What the script that moves has dealt with is published, as is the type that it
\* has just constrained.
LEMMA MoverPublished ==
    ASSUME SetupIInv, DoneIsPublished, ~EtagIsMd5, NEW d \in Deployer, SetupStep(d)
    PROVE  /\ script'[d].pc = "uploading" => script'[d].todo = EnvType
           /\ script'[d].pc \in Over => script'[d].todo = {}
           /\ script'[d].pc \in {"searching"} \cup OnType \cup Over =>
                \A t \in EnvType \ script'[d].todo :
                    \E i \in Published(script[d].portfolio, t)' : products'[i].constrained
           /\ script'[d].pc = "done" => bootFiles' = "complete"
<1>1. SetupTypeOK /\ Typed /\ Prepared(d)
  BY TypedFromTypeOK DEF SetupIInv
<1>2. PICK s : s = script[d] /\ s \in Script  BY <1>1 DEF Typed
<1>3. PICK n \in Script : Moves(d, n)  BY <1>1, Move
<1>4. s.pc \notin {"stopped", "creatingPortfolio"} => s.portfolio \in Nat \ {0}
  BY <1>1, <1>2 DEF Prepared, Typed
<1>5. ASSUME s.pc \in {"searching"} \cup OnType \cup Over, n.portfolio = s.portfolio,
             NEW t \in EnvType \ s.todo
      PROVE  \E i \in Published(script[d].portfolio, t)' : products'[i].constrained
  <2>1. PICK i \in Published(s.portfolio, t) : products[i].constrained
    BY <1>2, <1>5 DEF DoneIsPublished
  <2>2. PICK p : p = s.portfolio  OBVIOUS
  <2>3. i \in Published(p, t)' /\ products'[i].constrained
    BY <1>1, <1>4, <1>5, <2>1, <2>2, PublishedKept DEF OnType, Over
  <2>4. Published(p, t)' = Published(script[d].portfolio, t)'
    BY <1>3, <1>5, <2>2 DEF Published, Moves
  <2> QED  BY <2>3, <2>4
<1>6. CASE (\E c \in Content : Start(d, c)) \/ CreateSCPortfolio(d) \/ Interrupted(d) \/ RunAgain(d)
  <2>1. n.pc \in {"stopped", "creatingPortfolio", "comparing"}
    BY <1>1, <1>3, <1>6, StartEffect, CreateSCPortfolioEffect, StopEffect
    DEF Moves, Interrupted, RunAgain
  <2> QED  BY <1>3, <2>1 DEF Moves, OnType, Over
<1>7. CASE CompareTemplates(d)
  <2>1. n.pc = "uploading" /\ n.todo = EnvType  BY <1>1, <1>3, <1>7, CompareEffect DEF Moves
  <2> QED  BY <1>3, <2>1 DEF Moves, OnType, Over
<1>8. CASE UploadTemplates(d)
  <2>1. Goes(d, "searching") /\ s.pc = "uploading"  BY <1>2, <1>8 DEF UploadTemplates
  <2>2. n.pc = "searching" /\ n.todo = s.todo  BY <1>1, <1>2, <1>3, <2>1, GoesEffect DEF Moves
  <2>3. n.todo = EnvType  BY <1>2, <2>1, <2>2 DEF DoneIsPublished
  <2> QED  BY <1>3, <2>2, <2>3 DEF Moves, OnType, Over
<1>9. CASE \E t \in EnvType : SearchProduct(d, t)
  <2>1. s.pc = "searching"  BY <1>2, <1>9 DEF SearchProduct
  <2>2. n.pc \in {"creating", "versioning"} /\ n.todo = s.todo /\ n.portfolio = s.portfolio
    BY <1>1, <1>2, <1>3, <1>9, SearchEffect DEF Moves
  <2> QED  BY <1>3, <1>5, <2>1, <2>2 DEF Moves, OnType, Over
<1>10. CASE CreateVersion(d) \/ AssociateProduct(d)
  <2>1. Goes(d, "constraining") /\ s.pc \in {"versioning", "associating"}
    BY <1>2, <1>10 DEF CreateVersion, AssociateProduct
  <2>2. n.pc = "constraining" /\ n.todo = s.todo /\ n.portfolio = s.portfolio
    BY <1>1, <1>2, <1>3, <2>1, GoesEffect DEF Moves
  <2> QED  BY <1>3, <1>5, <2>1, <2>2 DEF Moves, OnType, Over
<1>11. CASE CreateProduct(d)
  <2>1. s.pc = "creating"  BY <1>2, <1>11 DEF CreateProduct
  <2>2. n.pc = "associating" /\ n.todo = s.todo /\ n.portfolio = s.portfolio
    BY <1>1, <1>2, <1>3, <1>11, CreateProductEffect DEF Moves
  <2> QED  BY <1>3, <1>5, <2>1, <2>2 DEF Moves, OnType, Over
<1>12. CASE CreateLaunchConstraint(d)
  <2>1. s.pc = "constraining"  BY <1>2, <1>12 DEF CreateLaunchConstraint
  <2>2. /\ n.todo = s.todo \ {s.type} /\ n.portfolio = s.portfolio
        /\ (n.pc = "onboarding" /\ n.todo = {}) \/ n.pc = "searching"
    BY <1>1, <1>2, <1>3, <1>12, ConstraintEffect DEF Moves
  <2>3. ASSUME NEW t \in EnvType \ n.todo
        PROVE  \E i \in Published(script[d].portfolio, t)' : products'[i].constrained
    <3>1. CASE t \notin s.todo  BY <1>5, <2>1, <2>2, <3>1 DEF OnType
    <3>2. CASE t = s.type
      <4>1. PICK i : i = s.product  OBVIOUS
      <4>2. /\ i \in DOMAIN products /\ products[i].type = s.type
            /\ products[i].portfolio = s.portfolio
        BY <1>1, <1>2, <2>1, <4>1 DEF Prepared, OnType
      <4>3. PICK q : /\ Becomes(i, q) /\ q.type = products[i].type
                     /\ q.portfolio = products[i].portfolio /\ q.constrained
        BY <1>1, <1>2, <1>12, <4>1, ConstraintEffect
      <4> QED  BY <1>3, <2>2, <3>2, <4>2, <4>3 DEF Published, Moves, Becomes
    <3> QED  BY <2>2, <3>1, <3>2
  <2> QED  BY <1>3, <2>2, <2>3 DEF Moves, OnType, Over
<1>13. CASE UploadOnboardAccountCfn(d) \/ UploadBootstrapScripts(d)
  <2>1. /\ \/ Goes(d, "bootstrapping") /\ s.pc = "onboarding"
           \/ Goes(d, "done") /\ s.pc = "bootstrapping" /\ bootFiles' = "complete"
    BY <1>2, <1>13 DEF UploadOnboardAccountCfn, UploadBootstrapScripts, UploadFolder
  <2>2. /\ n.todo = s.todo /\ n.portfolio = s.portfolio
        /\ n.pc = "bootstrapping" \/ (n.pc = "done" /\ bootFiles' = "complete")
    BY <1>1, <1>2, <1>3, <2>1, GoesEffect DEF Moves
  <2>3. n.todo = {}  BY <1>2, <2>1, <2>2 DEF DoneIsPublished, Over
  <2> QED  BY <1>3, <1>5, <2>1, <2>2, <2>3 DEF Moves, OnType, Over
<1> QED
  BY <1>6, <1>7, <1>8, <1>9, <1>10, <1>11, <1>12, <1>13 DEF SetupStep

\* Types that were dealt with stay published.
LEMMA DoneIsPublishedKept ==
    ASSUME SetupIInv, ~EtagIsMd5, NEW d \in Deployer, SetupStep(d)
    PROVE  DoneIsPublished'
<1>1. DoneIsPublished  BY DEF SetupIInv
<1>2. SetupTypeOK /\ Typed /\ Prepared(d)  BY TypedFromTypeOK DEF SetupIInv
<1>3. ASSUME NEW e \in Deployer
      PROVE  /\ script'[e].pc = "uploading" => script'[e].todo = EnvType
             /\ script'[e].pc \in Over => script'[e].todo = {}
             /\ script'[e].pc \in {"searching"} \cup OnType \cup Over =>
                  \A t \in EnvType \ script'[e].todo :
                      \E i \in Published(script[e].portfolio, t)' : products'[i].constrained
             /\ script'[e].pc = "done" => bootFiles' = "complete"
  <2>1. CASE e = d  BY <1>1, <2>1, MoverPublished
  <2>2. CASE e # d  BY <1>1, <2>2, OthersPublished
  <2> QED  BY <2>1, <2>2
<1> QED  BY <1>3 DEF DoneIsPublished

\* Where a version comes from: it was there, or the step made it from the template
\* that is in S3, with the number that the script found or with the first one.
LEMMA VersionsFrom ==
    ASSUME Typed, NEW d \in Deployer, Prepared(d), SetupStep(d),
           NEW i \in DOMAIN products', NEW v \in products'[i].versions
    PROVE  \/ /\ i \in DOMAIN products /\ v \in products[i].versions
              /\ products'[i].type = products[i].type
           \/ /\ CreateVersion(d) /\ i = script[d].product /\ i \in DOMAIN products
              /\ products'[i].type = script[d].type /\ products[i].type = script[d].type
              /\ v.number = script[d].version /\ v.content = templates[script[d].type]
           \/ /\ CreateProduct(d) /\ i = Len(products) + 1
              /\ products'[i].type = script[d].type
              /\ v.number = 1 /\ v.content = templates[script[d].type]
<1>1. CASE CreateVersion(d)
  <2>1. PICK k : k = script[d].product  OBVIOUS
  <2>2. k \in DOMAIN products /\ products[k].type = script[d].type
    BY <1>1, <2>1 DEF CreateVersion, Prepared, OnType
  <2>3. PICK q, w : /\ Becomes(k, q) /\ q.type = products[k].type
                    /\ w.number = script[d].version /\ w.content = templates[script[d].type]
                    /\ q.versions \in {products[k].versions, products[k].versions \cup {w}}
    BY <1>1, <2>1, CreateVersionEffect
  <2> QED  BY <1>1, <2>1, <2>2, <2>3 DEF Becomes
<1>2. CASE CreateProduct(d)
  <2>1. /\ DOMAIN products' = DOMAIN products \cup {Len(products) + 1}
        /\ \A j \in DOMAIN products : products'[j] = products[j]
        /\ products'[Len(products) + 1].type = script[d].type
        /\ products'[Len(products) + 1].versions = {NewVersion(d, 1)}
        /\ NewVersion(d, 1).number = 1
        /\ NewVersion(d, 1).content = templates[script[d].type]
    BY <1>2, CreateProductEffect
  <2> QED  BY <1>2, <2>1
<1>3. CASE AssociateProduct(d) \/ CreateLaunchConstraint(d)
  <2>1. PICK k : k = script[d].product  OBVIOUS
  <2>2. k \in DOMAIN products
    BY <1>3, <2>1 DEF AssociateProduct, CreateLaunchConstraint, Prepared, OnType
  <2>3. PICK q : Becomes(k, q) /\ q.type = products[k].type /\ q.versions = products[k].versions
    BY <1>3, <2>1, AssociateEffect, ConstraintEffect
  <2> QED  BY <2>2, <2>3 DEF Becomes
<1>4. CASE UNCHANGED products  BY <1>4
<1> QED
  BY <1>1, <1>2, <1>3, <1>4
  DEF SetupStep, Start, CreateSCPortfolio, CompareTemplates, UploadTemplates, SearchProduct,
      UploadOnboardAccountCfn, UploadBootstrapScripts, Interrupted, RunAgain

\* A set of deployers that changes by one at most.
LEMMA Recount ==
    ASSUME NEW S \in SUBSET Deployer, NEW T \in SUBSET Deployer, NEW d \in Deployer,
           \A e \in Deployer : e # d => (e \in T <=> e \in S)
    PROVE  /\ Cardinality(S) \in Nat /\ Cardinality(T) \in Nat
           /\ Cardinality(S) <= Cardinality(Deployer) /\ Cardinality(T) <= Cardinality(Deployer)
           /\ (d \in T => d \in S) => Cardinality(T) <= Cardinality(S)
           /\ Cardinality(T) <= Cardinality(S) + 1
           /\ d \in S /\ d \notin T => Cardinality(T) = Cardinality(S) - 1
<1>1. IsFiniteSet(Deployer)  BY DeploymentAssumption
<1>2. IsFiniteSet(S) /\ IsFiniteSet(T)  BY <1>1, FS_Subset
<1>3. /\ Cardinality(S) \in Nat /\ Cardinality(T) \in Nat
      /\ Cardinality(S) <= Cardinality(Deployer) /\ Cardinality(T) <= Cardinality(Deployer)
  BY <1>1, <1>2, FS_CardinalityType, FS_Subset
<1>4. CASE d \in T <=> d \in S
  <2>1. T = S  BY <1>4
  <2> QED  BY <1>3, <1>4, <2>1
<1>5. CASE d \in S /\ d \notin T
  <2>1. T = S \ {d}  BY <1>5
  <2>2. Cardinality(T) = Cardinality(S) - 1  BY <1>2, <1>5, <2>1, FS_RemoveElement
  <2> QED  BY <1>3, <1>5, <2>2
<1>6. CASE d \notin S /\ d \in T
  <2>1. T = S \cup {d}  BY <1>6
  <2>2. Cardinality(T) = Cardinality(S) + 1  BY <1>2, <1>6, <2>1, FS_AddElement
  <2> QED  BY <1>3, <1>6, <2>2
<1> QED  BY <1>4, <1>5, <1>6

\* The script that moves no longer has to make a version of a type that it had not
\* to make before, unless it has just begun; nor does it found a portfolio, or run.
LEMMA CountsOf ==
    ASSUME SetupIInv, NEW d \in Deployer, SetupStep(d)
    PROVE  /\ d \in Founding' =>
                d \in Founding \/ ((\E c \in Content : Start(d, c)) /\ portfolios = 0)
           /\ d \in Running' => d \in Running \/ \E c \in Content : Start(d, c)
           /\ \A t \in EnvType :
                /\ d \in Versioning(t)' => d \in Versioning(t) \/ \E c \in Content : Start(d, c)
                /\ (CreateVersion(d) \/ CreateProduct(d)) /\ t = script[d].type =>
                     d \in Versioning(t) /\ d \notin Versioning(t)'
<1>1. SetupTypeOK /\ Typed /\ Prepared(d)  BY TypedFromTypeOK DEF SetupIInv
<1>2. PICK s : s = script[d] /\ s \in Script  BY <1>1 DEF Typed
<1>3. PICK n \in Script : Moves(d, n)  BY <1>1, Move
<1>4. /\ d \in Founding' <=> n.pc = "creatingPortfolio"
      /\ d \in Running' <=> n.pc # "stopped"
      /\ \A t : d \in Versioning(t)' <=>
           \/ n.pc \in {"creatingPortfolio", "comparing", "uploading"}
           \/ n.pc \in {"searching", "versioning", "creating"} /\ t \in n.todo
           \/ n.pc \in {"associating", "constraining"} /\ t \in n.todo \ {n.type}
  BY <1>3 DEF Moves, Founding, Running, Versioning
<1>5. /\ d \in Founding <=> s.pc = "creatingPortfolio"
      /\ d \in Running <=> s.pc # "stopped"
      /\ \A t : d \in Versioning(t) <=>
           \/ s.pc \in {"creatingPortfolio", "comparing", "uploading"}
           \/ s.pc \in {"searching", "versioning", "creating"} /\ t \in s.todo
           \/ s.pc \in {"associating", "constraining"} /\ t \in s.todo \ {s.type}
  BY <1>2 DEF Founding, Running, Versioning
<1>6. CASE \E c \in Content : Start(d, c)
  <2>1. ~CreateVersion(d) /\ ~CreateProduct(d)  BY <1>6 DEF Start, CreateVersion, CreateProduct
  <2>2. n.pc = "creatingPortfolio" => portfolios = 0
    BY <1>1, <1>3, <1>6, StartEffect DEF Moves
  <2> QED  BY <1>4, <1>6, <2>1, <2>2
<1>7. CASE CreateSCPortfolio(d)
  <2>1. s.pc = "creatingPortfolio"  BY <1>2, <1>7 DEF CreateSCPortfolio
  <2>2. n.pc = "comparing"  BY <1>1, <1>3, <1>7, CreateSCPortfolioEffect DEF Moves
  <2>3. ~CreateVersion(d) /\ ~CreateProduct(d)  BY <1>2, <2>1 DEF CreateVersion, CreateProduct
  <2> QED  BY <1>4, <1>5, <2>1, <2>2, <2>3
<1>8. CASE CompareTemplates(d)
  <2>1. s.pc = "comparing"  BY <1>2, <1>8 DEF CompareTemplates
  <2>2. n.pc \in {"onboarding", "uploading"}  BY <1>1, <1>3, <1>8, CompareEffect DEF Moves
  <2>3. ~CreateVersion(d) /\ ~CreateProduct(d)  BY <1>2, <2>1 DEF CreateVersion, CreateProduct
  <2> QED  BY <1>4, <1>5, <2>1, <2>2, <2>3
<1>9. CASE UploadTemplates(d)
  <2>1. Goes(d, "searching") /\ s.pc = "uploading"  BY <1>2, <1>9 DEF UploadTemplates
  <2>2. n.pc = "searching"  BY <1>1, <1>3, <2>1, GoesEffect DEF Moves
  <2>3. ~CreateVersion(d) /\ ~CreateProduct(d)  BY <1>2, <2>1 DEF CreateVersion, CreateProduct
  <2> QED  BY <1>4, <1>5, <2>1, <2>2, <2>3
<1>10. CASE \E t \in EnvType : SearchProduct(d, t)
  <2>1. s.pc = "searching"  BY <1>2, <1>10 DEF SearchProduct
  <2>2. n.pc \in {"creating", "versioning"} /\ n.todo = s.todo
    BY <1>1, <1>2, <1>3, <1>10, SearchEffect DEF Moves
  <2>3. ~CreateVersion(d) /\ ~CreateProduct(d)  BY <1>2, <2>1 DEF CreateVersion, CreateProduct
  <2> QED  BY <1>4, <1>5, <2>1, <2>2, <2>3
<1>11. CASE CreateVersion(d)
  <2>1. Goes(d, "constraining") /\ s.pc = "versioning"  BY <1>2, <1>11 DEF CreateVersion
  <2>2. n.pc = "constraining" /\ n.todo = s.todo /\ n.type = s.type
    BY <1>1, <1>2, <1>3, <2>1, GoesEffect DEF Moves
  <2>3. s.type \in s.todo  BY <1>1, <1>2, <2>1 DEF Prepared, OnType
  <2> QED  BY <1>2, <1>4, <1>5, <2>1, <2>2, <2>3
<1>12. CASE CreateProduct(d)
  <2>1. s.pc = "creating"  BY <1>2, <1>12 DEF CreateProduct
  <2>2. n.pc = "associating" /\ n.todo = s.todo /\ n.type = s.type
    BY <1>1, <1>2, <1>3, <1>12, CreateProductEffect DEF Moves
  <2>3. s.type \in s.todo  BY <1>1, <1>2, <2>1 DEF Prepared, OnType
  <2> QED  BY <1>2, <1>4, <1>5, <2>1, <2>2, <2>3
<1>13. CASE AssociateProduct(d)
  <2>1. Goes(d, "constraining") /\ s.pc = "associating"  BY <1>2, <1>13 DEF AssociateProduct
  <2>2. n.pc = "constraining" /\ n.todo = s.todo /\ n.type = s.type
    BY <1>1, <1>2, <1>3, <2>1, GoesEffect DEF Moves
  <2>3. ~CreateVersion(d) /\ ~CreateProduct(d)  BY <1>2, <2>1 DEF CreateVersion, CreateProduct
  <2> QED  BY <1>4, <1>5, <2>1, <2>2, <2>3
<1>14. CASE CreateLaunchConstraint(d)
  <2>1. s.pc = "constraining"  BY <1>2, <1>14 DEF CreateLaunchConstraint
  <2>2. n.pc \in {"onboarding", "searching"} /\ n.todo = s.todo \ {s.type}
    BY <1>1, <1>2, <1>3, <1>14, ConstraintEffect DEF Moves
  <2>3. ~CreateVersion(d) /\ ~CreateProduct(d)  BY <1>2, <2>1 DEF CreateVersion, CreateProduct
  <2> QED  BY <1>4, <1>5, <2>1, <2>2, <2>3
<1>15. CASE UploadOnboardAccountCfn(d) \/ UploadBootstrapScripts(d)
  <2>1. \/ Goes(d, "bootstrapping") /\ s.pc = "onboarding"
        \/ Goes(d, "done") /\ s.pc = "bootstrapping"
    BY <1>2, <1>15 DEF UploadOnboardAccountCfn, UploadBootstrapScripts
  <2>2. n.pc \in {"bootstrapping", "done"}  BY <1>1, <1>3, <2>1, GoesEffect DEF Moves
  <2>3. ~CreateVersion(d) /\ ~CreateProduct(d)  BY <1>2, <2>1 DEF CreateVersion, CreateProduct
  <2> QED  BY <1>4, <1>5, <2>1, <2>2, <2>3
<1>16. CASE Interrupted(d) \/ RunAgain(d)
  <2>1. n.pc = "stopped"  BY <1>1, <1>3, <1>16, StopEffect DEF Moves, Interrupted, RunAgain
  <2>2. ~CreateVersion(d) /\ ~CreateProduct(d)
    <3>1. script'[d].pc = "stopped"  BY <1>3, <2>1 DEF Moves
    <3>2. CreateVersion(d) => script'[d].pc = "constraining"
      BY <1>1, GoesEffect DEF CreateVersion, Moves
    <3>3. CreateProduct(d) => script'[d].pc = "associating"
      BY <1>1, CreateProductEffect DEF Moves
    <3> QED  BY <3>1, <3>2, <3>3
  <2> QED  BY <1>4, <2>1, <2>2
<1> QED
  BY <1>6, <1>7, <1>8, <1>9, <1>10, <1>11, <1>12, <1>13, <1>14, <1>15, <1>16 DEF SetupStep

\* The bounds hold after each step: a run that begins is counted by one run less
\* that is left, a version that is made by one script less that has to make it.
LEMMA WithinRunsKept ==
    ASSUME SetupIInv, NEW d \in Deployer, SetupStep(d)
    PROVE  WithinRuns'
<1>1. SetupTypeOK /\ Typed /\ Prepared(d) /\ WithinRuns
  BY TypedFromTypeOK DEF SetupIInv
<1>2. \A e \in Deployer : e # d => script'[e] = script[e]  BY <1>1, Move DEF Moves
<1>3. PICK F, G, R, Q : F = Founding /\ G = Founding' /\ R = Running /\ Q = Running'  OBVIOUS
<1>4. /\ F \in SUBSET Deployer /\ G \in SUBSET Deployer
      /\ \A e \in Deployer : e # d => (e \in G <=> e \in F)
  BY <1>2, <1>3 DEF Founding
<1>5. /\ R \in SUBSET Deployer /\ Q \in SUBSET Deployer
      /\ \A e \in Deployer : e # d => (e \in Q <=> e \in R)
  BY <1>2, <1>3 DEF Running
<1>6. /\ Cardinality(F) \in Nat /\ Cardinality(G) \in Nat
      /\ Cardinality(G) <= Cardinality(Deployer)
      /\ (d \in G => d \in F) => Cardinality(G) <= Cardinality(F)
      /\ d \in F /\ d \notin G => Cardinality(G) = Cardinality(F) - 1
  BY <1>4, Recount
<1>7. /\ Cardinality(R) \in Nat /\ Cardinality(Q) \in Nat
      /\ (d \in Q => d \in R) => Cardinality(Q) <= Cardinality(R)
      /\ Cardinality(Q) <= Cardinality(R) + 1
  BY <1>5, Recount
<1>8. Cardinality(Deployer) \in Nat  BY DeploymentAssumption, FS_CardinalityType
<1>9. /\ runsLeft \in Nat /\ MaxRuns \in Nat /\ portfolios \in Nat
      /\ portfolios + Cardinality(F) <= Cardinality(Deployer)
      /\ Cardinality(R) + runsLeft <= MaxRuns
  BY <1>1, <1>3, DeploymentAssumption DEF Typed, WithinRuns
<1>10. IF \E c \in Content : Start(d, c)
       THEN runsLeft' = runsLeft - 1 /\ portfolios' = portfolios
       ELSE runsLeft' = runsLeft
  <2>1. (\E c \in Content : Start(d, c)) => runsLeft' = runsLeft - 1 /\ portfolios' = portfolios
    BY DEF Start
  <2>2. ~(\E c \in Content : Start(d, c)) => runsLeft' = runsLeft
    BY DEF SetupStep, CreateSCPortfolio, CompareTemplates, UploadTemplates, SearchProduct,
           CreateVersion, CreateProduct, AssociateProduct, CreateLaunchConstraint,
           UploadOnboardAccountCfn, UploadBootstrapScripts, Interrupted, RunAgain
  <2> QED  BY <2>1, <2>2
<1>11. portfolios' + Cardinality(G) <= Cardinality(Deployer)
  <2>1. CASE CreateSCPortfolio(d)
    <3>1. d \in F  BY <1>3, <2>1 DEF CreateSCPortfolio, Founding
    <3>2. d \notin G
      BY <1>1, <1>3, <2>1, CreateSCPortfolioEffect DEF Founding, Moves
    <3>3. portfolios' = portfolios + 1  BY <2>1 DEF CreateSCPortfolio
    <3> QED  BY <1>6, <1>8, <1>9, <3>1, <3>2, <3>3
  <2>2. CASE ~CreateSCPortfolio(d)
    <3>1. portfolios' = portfolios  BY <1>1, <2>2, PortfoliosGrow
    <3>2. CASE d \in G => d \in F  BY <1>6, <1>8, <1>9, <3>1, <3>2
    <3>3. CASE portfolios = 0  BY <1>6, <1>8, <3>1, <3>3
    <3> QED  BY <1>3, <3>2, <3>3, CountsOf
  <2> QED  BY <2>1, <2>2
<1>12. Cardinality(Q) + runsLeft' <= MaxRuns
  <2>1. CASE \E c \in Content : Start(d, c)  BY <1>7, <1>9, <1>10, <2>1
  <2>2. CASE ~\E c \in Content : Start(d, c)
    <3>1. d \in Q => d \in R  BY <1>3, <2>2, CountsOf
    <3> QED  BY <1>7, <1>9, <1>10, <2>2, <3>1
  <2> QED  BY <2>1, <2>2
<1>13. ASSUME NEW i \in DOMAIN products', NEW v \in products'[i].versions
       PROVE  v.number + Cardinality(Versioning(products[i].type)') + runsLeft' <= MaxRuns
  <2>1. PICK t : t = products'[i].type  OBVIOUS
  <2>2. PICK S, T : S = Versioning(t) /\ T = Versioning(t)'  OBVIOUS
  <2>0. SUFFICES v.number + Cardinality(T) + runsLeft' <= MaxRuns
    <3>1. Versioning(products[i].type)' = T  BY <2>1, <2>2 DEF Versioning
    <3> QED  BY <3>1
  <2>3. products' \in Seq(Product) /\ products'[i] \in Product
    BY <1>1, <1>13, Grow, ElementOfSeq, LenProperties DEF ProductsGrow
  <2>4. t \in EnvType /\ v.number \in Nat \ {0}  BY <2>1, <2>3 DEF Product, Version
  <2>5. /\ S \in SUBSET Deployer /\ T \in SUBSET Deployer
        /\ \A e \in Deployer : e # d => (e \in T <=> e \in S)
    BY <1>2, <2>2 DEF Versioning
  <2>6. /\ Cardinality(S) \in Nat /\ Cardinality(T) \in Nat
        /\ (d \in T => d \in S) => Cardinality(T) <= Cardinality(S)
        /\ Cardinality(T) <= Cardinality(S) + 1
        /\ d \in S /\ d \notin T => Cardinality(T) = Cardinality(S) - 1
    BY <2>5, Recount
  <2>7. /\ d \in T => d \in S \/ \E c \in Content : Start(d, c)
        /\ (CreateVersion(d) \/ CreateProduct(d)) /\ t = script[d].type => d \in S /\ d \notin T
    BY <2>2, <2>4, CountsOf
  <2>8. CASE i \in DOMAIN products /\ v \in products[i].versions /\ t = products[i].type
    <3>1. v.number + Cardinality(S) + runsLeft <= MaxRuns
      BY <1>1, <2>2, <2>8 DEF WithinRuns
    <3>2. Cardinality(T) + runsLeft' <= Cardinality(S) + runsLeft
      BY <1>9, <1>10, <2>6, <2>7
    <3>3. runsLeft' \in Int  BY <1>9, <1>10
    <3> QED  BY <1>9, <2>1, <2>2, <2>4, <2>6, <3>1, <3>2, <3>3
  <2>9. CASE /\ CreateVersion(d) /\ i = script[d].product /\ i \in DOMAIN products
             /\ t = script[d].type /\ products[i].type = t /\ v.number = script[d].version
    <3>1. PICK w \in products[i].versions : script[d].version = w.number + 1
      BY <1>1, <2>9 DEF CreateVersion, Prepared
    <3>2. w.number + Cardinality(S) + runsLeft <= MaxRuns
      BY <1>1, <2>2, <2>9, <3>1 DEF WithinRuns
    <3>3. w.number \in Nat
      BY <1>1, <2>9, <3>1, Indexed DEF Typed, Product, Version
    <3>4. runsLeft' = runsLeft  BY <2>9 DEF CreateVersion
    <3> QED  BY <1>9, <2>1, <2>2, <2>6, <2>7, <2>9, <3>1, <3>2, <3>3, <3>4
  <2>10. CASE CreateProduct(d) /\ t = script[d].type /\ v.number = 1
    <3>1. S \subseteq R  BY <1>3, <2>2 DEF Versioning, Running
    <3>2. IsFiniteSet(R)  BY <1>5, DeploymentAssumption, FS_Subset
    <3>3. Cardinality(S) <= Cardinality(R)  BY <3>1, <3>2, FS_Subset
    <3>4. runsLeft' = runsLeft  BY <2>10 DEF CreateProduct
    <3> QED  BY <1>7, <1>9, <2>1, <2>2, <2>6, <2>7, <2>10, <3>3, <3>4
  <2> QED  BY <1>1, <2>1, <2>8, <2>9, <2>10, VersionsFrom
<1> QED  BY <1>3, <1>11, <1>12, <1>13 DEF WithinRuns

\* The newest version of a product that is made from the template in S3 is followed
\* by no version that is not, as long as the template is not replaced.
LEMMA CurrentKept ==
    ASSUME SetupTypeOK, Typed, NEW d \in Deployer, Prepared(d), SetupStep(d), templates' = templates,
           NEW i \in DOMAIN products, Current(i)
    PROVE  Current(i)'
<1>1. PICK v \in products[i].versions :
         /\ v.content = templates[products[i].type]
         /\ \A w \in products[i].versions : w.number <= v.number
  BY DEF Current
<1>2. /\ i \in DOMAIN products' /\ products'[i].type = products[i].type
      /\ products[i].versions \subseteq products'[i].versions
      /\ products'[i] \in Product /\ products[i] \in Product
  <2>1. products' \in Seq(Product)  BY Grow DEF ProductsGrow
  <2> QED  BY <2>1, Grow, ElementOfSeq, LenProperties DEF ProductsGrow, Typed
<1>3. CASE products'[i].versions = products[i].versions  BY <1>1, <1>2, <1>3 DEF Current
<1>4. CASE CreateVersion(d) /\ i = script[d].product
  <2>1. PICK q, x : /\ Becomes(i, q) /\ x.content = templates[script[d].type]
                    /\ \/ q.versions = products[i].versions
                       \/ q.versions = products[i].versions \cup {x}
    BY <1>4, CreateVersionEffect
  <2>2. products[i].type = script[d].type
    BY <1>4 DEF CreateVersion, Prepared, OnType
  <2>3. products'[i] = q  BY <2>1 DEF Becomes
  <2>4. CASE q.versions = products[i].versions  BY <1>3, <2>3, <2>4
  <2>5. CASE q.versions = products[i].versions \cup {x}
    <3>1. \A w \in q.versions : w.number \in Nat  BY <1>2, <2>3 DEF Product, Version
    <3>2. CASE x.number <= v.number
      <4>1. \A w \in q.versions : w.number <= v.number  BY <1>1, <2>5, <3>2
      <4> QED  BY <1>1, <1>2, <2>3, <4>1 DEF Current
    <3>3. CASE ~(x.number <= v.number)
      <4>1. \A w \in q.versions : w.number <= x.number
        BY <1>1, <1>2, <2>3, <2>5, <3>1, <3>3
      <4> QED  BY <1>2, <2>1, <2>2, <2>3, <2>5, <4>1 DEF Current
    <3> QED  BY <3>2, <3>3
  <2> QED  BY <2>1, <2>4, <2>5
<1>5. CASE CreateVersion(d) /\ i # script[d].product
  BY <1>3, <1>5, CreateVersionEffect DEF Becomes
<1>6. CASE CreateProduct(d)  BY <1>3, <1>6, CreateProductEffect
<1>7. CASE AssociateProduct(d)  BY <1>3, <1>7, AssociateEffect DEF Becomes
<1>8. CASE CreateLaunchConstraint(d)  BY <1>3, <1>8, ConstraintEffect DEF Becomes
<1>9. CASE UNCHANGED products  BY <1>3, <1>9
<1> QED
  BY <1>4, <1>5, <1>6, <1>7, <1>8, <1>9
  DEF SetupStep, Start, CreateSCPortfolio, CompareTemplates, UploadTemplates, SearchProduct,
      UploadOnboardAccountCfn, UploadBootstrapScripts, Interrupted, RunAgain

\* A type that is published with its newest version stays so.
LEMMA CurrentPublishedKept ==
    ASSUME SetupTypeOK, Typed, NEW d \in Deployer, Prepared(d), SetupStep(d), templates' = templates,
           NEW p \in Nat \ {0}, NEW t, \E i \in Published(p, t) : Current(i)
    PROVE  \E i \in Published(p, t)' : Current(i)'
<1>1. PICK i \in Published(p, t) : Current(i)  OBVIOUS
<1>2. i \in DOMAIN products /\ i \in Published(p, t)'  BY PublishedKept
<1>3. Current(i)'  BY <1>1, <1>2, CurrentKept
<1> QED  BY <1>2, <1>3

\* What another script has seen to remains so when a script moves that does not
\* replace the templates.
LEMMA OthersCarry ==
    ASSUME SetupIInv, NEW d \in Deployer, SetupStep(d), templates' = templates,
           NEW e \in Deployer, e # d, NEW t \in EnvType, Carries(e, t)
    PROVE  Carries(e, t)'
<1>1. SetupTypeOK /\ Typed /\ Prepared(d) /\ Prepared(e)
  BY TypedFromTypeOK DEF SetupIInv
<1>2. PICK s : s = script[e] /\ s \in Script  BY <1>1 DEF Typed
<1>3. script'[e] = s  BY <1>1, <1>2, Move DEF Moves
<1>4. CASE s.pc \in {"stopped", "creatingPortfolio", "comparing", "uploading"}
  BY <1>3, <1>4 DEF Carries
<1>5. CASE s.pc \in {"searching"} \cup OnType /\ t \in s.todo /\ (s.pc \in OnType => s.type # t)
  BY <1>3, <1>5 DEF Carries
<1>6. CASE s.pc = "creating" /\ s.type = t  BY <1>3, <1>6 DEF Carries
<1>7. CASE /\ s.pc = "versioning" /\ s.type = t
           /\ \A v \in products[s.product].versions : v.number >= s.version => v.content = templates[t]
  <2>1. s.product \in DOMAIN products /\ products[s.product].type = t
    BY <1>1, <1>2, <1>7 DEF Prepared, OnType
  <2>2. s.product \in DOMAIN products'  BY <1>1, <2>1, Grow DEF ProductsGrow
  <2>3. s.product # Len(products) + 1
    BY <1>1, <2>1, Indexed DEF Typed
  <2>4. ASSUME NEW v \in products'[s.product].versions, v.number >= s.version
        PROVE  v.content = templates[t]
    BY <1>1, <1>7, <2>1, <2>2, <2>3, <2>4, VersionsFrom
  <2> QED  BY <1>3, <1>7, <2>4 DEF Carries
<1>8. CASE s.pc = "associating" /\ s.type = t /\ Current(s.product)
  <2>1. s.product \in DOMAIN products  BY <1>1, <1>2, <1>8 DEF Prepared, OnType
  <2>2. PICK i : i = s.product  OBVIOUS
  <2>3. Current(i)'  BY <1>1, <1>8, <2>1, <2>2, CurrentKept
  <2> QED  BY <1>3, <1>8, <2>2, <2>3 DEF Carries
<1>9. CASE /\ s.pc \in {"searching"} \cup OnType \cup Over
           /\ \E i \in Published(s.portfolio, t) : Current(i)
  <2>1. PICK p : p = s.portfolio  OBVIOUS
  <2>2. p \in Nat \ {0}  BY <1>1, <1>2, <1>9, <2>1 DEF Prepared, Typed, OnType, Over
  <2>3. \E i \in Published(p, t)' : Current(i)'
    BY <1>1, <1>9, <2>1, <2>2, CurrentPublishedKept
  <2> QED  BY <1>3, <1>9, <2>1, <2>3 DEF Carries, Published
<1> QED  BY <1>2, <1>4, <1>5, <1>6, <1>7, <1>8, <1>9 DEF Carries

\* A version that is made is the newest, or one made by another script since the
\* number was looked for: both are made from the template in S3.
LEMMA MadeCurrent ==
    ASSUME SetupTypeOK, Typed, NEW d \in Deployer, Prepared(d), CreateVersion(d),
           NEW i, i = script[d].product,
           \A v \in products[i].versions :
               v.number >= script[d].version => v.content = templates[script[d].type]
    PROVE  i \in DOMAIN products /\ Current(i)'
<1>1. PICK s : s = script[d]  OBVIOUS
<1>2. i = s.product  BY <1>1
<1>3. /\ i \in DOMAIN products /\ products[i].type = s.type
      /\ templates' = templates
  BY <1>1, <1>2 DEF CreateVersion, Prepared, OnType
<1>4. PICK q, x : /\ Becomes(i, q) /\ q.type = products[i].type
                  /\ x.number = s.version /\ x.content = templates[s.type]
                  /\ \/ /\ q.versions = products[i].versions
                        /\ \E w \in products[i].versions : w.number = x.number
                     \/ q.versions = products[i].versions \cup {x}
  BY <1>1, <1>2, CreateVersionEffect
<1>5. /\ i \in DOMAIN products' /\ products'[i] = q /\ q \in Product
      /\ products[i] \in Product
  <2>1. i \in DOMAIN products' /\ products'[i] = q /\ products' \in Seq(Product)
    BY <1>3, <1>4 DEF Becomes
  <2>2. q \in Product  BY <2>1, ElementOfSeq, LenProperties
  <2> QED  BY <1>3, <2>1, <2>2, Indexed DEF Typed
<1>6. PICK m \in products[i].versions : \A w \in products[i].versions : w.number <= m.number
  BY <1>3, <1>5, LargestNumber DEF Product
<1>7. \A w \in products[i].versions \cup q.versions : w.number \in Nat
  BY <1>5 DEF Product, Version
<1>8. m.number >= s.version => m.content = templates[s.type]
  BY <1>1, <1>2, <1>6
<1>9. SUFFICES \E v \in q.versions :
                  /\ v.content = templates[s.type]
                  /\ \A w \in q.versions : w.number <= v.number
  <2>1. q.type = s.type /\ templates' = templates  BY <1>3, <1>4
  <2>2. ASSUME NEW v \in q.versions, v.content = templates[s.type],
               \A w \in q.versions : w.number <= v.number
        PROVE  Current(i)'
    <3>1. v \in products'[i].versions  BY <1>5, <2>2
    <3>2. v.content = templates'[products'[i].type]  BY <1>5, <2>1, <2>2
    <3>3. \A w \in products'[i].versions : w.number <= v.number  BY <1>5, <2>2
    <3> QED  BY <3>1, <3>2, <3>3 DEF Current
  <2> QED  BY <1>1, <1>2, <1>3, <2>2
<1>10. CASE q.versions = products[i].versions /\ \E w \in products[i].versions : w.number = x.number
  <2>1. PICK w \in products[i].versions : w.number = s.version  BY <1>4, <1>10
  <2>2. w.number <= m.number /\ w.number \in Nat /\ m.number \in Nat  BY <1>6, <1>7, <2>1
  <2>3. m.content = templates[s.type]  BY <1>8, <2>1, <2>2
  <2> QED  BY <1>6, <1>10, <2>3
<1>11. CASE q.versions = products[i].versions \cup {x}
  <2>1. x \in q.versions /\ m \in q.versions /\ x.number \in Nat /\ m.number \in Nat
    BY <1>6, <1>7, <1>11
  <2>2. CASE m.number >= s.version
    <3>1. \A w \in q.versions : w.number <= m.number  BY <1>4, <1>6, <1>11, <2>1, <2>2
    <3> QED  BY <1>8, <2>1, <2>2, <3>1
  <2>3. CASE ~(m.number >= s.version)
    <3>1. \A w \in q.versions : w.number <= x.number
      BY <1>4, <1>6, <1>7, <1>11, <2>1, <2>3
    <3> QED  BY <1>4, <2>1, <3>1
  <2> QED  BY <2>2, <2>3
<1> QED  BY <1>4, <1>10, <1>11

\* The script that moves has still seen to what it had seen to, unless it replaces
\* the templates.
LEMMA MoverCarries ==
    ASSUME SetupIInv, ~EtagIsMd5, NEW d \in Deployer, SetupStep(d), templates' = templates,
           NEW t \in EnvType, Carries(d, t)
    PROVE  Carries(d, t)'
<1>1. SetupTypeOK /\ Typed /\ Prepared(d) /\ DoneIsPublished
  BY TypedFromTypeOK DEF SetupIInv
<1>2. PICK s : s = script[d] /\ s \in Script  BY <1>1 DEF Typed
<1>3. PICK n \in Script : Moves(d, n)  BY <1>1, Move
<1>4. script'[d] = n  BY <1>3 DEF Moves
<1>5. s.pc \notin {"stopped", "creatingPortfolio"} => s.portfolio \in Nat \ {0}
  BY <1>1, <1>2 DEF Prepared, Typed
<1>6. ASSUME \E i \in Published(s.portfolio, t) : Current(i),
             s.pc \in {"searching"} \cup OnType \cup Over,
             n.pc \in {"searching"} \cup OnType \cup Over, n.portfolio = s.portfolio
      PROVE  Carries(d, t)'
  <2>1. PICK p : p = s.portfolio /\ p \in Nat \ {0}  BY <1>5, <1>6 DEF OnType, Over
  <2>2. \E i \in Published(p, t)' : Current(i)'
    BY <1>1, <1>6, <2>1, CurrentPublishedKept
  <2> QED  BY <1>4, <1>6, <2>1, <2>2 DEF Carries, Published
<1>7. ASSUME n.pc \in {"searching"} \cup OnType, t \in n.todo, n.pc \in OnType => n.type # t
      PROVE  Carries(d, t)'
  BY <1>4, <1>7 DEF Carries
<1>8. CASE (\E c \in Content : Start(d, c)) \/ CreateSCPortfolio(d) \/ Interrupted(d) \/ RunAgain(d)
  <2>1. n.pc \in {"stopped", "creatingPortfolio", "comparing"}
    BY <1>1, <1>3, <1>8, StartEffect, CreateSCPortfolioEffect, StopEffect
    DEF Moves, Interrupted, RunAgain
  <2> QED  BY <1>4, <2>1 DEF Carries
<1>9. CASE CompareTemplates(d)
  <2>1. n.pc = "uploading"  BY <1>1, <1>3, <1>9, CompareEffect DEF Moves
  <2> QED  BY <1>4, <2>1 DEF Carries
<1>10. CASE UploadTemplates(d)
  <2>1. Goes(d, "searching") /\ s.pc = "uploading"  BY <1>2, <1>10 DEF UploadTemplates
  <2>2. n.pc = "searching" /\ n.todo = s.todo  BY <1>1, <1>2, <1>3, <2>1, GoesEffect DEF Moves
  <2>3. t \in n.todo  BY <1>1, <1>2, <2>1, <2>2 DEF DoneIsPublished
  <2> QED  BY <1>7, <2>2, <2>3 DEF OnType
<1>11. CASE \E u \in EnvType : SearchProduct(d, u)
  <2>1. PICK u \in EnvType : SearchProduct(d, u)  BY <1>11
  <2>2. s.pc = "searching" /\ products' = products  BY <1>2, <2>1 DEF SearchProduct
  <2>3. /\ n.type = u /\ u \in s.todo /\ n.todo = s.todo /\ n.portfolio = s.portfolio
        /\ \/ n.pc = "creating"
           \/ /\ n.pc = "versioning" /\ n.product \in Published(s.portfolio, u)
              /\ \E v \in products[n.product].versions :
                   /\ n.version = v.number + 1
                   /\ \A w \in products[n.product].versions : w.number <= v.number
    <3>1. u \in s.todo  BY <1>2, <2>1 DEF SearchProduct
    <3>2. PICK m : /\ Moves(d, m) /\ m.type = u /\ m.todo = s.todo /\ m.portfolio = s.portfolio
                   /\ \/ m.pc = "creating"
                      \/ /\ m.pc = "versioning" /\ m.product \in Published(s.portfolio, u)
                         /\ \E v \in products[m.product].versions :
                              /\ m.version = v.number + 1
                              /\ \A w \in products[m.product].versions : w.number <= v.number
      BY <1>1, <1>2, <2>1, SearchEffect
    <3>3. m = n  BY <1>3, <3>2 DEF Moves
    <3> QED  BY <3>1, <3>2, <3>3
  <2>4. CASE \E i \in Published(s.portfolio, t) : Current(i)
    BY <1>6, <2>2, <2>3, <2>4 DEF OnType
  <2>5. CASE t \in s.todo /\ u # t  BY <1>7, <2>3, <2>5 DEF OnType
  <2>6. CASE u = t /\ n.pc = "creating"  BY <1>4, <2>3, <2>6 DEF Carries
  <2>7. CASE u = t /\ n.pc = "versioning"
    <3>1. n.product \in DOMAIN products  BY <2>3, <2>7 DEF Published
    <3>2. \A w \in products[n.product].versions : w.number \in Nat
      BY <1>1, <3>1, Indexed DEF Typed, Product, Version
    <3>3. \A w \in products[n.product].versions : ~(w.number >= n.version)
      BY <2>3, <2>7, <3>2
    <3> QED  BY <1>4, <2>2, <2>3, <2>7, <3>3 DEF Carries
  <2>8. t \in s.todo \/ \E i \in Published(s.portfolio, t) : Current(i)
    BY <1>2, <2>2 DEF Carries, OnType
  <2> QED  BY <2>3, <2>4, <2>5, <2>6, <2>7, <2>8
<1>12. CASE CreateVersion(d)
  <2>1. Goes(d, "constraining") /\ s.pc = "versioning"  BY <1>2, <1>12 DEF CreateVersion
  <2>2. /\ n.pc = "constraining" /\ n.todo = s.todo /\ n.type = s.type
        /\ n.portfolio = s.portfolio /\ n.product = s.product
    BY <1>1, <1>2, <1>3, <2>1, GoesEffect DEF Moves
  <2>3. CASE \E i \in Published(s.portfolio, t) : Current(i)
    BY <1>6, <2>1, <2>2, <2>3 DEF OnType
  <2>4. CASE t \in s.todo /\ s.type # t  BY <1>7, <2>2, <2>4 DEF OnType
  <2>5. CASE /\ s.type = t
             /\ \A v \in products[s.product].versions : v.number >= s.version => v.content = templates[t]
    <3>0. PICK i : i = s.product  OBVIOUS
    <3>1. i = s.product /\ i \in DOMAIN products /\ Current(i)'
      BY <1>1, <1>2, <1>12, <2>5, <3>0, MadeCurrent
    <3>2. products[i].type = t /\ products[i].portfolio = s.portfolio
      BY <1>1, <1>2, <2>1, <2>5, <3>1 DEF Prepared, OnType
    <3>3. PICK p : p = s.portfolio /\ p \in Nat \ {0}  BY <1>5, <2>1
    <3>4. i \in Published(p, t)  BY <3>1, <3>2, <3>3 DEF Published
    <3>5. i \in Published(p, t)'  BY <1>1, <3>3, <3>4, PublishedKept
    <3> QED  BY <1>4, <2>2, <3>1, <3>3, <3>5 DEF Carries, OnType, Published
  <2> QED  BY <1>2, <2>1, <2>3, <2>4, <2>5 DEF Carries, OnType
<1>13. CASE CreateProduct(d)
  <2>1. s.pc = "creating"  BY <1>2, <1>13 DEF CreateProduct
  <2>2. /\ n.pc = "associating" /\ n.todo = s.todo /\ n.type = s.type
        /\ n.portfolio = s.portfolio /\ n.product = Len(products) + 1
    BY <1>1, <1>2, <1>3, <1>13, CreateProductEffect DEF Moves
  <2>3. CASE \E i \in Published(s.portfolio, t) : Current(i)
    BY <1>6, <2>1, <2>2, <2>3 DEF OnType
  <2>4. CASE t \in s.todo /\ s.type # t  BY <1>7, <2>2, <2>4 DEF OnType
  <2>5. CASE s.type = t
    <3>1. PICK k, v : k = Len(products) + 1 /\ v = NewVersion(d, 1)  OBVIOUS
    <3>2. /\ products'[k].versions = {v} /\ products'[k].type = t
          /\ v.content = templates[t] /\ v.number = 1
      BY <1>1, <1>2, <1>13, <2>5, <3>1, CreateProductEffect
    <3>3. Current(k)'  BY <3>2 DEF Current
    <3> QED  BY <1>4, <2>2, <2>5, <3>1, <3>3 DEF Carries
  <2> QED  BY <1>2, <2>1, <2>3, <2>4, <2>5 DEF Carries, OnType
<1>14. CASE AssociateProduct(d)
  <2>1. Goes(d, "constraining") /\ s.pc = "associating"  BY <1>2, <1>14 DEF AssociateProduct
  <2>2. /\ n.pc = "constraining" /\ n.todo = s.todo /\ n.type = s.type
        /\ n.portfolio = s.portfolio /\ n.product = s.product
    BY <1>1, <1>2, <1>3, <2>1, GoesEffect DEF Moves
  <2>3. CASE \E i \in Published(s.portfolio, t) : Current(i)
    BY <1>6, <2>1, <2>2, <2>3 DEF OnType
  <2>4. CASE t \in s.todo /\ s.type # t  BY <1>7, <2>2, <2>4 DEF OnType
  <2>5. CASE s.type = t /\ Current(s.product)
    <3>1. PICK i : i = s.product  OBVIOUS
    <3>2. i \in DOMAIN products /\ products[i].type = t
      BY <1>1, <1>2, <2>1, <2>5, <3>1 DEF Prepared, OnType
    <3>3. Current(i)'  BY <1>1, <2>5, <3>1, <3>2, CurrentKept
    <3>4. PICK q : Becomes(i, q) /\ q.type = products[i].type /\ q.portfolio = s.portfolio
      BY <1>1, <1>2, <1>14, <3>1, AssociateEffect
    <3> QED  BY <1>4, <2>2, <3>2, <3>3, <3>4 DEF Carries, OnType, Published, Becomes
  <2> QED  BY <1>2, <2>1, <2>3, <2>4, <2>5 DEF Carries, OnType
<1>15. CASE CreateLaunchConstraint(d)
  <2>1. s.pc = "constraining"  BY <1>2, <1>15 DEF CreateLaunchConstraint
  <2>2. /\ n.todo = s.todo \ {s.type} /\ n.portfolio = s.portfolio
        /\ (n.pc = "onboarding" /\ n.todo = {}) \/ n.pc = "searching"
    BY <1>1, <1>2, <1>3, <1>15, ConstraintEffect DEF Moves
  <2>3. CASE \E i \in Published(s.portfolio, t) : Current(i)
    BY <1>6, <2>1, <2>2, <2>3 DEF OnType, Over
  <2>4. CASE t \in s.todo /\ s.type # t  BY <1>7, <2>2, <2>4 DEF OnType
  <2> QED  BY <1>2, <2>1, <2>3, <2>4 DEF Carries, OnType
<1>16. CASE UploadOnboardAccountCfn(d) \/ UploadBootstrapScripts(d)
  <2>1. \/ Goes(d, "bootstrapping") /\ s.pc = "onboarding"
        \/ Goes(d, "done") /\ s.pc = "bootstrapping"
    BY <1>2, <1>16 DEF UploadOnboardAccountCfn, UploadBootstrapScripts
  <2>2. n.pc \in {"bootstrapping", "done"} /\ n.portfolio = s.portfolio
    BY <1>1, <1>2, <1>3, <2>1, GoesEffect DEF Moves
  <2>3. \E i \in Published(s.portfolio, t) : Current(i)
    BY <1>2, <2>1 DEF Carries, OnType
  <2> QED  BY <1>6, <2>1, <2>2, <2>3 DEF Over
<1> QED
  BY <1>8, <1>9, <1>10, <1>11, <1>12, <1>13, <1>14, <1>15, <1>16 DEF SetupStep

\* The first portfolio's script, and whoever replaces the templates, carry every type.
LEMMA CarriedKept ==
    ASSUME SetupIInv, ~EtagIsMd5, NEW d \in Deployer, SetupStep(d)
    PROVE  Carried'
<1>1. SetupTypeOK /\ Typed /\ Prepared(d) /\ DoneIsPublished /\ Carried
  BY TypedFromTypeOK DEF SetupIInv
<1>2. PICK n \in Script : Moves(d, n)  BY <1>1, Move
<1>3. CASE UploadTemplates(d)
  <2>1. Goes(d, "searching") /\ script[d].pc = "uploading"  BY <1>3 DEF UploadTemplates
  <2>2. n.pc = "searching" /\ n.todo = EnvType
    BY <1>1, <1>2, <2>1, GoesEffect DEF Moves, DoneIsPublished
  <2>3. \A t \in EnvType : Carries(d, t)'  BY <1>2, <2>2 DEF Carries, Moves, OnType
  <2> QED  BY <2>3 DEF Carried
<1>4. CASE CreateSCPortfolio(d)
  <2>1. n.pc = "comparing"  BY <1>1, <1>2, <1>4, CreateSCPortfolioEffect DEF Moves
  <2>2. \A t \in EnvType : Carries(d, t)'  BY <1>2, <2>1 DEF Carries, Moves
  <2> QED  BY <2>2 DEF Carried
<1>5. CASE ~UploadTemplates(d) /\ ~CreateSCPortfolio(d)
  <2>1. portfolios' = portfolios  BY <1>1, <1>5, PortfoliosGrow
  <2>2. templates' = templates
    BY <1>5
    DEF SetupStep, Start, CompareTemplates, SearchProduct, CreateVersion, CreateProduct,
        AssociateProduct, CreateLaunchConstraint, UploadOnboardAccountCfn,
        UploadBootstrapScripts, Interrupted, RunAgain
  <2>3. ASSUME NEW t \in EnvType, NEW e \in Deployer, Carries(e, t)
        PROVE  Carries(e, t)'
    <3>1. CASE e = d  BY <2>2, <2>3, <3>1, MoverCarries
    <3>2. CASE e # d  BY <2>2, <2>3, <3>2, OthersCarry
    <3> QED  BY <3>1, <3>2
  <2> QED  BY <1>1, <2>1, <2>3 DEF Carried
<1> QED  BY <1>3, <1>4, <1>5

\* A step of a script keeps the invariant of the setup.
LEMMA SetupIInvKept ==
    ASSUME SetupIInv, NEW d \in Deployer, SetupStep(d)
    PROVE  SetupIInv'
<1>1. Typed' /\ WithinRuns'  BY TypedKept, WithinRunsKept
<1>2. SetupTypeOK'
  <2>1. /\ portfolios' \in Nat /\ runsLeft' \in Nat /\ MaxRuns \in Nat
        /\ Cardinality(Deployer) \in Nat
    BY <1>1, DeploymentAssumption, FS_CardinalityType DEF Typed
  <2>2. portfolios' <= Cardinality(Deployer)
    <3>1. PICK F : F = Founding' /\ F \in SUBSET Deployer  BY DEF Founding
    <3>2. Cardinality(F) \in Nat  BY <3>1, DeploymentAssumption, FS_Subset, FS_CardinalityType
    <3>3. portfolios' + Cardinality(F) <= Cardinality(Deployer)  BY <1>1, <3>1 DEF WithinRuns
    <3> QED  BY <2>1, <3>2, <3>3
  <2>3. ASSUME NEW i \in DOMAIN products', NEW v \in products'[i].versions
        PROVE  v.number <= MaxRuns
    <3>1. PICK S : S = Versioning(products[i].type)' /\ S \in SUBSET Deployer  BY DEF Versioning
    <3>2. Cardinality(S) \in Nat  BY <3>1, DeploymentAssumption, FS_Subset, FS_CardinalityType
    <3>3. v.number + Cardinality(S) + runsLeft' <= MaxRuns  BY <1>1, <2>3, <3>1 DEF WithinRuns
    <3>4. products' \in Seq(Product)  BY <1>1 DEF Typed
    <3>5. products'[i] \in Product  BY <2>3, <3>4, ElementOfSeq, LenProperties
    <3>6. v.number \in Nat  BY <2>3, <3>5 DEF Product, Version
    <3> QED  BY <2>1, <3>2, <3>3, <3>6
  <2> QED  BY <1>1, <2>1, <2>2, <2>3 DEF Typed, SetupTypeOK
<1>3. \A e \in Deployer : Prepared(e)'
  <2>1. ASSUME NEW e \in Deployer PROVE Prepared(e)'
    <3>1. CASE e = d  BY <3>1, MoverPrepared
    <3>2. CASE e # d  BY <3>2, OthersPrepared
    <3> QED  BY <3>1, <3>2
  <2> QED  BY <2>1
<1>4. ~EtagIsMd5 => DoneIsPublished' /\ Carried'  BY DoneIsPublishedKept, CarriedKept
<1> QED
  BY <1>1, <1>2, <1>3, <1>4, AssociatedOnceKept, VersionsDistinctKept DEF SetupIInv

\* The invariant of the setup is about what the setup works on.
LEMMA SetupLeftAlone ==
    ASSUME SetupIInv, UNCHANGED setupVars
    PROVE  SetupIInv'
<1>1. SetupTypeOK'  BY DEF SetupIInv, setupVars, SetupTypeOK
<1>2. (\A d \in Deployer : Prepared(d)) /\ AssociatedOnce /\ VersionsDistinct
  BY DEF SetupIInv
<1>3. \A d \in Deployer : Prepared(d)'
  <2>1. ASSUME NEW d \in Deployer PROVE Prepared(d)'
    <3>1. Prepared(d)  BY <1>2
    <3> QED  BY <3>1 DEF setupVars, Prepared
  <2> QED  BY <2>1
<1>4. AssociatedOnce' /\ VersionsDistinct'
  BY <1>2 DEF setupVars, AssociatedOnce, VersionsDistinct
<1>5. WithinRuns'
  <2>1. WithinRuns  BY DEF SetupIInv
  <2>2. Founding' = Founding /\ Running' = Running  BY DEF setupVars, Founding, Running
  <2>3. \A i : Versioning(products[i].type)' = Versioning(products[i].type)
    BY DEF setupVars, Versioning
  <2> QED  BY <2>1, <2>2, <2>3 DEF setupVars, WithinRuns
<1>6. ~EtagIsMd5 => DoneIsPublished' /\ Carried'
  <2>1. ~EtagIsMd5 => DoneIsPublished /\ Carried  BY DEF SetupIInv
  <2>2. DoneIsPublished => DoneIsPublished'  BY DEF setupVars, DoneIsPublished, Published
  <2>3. \A d \in Deployer, t \in EnvType : Carries(d, t) => Carries(d, t)'
    BY DEF setupVars, Carries, Published, Current
  <2>4. Carried => Carried'  BY <2>3 DEF setupVars, Carried
  <2> QED  BY <2>1, <2>2, <2>4
<1> QED  BY <1>1, <1>3, <1>4, <1>5, <1>6 DEF SetupIInv

\* No script has begun.
LEMMA SetupBegins ==
    ASSUME SetupInit
    PROVE  SetupIInv
<1>1. \A d \in Deployer : script[d] = Stopped /\ Stopped.pc = "stopped" /\ Stopped.product = 0
  BY DEF SetupInit, Stopped
<1>2. products = <<>> /\ products \in Seq(Product) /\ Len(products) = 0 /\ DOMAIN products = {}
  <2>1. products = <<>>  BY DEF SetupInit
  <2>2. products \in Seq(Product) /\ Len(products) = 0  BY <2>1, EmptySeq
  <2> QED  BY <2>1, <2>2, LenProperties
<1>3. script \in [Deployer -> Script]  BY StoppedIsScript DEF SetupInit
<1>4. Cardinality(Deployer) \in Nat /\ MaxRuns \in Nat
  BY DeploymentAssumption, FS_CardinalityType
<1>5. SetupTypeOK  BY <1>1, <1>2, <1>3, <1>4 DEF SetupInit, SetupTypeOK
<1>6. \A d \in Deployer : Prepared(d)  BY <1>1 DEF Prepared, OnType
<1>7. AssociatedOnce /\ VersionsDistinct  BY <1>1, <1>2 DEF AssociatedOnce, VersionsDistinct
<1>8. WithinRuns
  <2>1. Founding = {} /\ Running = {}  BY <1>1 DEF Founding, Running
  <2>2. Cardinality(Founding) = 0 /\ Cardinality(Running) = 0  BY <2>1, FS_EmptySet
  <2> QED  BY <1>2, <1>4, <2>2 DEF WithinRuns, SetupInit
<1>9. DoneIsPublished  BY <1>1 DEF DoneIsPublished, OnType, Over
<1>10. Carried  BY DEF Carried, SetupInit
<1> QED  BY <1>5, <1>6, <1>7, <1>8, <1>9, <1>10 DEF SetupIInv

(***************************************************************************)
(* What follows from the setup's invariant                                 *)
(***************************************************************************)
\* A script that has published all types has done so.
LEMMA PublishedFollows ==
    ASSUME SetupIInv, ~EtagIsMd5
    PROVE  PublishedAndConstrained
<1>1. DoneIsPublished  BY DEF SetupIInv
<1> QED  BY <1>1 DEF DoneIsPublished, PublishedAndConstrained, Over

\* When all scripts are done, one of them has seen to each type, and what it has
\* seen to is the only product.
LEMMA NewestFollows ==
    ASSUME SetupIInv, ~EtagIsMd5
    PROVE  NewestIsPublished
<1>1. SetupTypeOK /\ Typed /\ VersionsDistinct /\ Carried /\ (\A d \in Deployer : Prepared(d))
  BY TypedFromTypeOK DEF SetupIInv
<1>2. SUFFICES ASSUME \A d \in Deployer : script[d].pc = "done", Unduplicated, NEW t \in EnvType
               PROVE  Newest(Least(Published(1, t))).content = templates[t]
  BY DEF NewestIsPublished
<1>3. PICK d \in Deployer : Carries(d, t)  BY <1>1, <1>2 DEF Carried, Unduplicated
<1>4. script[d].portfolio = 1  BY <1>1, <1>2 DEF Prepared, Unduplicated
<1>5. PICK i \in Published(1, t) : Current(i)
  BY <1>2, <1>3, <1>4 DEF Carries, OnType
<1>6. Published(1, t) = {i}
  <2>1. DOMAIN products = 1..Len(products) /\ Len(products) \in Nat  BY <1>1, Indexed DEF Typed
  <2>2. IsFiniteSet(1..Len(products))  BY <2>1, FS_Interval
  <2>3. IsFiniteSet(Published(1, t))  BY <2>1, <2>2, FS_Subset DEF Published
  <2>4. PICK x : Published(1, t) = {x}  BY <1>2, <2>3, FS_Singleton DEF Unduplicated
  <2> QED  BY <1>5, <2>4
<1>7. i \in DOMAIN products /\ products[i].type = t /\ products[i] \in Product
  BY <1>1, <1>5, Indexed DEF Published, Typed
<1>8. Least(Published(1, t)) = i
  <2>1. i <= i  BY <1>1, <1>7, Indexed DEF Typed
  <2> QED  BY <1>6, <2>1 DEF Least
<1>9. PICK v \in products[i].versions :
         v.content = templates[t] /\ \A w \in products[i].versions : w.number <= v.number
  BY <1>5, <1>7 DEF Current
<1>10. Largest(Numbers(i)) = v.number
  <2>1. /\ v.number \in Numbers(i) /\ \A k \in Numbers(i) : k <= v.number
        /\ \A k \in Numbers(i) : k \in Nat
    BY <1>7, <1>9 DEF Numbers, Product, Version
  <2>2. /\ Largest(Numbers(i)) \in Numbers(i)
        /\ \A k \in Numbers(i) : k <= Largest(Numbers(i))
    BY <2>1 DEF Largest
  <2> QED  BY <2>1, <2>2
<1>11. Newest(i) = v
  <2>1. \A w \in products[i].versions : w.number = v.number => w = v
    BY <1>1, <1>7 DEF VersionsDistinct
  <2> QED  BY <1>9, <1>10, <2>1 DEF Newest
<1> QED  BY <1>8, <1>9, <1>11

(***************************************************************************)
(* The account handler                                                     *)
(***************************************************************************)
\* The account that the handler works on is one.
LEMMA HereIsAccount ==
    ASSUME TypeOK, handler.pc # "waiting"
    PROVE  Here \in Account /\ Least(handler.queue) \in handler.queue
<1>1. DOMAIN Accounts = 1..Len(Accounts) /\ Len(Accounts) \in Nat
  BY AccountAssumption, LenProperties
<1>2. handler.queue \in SUBSET (1..Len(Accounts)) /\ handler.queue # {}
  BY <1>1 DEF TypeOK, HandlerState
<1>3. IsFiniteSet(handler.queue)
  <2>1. IsFiniteSet(1..Len(Accounts))  BY <1>1, FS_Interval
  <2> QED  BY <1>2, <2>1, FS_Subset
<1>4. PICK m \in handler.queue : \A j \in handler.queue : m <= j
  <2>1. handler.queue \in SUBSET Int  BY <1>1, <1>2
  <2> QED  BY <1>2, <1>3, <2>1, HasLeast
<1>5. Least(handler.queue) \in handler.queue  BY <1>4 DEF Least
<1> QED  BY <1>1, <1>2, <1>5 DEF Here, Account

\* The role in the main account is of a role's type.
LEMMA RolesAreRoles == Roles \subseteq Role /\ NoRole \in Role
<1>1. ASSUME NEW r \in Roles PROVE r \in Role
  <2>1. r = [trust |-> r.trust, inline |-> r.inline, managed |-> r.managed]
    BY AccountAssumption
  <2>2. /\ r.trust \in {q.trust : q \in Roles} \cup {Missing}
        /\ r.inline \in SUBSET UNION {q.inline : q \in Roles}
        /\ r.managed \in SUBSET UNION {q.managed : q \in Roles}
    OBVIOUS
  <2> QED  BY <2>1, <2>2 DEF Role
<1>2. NoRole \in Role  BY DEF NoRole, Role
<1> QED  BY <1>1, <1>2

\* The contents of account a become q, those of the others stay as they are.
Holds(a, q) ==
    /\ q \in Hosting /\ hosting' \in [Account -> Hosting]
    /\ hosting'[a] = q
    /\ \A b \in Account : b # a => hosting'[b] = hosting[b]

\* An assignment to one account's contents is such a change.
LEMMA ChangeHosting ==
    ASSUME hosting \in [Account -> Hosting], NEW a \in Account, NEW q \in Hosting,
           hosting' = [hosting EXCEPT ![a] = q]
    PROVE  Holds(a, q)
BY DEF Holds

\* The handler goes on at a place it can be at, with what it knows.
LEMMA HandlerMoves ==
    ASSUME handler \in HandlerState, NEW pc, HandlerGoes(pc),
           pc \in {"sharing", "copyingInline", "copyingManaged", "detaching"}
    PROVE  /\ handler' \in HandlerState /\ handler'.pc = pc
           /\ handler'.queue = handler.queue /\ handler'.steady = handler.steady
<1> PICK h : h = handler /\ h \in HandlerState  OBVIOUS
<1> DEFINE k == [h EXCEPT !.pc = pc]
<1>1. handler' = k  BY DEF HandlerGoes
<1>2. k \in HandlerState /\ k.pc = pc /\ k.queue = h.queue /\ k.steady = h.steady
  BY DEF HandlerState
<1> QED  BY <1>1, <1>2

\* A handler that waits is one.
LEMMA WaitingIsHandler ==
    /\ Waiting \in HandlerState /\ Waiting.pc = "waiting" /\ ~Waiting.steady
    /\ Waiting.queue = {}
BY DEF Waiting, HandlerState

\* The handler takes the next account, or none is left.
LEMMA NextAccountEffect ==
    ASSUME TypeOK, NextAccount
    PROVE  /\ handler' \in HandlerState /\ ~handler'.steady
           /\ \/ handler'.pc = "waiting"
              \/ handler'.pc = "assuming" /\ handler'.queue # {}
<1> PICK Q : Q = Later  OBVIOUS
<1> PICK pc : pc = IF Q = {} THEN "waiting" ELSE "assuming"  OBVIOUS
<1> DEFINE k == [Waiting EXCEPT !.queue = Q, !.pc = pc]
<1>1. handler' = k  BY DEF NextAccount
<1>2. Q \in SUBSET DOMAIN Accounts  BY DEF TypeOK, HandlerState, Later
<1>3. k \in HandlerState /\ k.pc = pc /\ k.queue = Q /\ k.steady = Waiting.steady
  BY <1>2, WaitingIsHandler DEF HandlerState
<1> QED  BY <1>1, <1>3, WaitingIsHandler

\* What is shared is added to the account, whose role stays as it is.
LEMMA ShareEffect ==
    ASSUME TypeOK, NEW pc, NEW thing, NEW next, Share(pc, thing, next), pc # "waiting",
           thing \in {"documents", "images", "portfolio", "principal"},
           next \in {"sharingImages", "sharingPortfolio", "associating", "copyingRole"}
    PROVE  /\ \E q \in Hosting : Holds(Here, q)
           /\ handler' \in HandlerState /\ handler'.pc = next /\ handler'.queue # {}
<1>1. handler.pc = pc  BY DEF Share
<1>2. PICK a : a = Here /\ a \in Account  BY <1>1, HereIsAccount
<1>3. PICK o : o = hosting[a] /\ o \in Hosting  BY <1>2 DEF TypeOK
<1> DEFINE q == [o EXCEPT !.shared = o.shared \cup {thing}]
<1>4. hosting' = [hosting EXCEPT ![a] = q]  BY <1>2, <1>3 DEF Share
<1>5. q \in Hosting  BY <1>3 DEF Hosting
<1> HIDE DEF q
<1>6. Holds(Here, q)  BY <1>2, <1>4, <1>5, ChangeHosting DEF TypeOK
<1> PICK h : h = handler /\ h \in HandlerState  BY DEF TypeOK
<1> PICK st : st = (next = "copyingRole") /\ st \in BOOLEAN  OBVIOUS
<1> DEFINE k == [h EXCEPT !.pc = next, !.steady = st]
<1>7. handler' = k  BY DEF Share
<1>8. k \in HandlerState /\ k.pc = next /\ k.queue = h.queue  BY DEF HandlerState
<1>9. h.queue # {}  BY <1>1 DEF TypeOK
<1> QED  BY <1>5, <1>6, <1>7, <1>8, <1>9

\* The copy has the role's trust policy.
LEMMA CopyRoleEffect ==
    ASSUME TypeOK, CopyRole
    PROVE  /\ \E q \in Hosting : Holds(Here, q) /\ q.role.trust = launchRole.trust
           /\ handler' \in HandlerState /\ handler'.pc = "copyingInline"
           /\ handler'.queue = handler.queue
<1>1. handler.pc = "copyingRole"  BY DEF CopyRole
<1>2. PICK a : a = Here /\ a \in Account  BY <1>1, HereIsAccount
<1>3. PICK o : o = hosting[a] /\ o \in Hosting  BY <1>2 DEF TypeOK
<1>4. PICK r : r = o.role /\ r \in Role  BY <1>3 DEF Hosting
<1>5. PICK x : x = launchRole.trust  OBVIOUS
<1>6. launchRole \in Role  BY RolesAreRoles DEF TypeOK
<1> DEFINE c == [r EXCEPT !.trust = x]
<1>7. c \in Role /\ c.trust = x  BY <1>4, <1>5, <1>6 DEF Role
<1> DEFINE q == [o EXCEPT !.role = c]
<1>8. hosting' = [hosting EXCEPT ![a] = q]  BY <1>2, <1>3, <1>4, <1>5 DEF CopyRole
<1> HIDE DEF c
<1>9. q \in Hosting /\ q.role = c  BY <1>3, <1>7 DEF Hosting
<1> HIDE DEF q
<1>10. Holds(Here, q)  BY <1>2, <1>8, <1>9, ChangeHosting DEF TypeOK
<1>11. HandlerGoes("copyingInline") /\ handler \in HandlerState  BY DEF CopyRole, TypeOK
<1> QED  BY <1>5, <1>7, <1>9, <1>10, <1>11, HandlerMoves

\* The copy has the role's inline policies, and no other of their names.
LEMMA CopyInlineEffect ==
    ASSUME TypeOK, CopyInlinePolicies
    PROVE  /\ \E q \in Hosting :
                /\ Holds(Here, q) /\ q.role.trust = hosting[Here].role.trust
                /\ {p \in q.role.inline : p.name \in NamesOf(launchRole.inline)} = launchRole.inline
           /\ handler' \in HandlerState /\ handler'.pc = "copyingManaged"
           /\ handler'.queue = handler.queue /\ handler'.steady = handler.steady
<1>1. handler.pc = "copyingInline"  BY DEF CopyInlinePolicies
<1>2. PICK a : a = Here /\ a \in Account  BY <1>1, HereIsAccount
<1>3. PICK o : o = hosting[a] /\ o \in Hosting  BY <1>2 DEF TypeOK
<1>4. PICK r : r = o.role /\ r \in Role  BY <1>3 DEF Hosting
<1>5. PICK I, N : I = launchRole.inline /\ N = NamesOf(launchRole.inline)  OBVIOUS
<1>6. launchRole \in Role  BY RolesAreRoles DEF TypeOK
<1>7. PICK J : J = {p \in r.inline : p.name \notin N} \cup I  OBVIOUS
<1> DEFINE c == [r EXCEPT !.inline = J]
<1>8. J \in SUBSET UNION {x.inline : x \in Roles}  BY <1>4, <1>5, <1>6, <1>7 DEF Role
<1>9. c \in Role /\ c.trust = r.trust /\ c.inline = J  BY <1>4, <1>8 DEF Role
<1> DEFINE q == [o EXCEPT !.role = c]
<1>10. hosting' = [hosting EXCEPT ![a] = q]
  BY <1>2, <1>3, <1>4, <1>5, <1>7 DEF CopyInlinePolicies
<1> HIDE DEF c
<1>11. q \in Hosting /\ q.role = c  BY <1>3, <1>9 DEF Hosting
<1> HIDE DEF q
<1>12. Holds(Here, q)  BY <1>2, <1>10, <1>11, ChangeHosting DEF TypeOK
<1>13. \A p \in I : p.name \in N  BY <1>5 DEF NamesOf
<1>14. {p \in J : p.name \in N} = I  BY <1>7, <1>13
<1>15. HandlerGoes("copyingManaged") /\ handler \in HandlerState  BY DEF CopyInlinePolicies, TypeOK
<1> QED  BY <1>2, <1>3, <1>4, <1>5, <1>9, <1>11, <1>12, <1>14, <1>15, HandlerMoves

\* The copy has the role's managed policies.
LEMMA CopyManagedEffect ==
    ASSUME TypeOK, CopyManagedPolicies
    PROVE  /\ \E q \in Hosting :
                /\ Holds(Here, q) /\ q.role.trust = hosting[Here].role.trust
                /\ q.role.inline = hosting[Here].role.inline
                /\ launchRole.managed \subseteq q.role.managed
           /\ handler' \in HandlerState /\ handler'.pc = "detaching"
           /\ handler'.queue = handler.queue /\ handler'.steady = handler.steady
<1>1. handler.pc = "copyingManaged"  BY DEF CopyManagedPolicies
<1>2. PICK a : a = Here /\ a \in Account  BY <1>1, HereIsAccount
<1>3. PICK o : o = hosting[a] /\ o \in Hosting  BY <1>2 DEF TypeOK
<1>4. PICK r : r = o.role /\ r \in Role  BY <1>3 DEF Hosting
<1>5. PICK U : U = Uncopied  OBVIOUS
<1>6. /\ U \subseteq launchRole.managed
      /\ launchRole.managed \subseteq r.managed \cup U
  BY <1>2, <1>3, <1>4, <1>5 DEF Uncopied
<1>7. launchRole \in Role  BY RolesAreRoles DEF TypeOK
<1>8. PICK M, P : M = r.managed \cup U /\ P = o.policies \cup (U \cap Custom)  OBVIOUS
<1> DEFINE c == [r EXCEPT !.managed = M]
<1>9. M \in SUBSET UNION {x.managed : x \in Roles}  BY <1>4, <1>6, <1>7, <1>8 DEF Role
<1>10. c \in Role /\ c.trust = r.trust /\ c.inline = r.inline /\ c.managed = M
  BY <1>4, <1>9 DEF Role
<1>11. P \in SUBSET Custom  BY <1>3, <1>8 DEF Hosting
<1> DEFINE q == [o EXCEPT !.role = c, !.policies = P]
<1>12. hosting' = [hosting EXCEPT ![a] = q]
  BY <1>2, <1>3, <1>4, <1>5, <1>8 DEF CopyManagedPolicies
<1> HIDE DEF c
<1>13. q \in Hosting /\ q.role = c  BY <1>3, <1>10, <1>11 DEF Hosting
<1> HIDE DEF q
<1>14. Holds(Here, q)  BY <1>2, <1>12, <1>13, ChangeHosting DEF TypeOK
<1>15. HandlerGoes("detaching") /\ handler \in HandlerState  BY DEF CopyManagedPolicies, TypeOK
<1> QED  BY <1>2, <1>3, <1>4, <1>6, <1>8, <1>10, <1>13, <1>14, <1>15, HandlerMoves

\* The copy is left with no policy that the role has not.
LEMMA DetachEffect ==
    ASSUME TypeOK, DetachPolicies
    PROVE  /\ \E q \in Hosting :
                LET r == hosting[Here].role IN
                /\ Holds(Here, q) /\ q.role.trust = r.trust
                /\ q.role.inline = {p \in r.inline : p.name \in NamesOf(launchRole.inline)}
                /\ q.role.managed = r.managed \cap launchRole.managed
           /\ handler' \in HandlerState /\ handler'.pc = "comparing"
           /\ handler'.queue = handler.queue /\ handler'.steady = handler.steady
<1>1. handler.pc = "detaching"  BY DEF DetachPolicies
<1>2. PICK a : a = Here /\ a \in Account  BY <1>1, HereIsAccount
<1>3. PICK o : o = hosting[a] /\ o \in Hosting  BY <1>2 DEF TypeOK
<1>4. PICK r : r = o.role /\ r \in Role  BY <1>3 DEF Hosting
<1>5. PICK I, M : /\ I = {p \in r.inline : p.name \in NamesOf(launchRole.inline)}
                  /\ M = r.managed \cap launchRole.managed
  OBVIOUS
<1> DEFINE c == [r EXCEPT !.managed = M, !.inline = I]
<1>6. c \in Role /\ c.trust = r.trust /\ c.inline = I /\ c.managed = M
  BY <1>4, <1>5 DEF Role
<1> DEFINE q == [o EXCEPT !.role = c]
<1>7. hosting' = [hosting EXCEPT ![a] = q]
  BY <1>2, <1>3, <1>4, <1>5 DEF DetachPolicies
<1> HIDE DEF c
<1>8. q \in Hosting /\ q.role = c  BY <1>3, <1>6 DEF Hosting
<1> HIDE DEF q
<1>9. Holds(Here, q)  BY <1>2, <1>7, <1>8, ChangeHosting DEF TypeOK
<1> PICK h : h = handler /\ h \in HandlerState  BY DEF TypeOK
<1> PICK x : x = onboarding /\ x \in Content \cup {Missing}  BY DEF TypeOK, SetupTypeOK
<1> DEFINE k == [h EXCEPT !.pc = "comparing", !.expected = x]
<1>10. handler' = k  BY DEF DetachPolicies
<1>11. k \in HandlerState /\ k.pc = "comparing" /\ k.queue = h.queue /\ k.steady = h.steady
  BY DEF HandlerState
<1> QED  BY <1>2, <1>3, <1>4, <1>5, <1>6, <1>8, <1>9, <1>10, <1>11

\* What is typed besides the setup.
AccountsTyped ==
    /\ launchRole \in Roles /\ onboarded \subseteq Account
    /\ hosting \in [Account -> Hosting]
    /\ status \in [Account -> {Missing, "CURRENT", "NEEDS_UPDATE"}]
    /\ handler \in HandlerState
    /\ handler.pc # "waiting" => handler.queue # {}
    /\ handler.pc = "writing" => handler.verdict # Missing
    /\ failuresLeft \in Nat

\* A handler that waits, or begins with an account, has cloned nothing yet.
LEMMA NothingCloned ==
    ASSUME handler'.pc \in {"waiting", "assuming", "sharing", "sharingImages",
                            "sharingPortfolio", "associating", "copyingRole"} \/ ~handler'.steady
    PROVE  CloneGoesOn' /\ CloneIsExact'
BY DEF CloneGoesOn, CloneIsExact

\* A handler that stays with its account finds there what it has just put.
LEMMA StaysHere ==
    ASSUME TypeOK, handler.pc # "waiting", handler'.queue = handler.queue,
           NEW q, Holds(Here, q)
    PROVE  \E a \in Account : a = Here /\ Here' = a /\ hosting'[a] = q
<1>1. PICK a : a = Here /\ a \in Account  BY HereIsAccount
<1>2. Here' = a  BY <1>1 DEF Here
<1>3. hosting'[a] = q  BY <1>1 DEF Holds
<1> QED  BY <1>1, <1>2, <1>3

\* Each step of the handler keeps what is typed and how far the clone has come.
LEMMA HandlerStepKeeps ==
    ASSUME IInv, HandlerStep
    PROVE  AccountsTyped' /\ CloneGoesOn' /\ CloneIsExact'
<1>1. TypeOK /\ CloneGoesOn /\ CloneIsExact  BY DEF IInv
<1>2. AccountsTyped  BY <1>1 DEF TypeOK, AccountsTyped
<1>3. UNCHANGED <<launchRole, onboarded, failuresLeft>>
  BY DEF HandlerStep, NoOtherChange, StartHandler, AssumeRole, Share, ShareSSMDocuments, ShareAMIs,
         ShareAndAcceptScPortfolio, AssociatePrincipalWithPortfolio, CopyRole,
         CopyInlinePolicies, CopyManagedPolicies, DetachPolicies, GetTemplate,
         DescribeStack, WriteStatus, HandlerThrows
<1>4. ASSUME handler' \in HandlerState, hosting' \in [Account -> Hosting], status' = status,
             handler'.pc # "waiting" => handler'.queue # {},
             handler'.pc = "writing" => handler'.verdict # Missing
      PROVE  AccountsTyped'
  BY <1>2, <1>3, <1>4 DEF AccountsTyped
<1>5. ASSUME handler.pc # "waiting", handler'.queue = handler.queue
      PROVE  handler'.queue # {} /\ Here' = Here /\ Here \in Account
  BY <1>1, <1>5, HereIsAccount DEF TypeOK, Here
<1>6. CASE StartHandler
  <2> PICK Q : Q = AccountMetadata  OBVIOUS
  <2> DEFINE k == [Waiting EXCEPT !.pc = "assuming", !.queue = Q]
  <2>1. handler' = k /\ Q # {} /\ UNCHANGED <<hosting, status>>  BY <1>6 DEF StartHandler
  <2>2. Q \in SUBSET DOMAIN Accounts  BY DEF AccountMetadata
  <2>3. k \in HandlerState /\ k.pc = "assuming" /\ k.queue = Q
    BY <2>2, WaitingIsHandler DEF HandlerState
  <2> HIDE DEF k
  <2> QED  BY <1>2, <1>4, <2>1, <2>3, NothingCloned DEF AccountsTyped
<1>7. CASE AssumeRole
  <2>1. UNCHANGED <<hosting, status>> /\ handler.pc = "assuming"  BY <1>7 DEF AssumeRole
  <2>2. CASE NextAccount
    BY <1>1, <1>2, <1>4, <2>1, <2>2, NextAccountEffect, NothingCloned DEF AccountsTyped
  <2>3. CASE HandlerGoes("sharing")
    <3>1. /\ handler' \in HandlerState /\ handler'.pc = "sharing"
          /\ handler'.queue = handler.queue
      BY <1>2, <2>3, HandlerMoves DEF AccountsTyped
    <3> QED  BY <1>2, <1>4, <1>5, <2>1, <3>1, NothingCloned DEF AccountsTyped
  <2> QED  BY <1>7, <2>2, <2>3 DEF AssumeRole
<1>8. CASE \/ ShareSSMDocuments \/ ShareAMIs
           \/ ShareAndAcceptScPortfolio \/ AssociatePrincipalWithPortfolio
  <2>1. /\ \E q \in Hosting : Holds(Here, q)
        /\ handler' \in HandlerState /\ handler'.queue # {}
        /\ handler'.pc \in {"sharingImages", "sharingPortfolio", "associating", "copyingRole"}
    BY <1>1, <1>8, ShareEffect
    DEF ShareSSMDocuments, ShareAMIs, ShareAndAcceptScPortfolio, AssociatePrincipalWithPortfolio
  <2>2. status' = status
    BY <1>8 DEF Share, ShareSSMDocuments, ShareAMIs, ShareAndAcceptScPortfolio,
                AssociatePrincipalWithPortfolio
  <2> QED  BY <1>4, <2>1, <2>2, NothingCloned DEF Holds
<1>9. CASE CopyRole
  <2>1. PICK q \in Hosting : Holds(Here, q) /\ q.role.trust = launchRole.trust
    BY <1>1, <1>9, CopyRoleEffect
  <2>2. /\ handler' \in HandlerState /\ handler'.pc = "copyingInline"
        /\ handler'.queue = handler.queue
    BY <1>1, <1>9, CopyRoleEffect
  <2>3. handler.pc # "waiting" /\ status' = status  BY <1>9 DEF CopyRole
  <2>4. PICK a \in Account : Here' = a /\ hosting'[a] = q
    BY <1>1, <2>1, <2>2, <2>3, StaysHere
  <2>5. CloneGoesOn' /\ CloneIsExact'
    BY <1>3, <2>1, <2>2, <2>4 DEF CloneGoesOn, CloneIsExact
  <2> QED  BY <1>4, <1>5, <2>1, <2>2, <2>3, <2>5 DEF Holds
<1>10. CASE CopyInlinePolicies
  <2>1. PICK q \in Hosting :
          /\ Holds(Here, q) /\ q.role.trust = hosting[Here].role.trust
          /\ {p \in q.role.inline : p.name \in NamesOf(launchRole.inline)} = launchRole.inline
    BY <1>1, <1>10, CopyInlineEffect
  <2>2. /\ handler' \in HandlerState /\ handler'.pc = "copyingManaged"
        /\ handler'.queue = handler.queue /\ handler'.steady = handler.steady
    BY <1>1, <1>10, CopyInlineEffect
  <2>3. handler.pc = "copyingInline" /\ status' = status  BY <1>10 DEF CopyInlinePolicies
  <2>4. PICK a \in Account : Here' = a /\ hosting'[a] = q
    BY <1>1, <2>1, <2>2, <2>3, StaysHere
  <2>5. handler.steady => q.role.trust = launchRole.trust
    BY <1>1, <2>1, <2>3 DEF CloneGoesOn
  <2>6. CloneGoesOn' /\ CloneIsExact'
    <3>1. NamesOf(launchRole.inline)' = NamesOf(launchRole.inline)  BY <1>3
    <3> QED  BY <1>3, <2>1, <2>2, <2>4, <2>5, <3>1 DEF CloneGoesOn, CloneIsExact
  <2> QED  BY <1>4, <1>5, <2>1, <2>2, <2>3, <2>6 DEF Holds
<1>11. CASE CopyManagedPolicies
  <2>1. PICK q \in Hosting :
          /\ Holds(Here, q) /\ q.role.trust = hosting[Here].role.trust
          /\ q.role.inline = hosting[Here].role.inline
          /\ launchRole.managed \subseteq q.role.managed
    BY <1>1, <1>11, CopyManagedEffect
  <2>2. /\ handler' \in HandlerState /\ handler'.pc = "detaching"
        /\ handler'.queue = handler.queue /\ handler'.steady = handler.steady
    BY <1>1, <1>11, CopyManagedEffect
  <2>3. handler.pc = "copyingManaged" /\ status' = status  BY <1>11 DEF CopyManagedPolicies
  <2>4. PICK a \in Account : Here' = a /\ hosting'[a] = q
    BY <1>1, <2>1, <2>2, <2>3, StaysHere
  <2>5. handler.steady =>
          /\ q.role.trust = launchRole.trust
          /\ {p \in q.role.inline : p.name \in NamesOf(launchRole.inline)} = launchRole.inline
    BY <1>1, <2>1, <2>3 DEF CloneGoesOn
  <2>6. CloneGoesOn' /\ CloneIsExact'
    <3>1. NamesOf(launchRole.inline)' = NamesOf(launchRole.inline)  BY <1>3
    <3> QED  BY <1>3, <2>1, <2>2, <2>4, <2>5, <3>1 DEF CloneGoesOn, CloneIsExact
  <2> QED  BY <1>4, <1>5, <2>1, <2>2, <2>3, <2>6 DEF Holds
<1>12. CASE DetachPolicies
  <2>1. PICK q \in Hosting :
          LET r == hosting[Here].role IN
          /\ Holds(Here, q) /\ q.role.trust = r.trust
          /\ q.role.inline = {p \in r.inline : p.name \in NamesOf(launchRole.inline)}
          /\ q.role.managed = r.managed \cap launchRole.managed
    BY <1>1, <1>12, DetachEffect
  <2>2. /\ handler' \in HandlerState /\ handler'.pc = "comparing"
        /\ handler'.queue = handler.queue /\ handler'.steady = handler.steady
    BY <1>1, <1>12, DetachEffect
  <2>3. handler.pc = "detaching" /\ status' = status  BY <1>12 DEF DetachPolicies
  <2>4. PICK a \in Account : Here' = a /\ hosting'[a] = q
    BY <1>1, <2>1, <2>2, <2>3, StaysHere
  <2>5. handler.steady => q.role = launchRole
    <3>1. ASSUME handler.steady
          PROVE  /\ q.role.trust = launchRole.trust
                 /\ q.role.inline = launchRole.inline
                 /\ q.role.managed = launchRole.managed
      BY <1>1, <2>1, <2>3, <3>1 DEF CloneGoesOn
    <3>2. q.role \in Role /\ launchRole \in Role
      BY <1>2, <2>1, RolesAreRoles DEF Hosting, AccountsTyped
    <3> QED  BY <3>1, <3>2 DEF Role
  <2>6. CloneGoesOn' /\ CloneIsExact'
    BY <1>3, <2>2, <2>4, <2>5 DEF CloneGoesOn, CloneIsExact
  <2> QED  BY <1>4, <1>5, <2>1, <2>2, <2>3, <2>6 DEF Holds
<1>13. CASE GetTemplate
  <2> PICK h : h = handler /\ h \in HandlerState  BY <1>2 DEF AccountsTyped
  <2>1. h.pc = "comparing" /\ UNCHANGED <<hosting, status>>  BY <1>13 DEF GetTemplate
  <2>2. PICK x : x = hosting[Here].stack /\ x \in Content \cup {Missing}
    BY <1>1, <2>1, HereIsAccount DEF TypeOK, Hosting
  <2> DEFINE k == [h EXCEPT !.pc = "describing", !.actual = x]
  <2>3. handler' = k  BY <1>13, <2>2 DEF GetTemplate
  <2>4. k \in HandlerState /\ k.pc = "describing" /\ k.queue = h.queue /\ k.steady = h.steady
    BY <2>2 DEF HandlerState
  <2> HIDE DEF k
  <2>5. CloneGoesOn' /\ CloneIsExact'
    BY <1>1, <1>3, <1>5, <2>1, <2>3, <2>4 DEF CloneGoesOn, CloneIsExact
  <2> QED  BY <1>2, <1>4, <1>5, <2>1, <2>3, <2>4, <2>5 DEF AccountsTyped
<1>14. CASE DescribeStack
  <2> PICK h : h = handler /\ h \in HandlerState  BY <1>2 DEF AccountsTyped
  <2>1. h.pc = "describing" /\ UNCHANGED <<hosting, status>>  BY <1>14 DEF DescribeStack
  <2>2. CASE NextAccount
    BY <1>1, <1>2, <1>4, <2>1, <2>2, NextAccountEffect, NothingCloned DEF AccountsTyped
  <2>3. CASE ~NextAccount
    <3>1. PICK x \in {"CURRENT", "NEEDS_UPDATE"} : x = Verdict(handler.expected, handler.actual)
      BY DEF Verdict
    <3> DEFINE k == [h EXCEPT !.pc = "writing", !.verdict = x]
    <3>2. handler' = k  BY <1>14, <2>3, <3>1 DEF DescribeStack
    <3>3. /\ k \in HandlerState /\ k.pc = "writing" /\ k.queue = h.queue
          /\ k.steady = h.steady /\ k.verdict = x /\ x # Missing
      BY <3>1 DEF HandlerState, Missing
    <3> HIDE DEF k
    <3>4. CloneGoesOn' /\ CloneIsExact'
      BY <1>1, <1>3, <1>5, <2>1, <3>2, <3>3 DEF CloneGoesOn, CloneIsExact
    <3> QED  BY <1>2, <1>4, <1>5, <2>1, <3>2, <3>3, <3>4 DEF AccountsTyped
  <2> QED  BY <2>2, <2>3
<1>15. CASE WriteStatus
  <2>1. /\ handler' \in HandlerState /\ ~handler'.steady
        /\ \/ handler'.pc = "waiting"
           \/ handler'.pc = "assuming" /\ handler'.queue # {}
    BY <1>1, <1>15, NextAccountEffect DEF WriteStatus
  <2>2. handler.verdict \in {Missing, "CURRENT", "NEEDS_UPDATE"}  BY <1>2 DEF AccountsTyped, HandlerState
  <2>3. /\ status' \in [Account -> {Missing, "CURRENT", "NEEDS_UPDATE"}]
        /\ hosting' = hosting
    BY <1>2, <1>15, <2>2 DEF AccountsTyped, WriteStatus
  <2>4. AccountsTyped'  BY <1>2, <1>3, <2>1, <2>3 DEF AccountsTyped
  <2> QED  BY <2>1, <2>4, NothingCloned
<1>16. CASE HandlerThrows
  <2>1. handler' = Waiting /\ UNCHANGED <<hosting, status>>  BY <1>16 DEF HandlerThrows
  <2> QED  BY <1>2, <1>4, <2>1, WaitingIsHandler, NothingCloned DEF AccountsTyped
<1> QED
  BY <1>6, <1>7, <1>8, <1>9, <1>10, <1>11, <1>12, <1>13, <1>14, <1>15, <1>16 DEF HandlerStep

\* The steps around the handler keep it too: the role of the account in hand is only
\* changed by the handler, and a deployment of the role ends its steadiness.
LEMMA OthersKeep ==
    ASSUME IInv,
           \/ HandlerFails
           \/ \E a \in Account : AccountStored(a) \/ UpdateStack(a) \/ StackUpdated(a)
           \/ \E r \in Roles : DeployRole(r)
    PROVE  AccountsTyped' /\ CloneGoesOn' /\ CloneIsExact'
<1>1. TypeOK /\ CloneGoesOn /\ CloneIsExact  BY DEF IInv
<1>2. AccountsTyped  BY <1>1 DEF TypeOK, AccountsTyped
<1>3. CASE HandlerFails
  <2>1. handler' = Waiting /\ UNCHANGED <<launchRole, onboarded, hosting, status>>
    BY <1>3 DEF HandlerFails
  <2>2. failuresLeft' \in Nat
    BY <1>2, <1>3, AccountAssumption DEF AccountsTyped, HandlerFails
  <2> QED  BY <1>2, <2>1, <2>2, WaitingIsHandler, NothingCloned DEF AccountsTyped
<1>4. ASSUME NEW a \in Account, AccountStored(a)
      PROVE  AccountsTyped' /\ CloneGoesOn' /\ CloneIsExact'
  <2>1. UNCHANGED <<launchRole, hosting, status, handler, failuresLeft>>  BY <1>4 DEF AccountStored
  <2>2. onboarded' \subseteq Account  BY <1>2, <1>4 DEF AccountStored, AccountsTyped
  <2>3. Here' = Here  BY <2>1 DEF Here
  <2> QED
    BY <1>1, <1>2, <2>1, <2>2, <2>3 DEF AccountsTyped, CloneGoesOn, CloneIsExact, NamesOf
<1>5. ASSUME NEW a \in Account, UpdateStack(a) \/ StackUpdated(a)
      PROVE  AccountsTyped' /\ CloneGoesOn' /\ CloneIsExact'
  <2>1. UNCHANGED <<launchRole, onboarded, status, handler, failuresLeft>>
    BY <1>5 DEF UpdateStack, StackUpdated
  <2>2. PICK o : o = hosting[a] /\ o \in Hosting  BY <1>2 DEF AccountsTyped
  <2>3. PICK x : x = onboarding /\ x \in Content \cup {Missing}
    BY <1>1 DEF TypeOK, SetupTypeOK
  <2>4. PICK q \in Hosting : hosting' = [hosting EXCEPT ![a] = q] /\ q.role = o.role
    <3>1. CASE UpdateStack(a)
      <4> DEFINE q == [o EXCEPT !.state = "updating", !.stack = x]
      <4>1. q \in Hosting /\ q.role = o.role  BY <2>2, <2>3 DEF Hosting
      <4>2. hosting' = [hosting EXCEPT ![a] = q]  BY <2>2, <2>3, <3>1 DEF UpdateStack
      <4> HIDE DEF q
      <4> QED  BY <4>1, <4>2
    <3>2. CASE StackUpdated(a)
      <4> DEFINE q == [o EXCEPT !.state = "complete"]
      <4>1. q \in Hosting /\ q.role = o.role  BY <2>2 DEF Hosting
      <4>2. hosting' = [hosting EXCEPT ![a] = q]  BY <2>2, <3>2 DEF StackUpdated
      <4> HIDE DEF q
      <4> QED  BY <4>1, <4>2
    <3> QED  BY <1>5, <3>1, <3>2
  <2>5. Holds(a, q)  BY <1>2, <2>4, ChangeHosting DEF AccountsTyped
  <2>6. AccountsTyped'  BY <1>2, <2>1, <2>5 DEF AccountsTyped, Holds
  <2>7. \A b \in Account : hosting'[b].role = hosting[b].role
    BY <2>2, <2>4, <2>5 DEF Holds
  <2>8. CASE handler.pc = "waiting"  BY <2>1, <2>6, <2>8, NothingCloned
  <2>9. CASE handler.pc # "waiting"
    <3>1. PICK h \in Account : h = Here  BY <1>1, <2>9, HereIsAccount
    <3>2. Here' = h  BY <2>1, <3>1 DEF Here
    <3>3. hosting'[h].role = hosting[h].role  BY <2>7
    <3> QED
      BY <1>1, <2>1, <2>6, <3>1, <3>2, <3>3 DEF CloneGoesOn, CloneIsExact, NamesOf
  <2> QED  BY <2>8, <2>9
<1>6. ASSUME NEW r \in Roles, DeployRole(r)
      PROVE  AccountsTyped' /\ CloneGoesOn' /\ CloneIsExact'
  <2> PICK h : h = handler /\ h \in HandlerState  BY <1>2 DEF AccountsTyped
  <2> DEFINE k == [h EXCEPT !.steady = FALSE]
  <2>1. handler' = k /\ launchRole' = r /\ UNCHANGED <<onboarded, hosting, status, failuresLeft>>
    BY <1>6 DEF DeployRole
  <2>2. /\ k \in HandlerState /\ k.pc = h.pc /\ k.queue = h.queue
        /\ k.verdict = h.verdict /\ ~k.steady
    BY DEF HandlerState
  <2> HIDE DEF k
  <2>3. AccountsTyped'  BY <1>2, <2>1, <2>2 DEF AccountsTyped
  <2> QED  BY <2>1, <2>2, <2>3, NothingCloned
<1> QED  BY <1>3, <1>4, <1>5, <1>6

(***************************************************************************)
(* The theorems                                                            *)
(***************************************************************************)
\* The invariant holds when nobody has run the script and no account is stored.
LEMMA Begins == Init => IInv
<1> SUFFICES ASSUME Init PROVE IInv  OBVIOUS
<1>1. PICK p \in Parties : runsLeft = p.runs /\ failuresLeft = p.failures  BY DEF Init
<1>2. SetupIInv  BY SetupBegins DEF Init
<1>3. NewHosting \in Hosting  BY RolesAreRoles DEF NewHosting, Hosting
<1>4. AccountsTyped
  BY <1>1, <1>3, WaitingIsHandler, AccountAssumption DEF Init, AccountsTyped
<1>5. CloneGoesOn /\ CloneIsExact
  BY WaitingIsHandler DEF Init, CloneGoesOn, CloneIsExact
<1> QED  BY <1>2, <1>4, <1>5 DEF IInv, TypeOK, SetupIInv, AccountsTyped

\* Every step keeps it.
LEMMA NextKeeps == IInv /\ [Next]_vars => IInv'
<1> SUFFICES ASSUME IInv, [Next]_vars PROVE IInv'  OBVIOUS
<1>1. SetupIInv /\ TypeOK /\ CloneGoesOn /\ CloneIsExact  BY DEF IInv
<1>2. AccountsTyped  BY <1>1 DEF TypeOK, AccountsTyped
<1>3. ASSUME SetupIInv', AccountsTyped', CloneGoesOn', CloneIsExact'
      PROVE  IInv'
  BY <1>3 DEF IInv, TypeOK, SetupIInv, AccountsTyped
<1>4. ASSUME UNCHANGED handlerVars
      PROVE  AccountsTyped' /\ CloneGoesOn' /\ CloneIsExact'
  <2>1. UNCHANGED <<launchRole, onboarded, hosting, status, handler, failuresLeft>>
    BY <1>4 DEF handlerVars
  <2>2. Here' = Here  BY <2>1 DEF Here
  <2> QED  BY <1>1, <1>2, <2>1, <2>2 DEF AccountsTyped, CloneGoesOn, CloneIsExact, NamesOf
<1>5. ASSUME NEW d \in Deployer, SetupStep(d), UNCHANGED handlerVars
      PROVE  IInv'
  BY <1>1, <1>3, <1>4, <1>5, SetupIInvKept
<1>6. CASE HandlerStep
  <2>1. UNCHANGED setupVars
    BY <1>6 DEF HandlerStep, NoOtherChange, StartHandler, AssumeRole, Share, ShareSSMDocuments,
                ShareAMIs, ShareAndAcceptScPortfolio, AssociatePrincipalWithPortfolio, CopyRole,
                CopyInlinePolicies, CopyManagedPolicies, DetachPolicies, GetTemplate,
                DescribeStack, WriteStatus, HandlerThrows
  <2> QED  BY <1>1, <1>3, <1>6, <2>1, SetupLeftAlone, HandlerStepKeeps
<1>7. CASE \/ HandlerFails
           \/ \E a \in Account : AccountStored(a) \/ UpdateStack(a) \/ StackUpdated(a)
           \/ \E r \in Roles : DeployRole(r)
  <2>1. UNCHANGED setupVars
    BY <1>7 DEF HandlerFails, AccountStored, UpdateStack, StackUpdated, DeployRole
  <2> QED  BY <1>1, <1>3, <1>7, <2>1, SetupLeftAlone, OthersKeep
<1>8. CASE UNCHANGED vars
  <2>1. UNCHANGED setupVars /\ UNCHANGED handlerVars  BY <1>8 DEF vars, setupVars, handlerVars
  <2> QED  BY <1>1, <1>3, <1>4, <2>1, SetupLeftAlone
<1> QED  BY <1>5, <1>6, <1>7, <1>8 DEF Next

\* The state has its types, versions are numbered apart, scripts publish what they
\* say they have, and the clone of the role goes on as it should: in every reachable
\* state, for any numbers of deployers, types, accounts and runs.
THEOREM Invariance == Spec => []IInv
<1>1. Init => IInv  BY Begins
<1>2. IInv /\ [Next]_vars => IInv'  BY NextKeeps
<1> QED  BY <1>1, <1>2, PTL DEF Spec

\* Two scripts at once never give two versions of a product the same name
\* (serviceCatalogSetup.ts names a version by the number after the last).
THEOREM NamesApart == Spec => []VersionsDistinct
<1>1. IInv => VersionsDistinct  BY DEF IInv, SetupIInv
<1> QED  BY <1>1, Invariance, PTL

\* After a clone the account's role is the launch constraint role, unless that was
\* changed meanwhile (iamRoleCloneService.ts).
THEOREM ClonesExactly == Spec => []CloneIsExact
<1>1. IInv => CloneIsExact  BY DEF IInv
<1> QED  BY <1>1, Invariance, PTL

\* Where an ETag is not the MD5 of the object, as in the bucket that is deployed, a
\* script that says it has published all types has done so.
THEOREM PublishedAtTheEnd ==
    ASSUME ~EtagIsMd5
    PROVE  Spec => []PublishedAndConstrained
<1>1. IInv => PublishedAndConstrained  BY PublishedFollows DEF IInv
<1> QED  BY <1>1, Invariance, PTL

\* There, when all scripts have ended, environments are launched from the templates
\* that are in S3.
THEOREM NewestAtTheEnd ==
    ASSUME ~EtagIsMd5
    PROVE  Spec => []NewestIsPublished
<1>1. IInv => NewestIsPublished  BY NewestFollows DEF IInv
<1> QED  BY <1>1, Invariance, PTL
================================================================================
