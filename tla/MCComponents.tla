---------------------------- MODULE MCComponents ----------------------------
(***************************************************************************)
(* Instances for TLC of the components that share no state, side by side:  *)
(* part says which one of them runs, and the variables of the others idle. *)
(***************************************************************************)
EXTENDS Integers, Sequences, FiniteSets, TLC

CONSTANTS NoLead, Threads

VARIABLES
  part,
  monoid, a, b,                                                  \* MonoMonoid
  conf, checker, exponents, monomial, poly, basis, sent, phase,
  lastAction, adapter, out,                                      \* LibraryInterface
  mem, matrix, rows,                                             \* SparseMatrix
  shape, modulus, charac, coefficient, exact,                    \* CoefficientField
  ratios, ranks,                                                 \* RatioRanks
  buckets, maxSize, size, sums,                                  \* PolyHashTable
  building, asked, mTodo, mMap, known, work, builders, quad,     \* F4MatrixBuilder
  calls, store, mMatrixSaveCount, disk, reducedOut, last, made,  \* F4Reducer
  options, toCome, entries, mLookup, monoSet, added, query, todo,
  found,                                                         \* MonomialLookup
  order, elements, toInsert, columns, popped, pending, first,    \* SigSPairQueue
  text, scanner, taken, before, said,                            \* Scanner
  stage, modules, tokens, document, written,                     \* MathicIO
  files, arguments, finished                                     \* MatrixAction

MonoidVars == <<monoid, a, b>>
LibraryVars == <<conf, checker, exponents, monomial, poly, basis, sent, phase, lastAction,
                 adapter, out>>
MatrixVars == <<mem, matrix, rows>>
FieldVars == <<shape, modulus, charac, coefficient, exact>>
RankVars == <<ratios, ranks>>
TableVars == <<buckets, maxSize, size, sums>>
BuilderVars == <<building, asked, mTodo, mMap, known, work, builders, quad>>
ReducerVars == <<calls, store, mMatrixSaveCount, disk, reducedOut, last, made>>
LookupVars == <<options, toCome, entries, mLookup, monoSet, added, query, todo, found>>
QueueVars == <<order, elements, toInsert, columns, popped, pending, first>>
ScannerVars == <<text, scanner, taken, before, said>>
FormatVars == <<stage, modules, tokens, document, written>>
ActionVars == <<files, arguments, finished>>

vars == <<part, MonoidVars, LibraryVars, MatrixVars, FieldVars, RankVars, TableVars,
          BuilderVars, ReducerVars, LookupVars, QueueVars, ScannerVars, FormatVars,
          ActionVars>>

Idle == "idle"

----------------------------------------------------------------------------
(* Monoids: every base order, with the component first, in the middle and  *)
(* last, with and without the parts of the array that may be missing       *)
ComponentLast == 99

MonoOf(n, component, hash, degrees, gradings, base, componentBefore) ==
  [vars |-> n, hasComponent |-> component, storeHash |-> hash, storeOrder |-> degrees,
   order |-> [gradings |-> gradings, base |-> base, componentBefore |-> componentBefore]]

MCMonoids ==
  {MonoOf(2, TRUE, TRUE, TRUE, <<<<1, 1>>>>, "RevLexFromRight", ComponentLast),
   MonoOf(2, TRUE, TRUE, TRUE, <<<<1, 1>>>>, "RevLexFromLeft", 1),
   MonoOf(2, TRUE, TRUE, TRUE, <<<<2, 1>>, <<1, 0>>>>, "RevLexFromLeft", 1),
   MonoOf(2, TRUE, TRUE, FALSE, <<<<1, 1>>>>, "LexFromLeft", ComponentLast),
   MonoOf(2, TRUE, FALSE, TRUE, <<<<1, 2>>>>, "LexFromLeft", 0),
   MonoOf(2, TRUE, FALSE, FALSE, <<>>, "LexFromRight", ComponentLast),
   MonoOf(2, FALSE, TRUE, TRUE, <<<<1, 1>>>>, "RevLexFromRight", ComponentLast),
   MonoOf(3, TRUE, TRUE, TRUE, <<<<1, 1, 1>>>>, "RevLexFromRight", ComponentLast)}

Monoid == INSTANCE MonoMonoid WITH
  Monoids <- MCMonoids, Width <- 4, HashCoefficients <- <<5, 11, 6>>, MaxExponent <- 2,
  Components <- {0, 1}

----------------------------------------------------------------------------
(* Clients that ask for some order, or for the default one with moduli on  *)
(* both sides of 2^16, and send a few polynomials                          *)
Configuration(p, kind, callback) ==
  [modulus |-> p, varCount |-> 2, comCount |-> 1, reducer |-> kind, callback |-> callback,
   order |-> [base |-> "RevLexDescending", gradings |-> <<<<1, 1>>>>,
              componentBefore |-> ComponentLast]]

MCConfigurations ==
  {Configuration(3, "DefaultReducer", "object"),
   Configuration(65537, "DefaultReducer", "none"),
   Configuration(65537, "ClassicReducer", "null")}

MCOrders ==
  {[base |-> "LexDescending", gradings |-> <<>>],
   [base |-> "LexAscending", gradings |-> <<<<1, 0>>, <<1, 1>>>>],
   [base |-> "RevLexAscending", gradings |-> <<<<1, 1>>>>],
   [base |-> "RevLexDescending", gradings |-> <<<<1, 0>>>>],
   [base |-> "LexDescending", gradings |-> <<<<0, 1>>, <<-1, 1>>>>]}

TermOf(coef, x, y) == [coef |-> coef, com |-> 0, exps |-> (0 :> x) @@ (1 :> y)]

MCResults ==
  {<<>>, <<<<>>, <<TermOf(1, 2, 0), TermOf(1, 0, 0)>>, <<>>, <<TermOf(1, 0, 1)>>, <<>>>>}

MCMaxPolys(c) ==
  IF c.order.componentBefore # ComponentLast THEN 0
  ELSE IF c.order.base \in {"RevLexDescending", "LexAscending"} THEN 2 ELSE 1
MCMaxTerms(c) == IF c.order.base = "LexAscending" THEN 2 ELSE 1

Library == INSTANCE LibraryInterface WITH
  Configurations <- MCConfigurations, Orders <- MCOrders, MaxPolys <- MCMaxPolys,
  MaxTerms <- MCMaxTerms, Exponents <- {1}, Results <- MCResults

ASSUME ResultsAssumption == Library!ResultsFit

----------------------------------------------------------------------------
(* Rows may fit into a block or be longer than a quantum; the field has up *)
(* to 12 bits for products; five ratios are given 31 ranks.                *)
Matrix == INSTANCE SparseMatrix WITH
  want <- rows, Quanta <- {0, 1, 2}, MinBlock <- 1, MaxEntries <- 2, MaxRows <- 2,
  Cols <- {0, 1}, Modulus <- 3

Shape(stored, sum, product, integer) ==
  [store |-> stored, sum |-> sum, product |-> product, integer |-> integer]

Field == INSTANCE CoefficientField WITH
  result <- coefficient, want <- exact,
  Shapes <- {Shape(4, 4, 8, 6), Shape(4, 12, 8, 5), Shape(6, 6, 12, 4), Shape(8, 8, 8, 4)},
  Numbers <- 0 .. 40 \cup {61, 2047}

Ranks == INSTANCE RatioRanks WITH Ratios <- 1..5, MaxRank <- 31, MaxSize <- 5

ASSUME RanksAssumption == Ranks!RanksSuffice

(* 1 and 2, 3 and 4 share a bucket until the table has grown twice. *)
Table == INSTANCE PolyHashTable WITH
  Monos <- 1..5, HashOf <- <<1, 5, 3, 7, 0>>, HashBits <- 4, SizeBits <- 4,
  Requested <- 2, LoadDivisor <- 1, Charac <- 3

----------------------------------------------------------------------------
(* The digits of a monomial are the exponents of three variables. *)
Entry(mono, coef) == [mono |-> mono, coef |-> coef]

BuilderTerms ==
  [p |-> <<Entry(110, 1), Entry(19, 1), Entry(9, 2)>>,
   q |-> <<Entry(101, 1), Entry(10, 1), Entry(0, 1)>>,
   r |-> <<Entry(111, 2), Entry(101, 1), Entry(0, 1)>>]

BuilderReducers ==
  [m \in 0..1000 |-> IF m = 110 THEN {"p"} ELSE IF m = 101 THEN {"q"}
                     ELSE IF m = 111 THEN {"p", "q"} ELSE {}]

Task(p, other, to) == [addToTop |-> FALSE, poly |-> p, other |-> other, lead |-> to]

(* An S-pair, a polynomial, two multiples; the second may overflow. *)
BuilderInputs ==
  {[tasks |-> {Task("p", "q", 111), Task("r", "null", NoLead)}, maxMono |-> 1000],
   [tasks |-> {Task("r", "null", NoLead), Task("p", "null", 111)}, maxMono |-> 110],
   [tasks |-> {Task("p", "null", 111), Task("q", "null", 111)}, maxMono |-> 1000]}

Builder == INSTANCE F4MatrixBuilder WITH
  phase <- building, input <- asked, matrix <- quad, TermsOf <- BuilderTerms,
  Reducers <- BuilderReducers, Inputs <- BuilderInputs, Charac <- 3, NoPoly <- "null"

----------------------------------------------------------------------------
(* Polynomials modulo 3 of degree at most 4, from the coefficient of 1 on, *)
(* and two elements of a basis that is not a Groebner basis                *)
Poly(c) == [m \in 0..4 |-> IF m < Len(c) THEN c[m + 1] ELSE 0]

ReducerBasis ==
  <<[lead |-> 2, poly |-> Poly(<<1, 1, 1>>)], [lead |-> 3, poly |-> Poly(<<2, 0, 0, 1>>)],
    [lead |-> 2, poly |-> Poly(<<0, 2, 1>>)]>>

PolySets ==
  {<<>>, <<Poly(<<1, 0, 2>>)>>, <<Poly(<<2, 2, 2>>)>>, <<Poly(<<1>>), Poly(<<2, 1>>)>>,
   <<Poly(<<0, 1, 0, 1, 1>>), Poly(<<1, 1, 1>>), Poly(<<0, 0, 0, 2, 1>>)>>}

SetCalls ==
  {[op |-> "classicReducePolySet", polys |-> polys] : polys \in PolySets}
    \cup {[op |-> "classicReduceSPolySet", spairs |-> spairs] :
             spairs \in {<<<<2, 1>>>>, <<<<2, 1>>, <<3, 1>>>>, <<<<2, 3>>, <<2, 1>>, <<3, 1>>>>}}

SingleCalls ==
  {[op |-> "classicReduce", poly |-> Poly(<<0, 1, 0, 0, 1>>)],
   [op |-> "classicTailReduce", poly |-> Poly(<<1, 0, 2, 0, 1>>)],
   [op |-> "classicReduceSPoly", a |-> 3, b |-> 2]}

F4 == INSTANCE F4Reducer WITH
  P <- 3, Degree <- 4, Basis <- ReducerBasis,
  Stores <- {[file |-> "", minEntries |-> 0], [file |-> "gb", minEntries |-> 8]},
  Calls <- {<<c>> : c \in SingleCalls}
             \cup {<<c, [op |-> "writeMatricesTo", file |-> "gb", minEntries |-> 3], d, c>> :
                     c \in SetCalls, d \in {x \in SetCalls : x.op = "classicReduceSPolySet"}}

----------------------------------------------------------------------------
(* Elements in two components, whose ratios and numbers of terms may be    *)
(* equal; the monomials divide one another in part.                        *)
MonoIn(c, x, y) == [component |-> c, exponents |-> <<x, y>>]

LookupMonos ==
  {<<MonoIn(0, 1, 1), MonoIn(0, 1, 0), MonoIn(0, 0, 1)>>,
   <<MonoIn(0, 0, 2), MonoIn(1, 1, 0), MonoIn(0, 0, 1)>>}

Lookup == INSTANCE MonomialLookup WITH
  Bases <- {[i \in 1..3 |-> [mono |-> monos[i], terms |-> terms[i], ratio |-> quotients[i],
                             sig |-> 4 - i]] :
              monos \in LookupMonos, terms \in {<<1, 1, 2>>, <<2, 1, 1>>},
              quotients \in {<<1, 1, 1>>, <<1, 2, 1>>, <<2, 1, 1>>}},
  Queries <- {[mono |-> MonoIn(0, 1, 2), ratio |-> 2], [mono |-> MonoIn(0, 0, 1), ratio |-> 3]},
  MaxDivisors <- 2

----------------------------------------------------------------------------
(* Elements in increasing signature, as the algorithm inserts them *)
Signed(c, x, y, lead) == [sig |-> [c |-> c, m |-> <<x, y>>], lead |-> lead]

Queue == INSTANCE SigSPairQueue WITH
  options <- order, GB <- elements, toCome <- toInsert,
  Orders <- [componentFirst : BOOLEAN, ascending : {TRUE}],
  Elements <- {<<Signed(0, 0, 0, <<2, 0>>), Signed(1, 0, 0, <<1, 1>>),
                 Signed(1, 1, 0, <<0, 2>>), Signed(1, 2, 0, <<1, 0>>)>>,
               <<Signed(0, 0, 0, <<1, 2>>), Signed(1, 0, 0, <<2, 1>>),
                 Signed(2, 0, 0, <<0, 3>>), Signed(2, 2, 0, <<1, 1>>)>>}

----------------------------------------------------------------------------
(* Every short text of letters and newlines, and of digits with a sign *)
Seqs(S, n) == UNION {[1..k -> S] : k \in 0..n}

MCTexts ==
  Seqs({"a", "b", "\n"}, 3)
    \cup {<<"a", "b", "a", "b">>, <<"a", "a", "b", "b">>, <<"-", " ", "1">>}
    \cup {<<sign>> \o digits : sign \in {"-", " "}, digits \in Seqs({"0", "1", "7", "8"}, 2)}
    \cup Seqs({"1", "5"}, 2)

Text == INSTANCE Scanner WITH
  Texts <- MCTexts, BufferSize <- 1,
  Words <- {<<"a">>, <<"a", "b">>, <<"a", "b", "b">>}, Widths <- {4}

----------------------------------------------------------------------------
(* The tokens of MathicIO *)
White == <<"white", "">>
Word(w) == <<"word", w>>
Plus == <<"sign", "+">>
Minus == <<"sign", "-">>
Less == <<"mark", "<">>
Greater == <<"mark", ">">>
Letter(v) == <<"letter", v>>
Number(n) == <<"number", n>>

(* Rings of two variables over the integers modulo 5, of all the ways to   *)
(* give an order                                                           *)
RingTexts ==
  {<<Number(5), White, Number(2), White>> \o start \o gradings \o <<White>> \o end :
     start \in {<<>>, <<Word("lex")>>, <<Word("schreyer"), White, Word("revlex")>>},
     gradings \in {<<Number(0)>>, <<Number(1), White, Word("component")>>,
                   <<Number(1), White, Number(1), White, Minus, Number(1)>>,
                   <<Number(2), Word("revcomponent"), Number(1), White, Number(0)>>,
                   <<Number(2), Word("component"), Word("component")>>},
     end \in {<<>>, <<Word("_lex"), White>>,
              <<Word("_revlex"), White, Word("revcomponent"), White>>}}

(* Up to three tokens, numbers being apart *)
PolyTexts ==
  {s \in UNION {[1..n -> {White, Plus, Minus, Number(0), Number(1), Number(7), Letter(1),
                          Letter(2), Letter(3), Less, Greater}] : n \in 1..3} :
     \A i \in 1 .. Len(s) - 1 : s[i][1] # "number" \/ s[i + 1][1] # "number"}

ModuleTexts ==
  {<<Letter(1), Less, Number(1), Greater>> \o s :
     s \in {<<Less, Number(0), Greater>>, <<Plus, Number(7), Less, Number(1), Greater>>,
            <<Minus, Letter(2), Number(7), Less, Minus, Number(1), Greater, White>>}}

FormatTexts ==
  {ring \o <<Number(1), White>> \o p :
     ring \in RingTexts, p \in ModuleTexts \cup {<<Letter(1), Plus, Letter(2)>>}}
  \cup {<<Number(5), White, Number(2), White, Number(0), White, Number(1), White>> \o p :
          p \in PolyTexts}
  \cup {<<Number(p), White, Number(2), White, Number(0), White, Number(0)>> : p \in {0, 1, 4}}

Power(coef, x, y) == [coef |-> coef, mono |-> [component |-> 0, exponents |-> <<x, y>>]]

(* 4 is -1, and 3 is -2. *)
FormatDocuments ==
  {[charac |-> 5, varCount |-> 2, basis |-> <<p, q>>,
    order |-> [schreyering |-> schreyering, lex |-> lex, gradings |-> gradings,
               componentBefore |-> place, ascending |-> ascending]] :
     schreyering, lex, ascending \in BOOLEAN, place \in {-1, 0, 2},
     gradings \in {<<<<1, 1>>, <<1, 0>>>>, <<<<2, 1>>, <<0, -1>>>>},
     p \in {<<Power(1, 0, 0)>>, <<Power(2, 0, 0)>>, <<Power(4, 1, 2), Power(3, 0, 0)>>,
            <<Power(1, 1, 1), Power(1, 0, 0)>>},
     q \in {<<>>, <<Power(1, 1, 0)>>}}

Format == INSTANCE MathicIO WITH
  text <- tokens, Texts <- FormatTexts, Documents <- FormatDocuments,
  WithComponents <- {[ring |-> TRUE, basis |-> FALSE], [ring |-> TRUE, basis |-> TRUE]}

----------------------------------------------------------------------------
Action == INSTANCE MCMatrixAction WITH Debug <- TRUE

----------------------------------------------------------------------------
Init ==
  /\ part \in {"monoid", "library", "matrix", "field", "ranks", "table", "builder",
               "reducer", "lookup", "queue", "scanner", "format", "action"}
  /\ IF part = "monoid" THEN Monoid!Init ELSE monoid = Idle /\ a = Idle /\ b = Idle
  /\ IF part = "library" THEN Library!Init
     ELSE /\ conf = Idle /\ checker = Idle /\ exponents = Idle /\ monomial = Idle
          /\ poly = Idle /\ basis = Idle /\ sent = Idle /\ phase = Idle
          /\ lastAction = Idle /\ adapter = Idle /\ out = Idle
  /\ IF part = "matrix" THEN Matrix!Init ELSE mem = Idle /\ matrix = Idle /\ rows = Idle
  /\ IF part = "field" THEN Field!Init
     ELSE shape = Idle /\ modulus = Idle /\ charac = Idle /\ coefficient = Idle /\ exact = Idle
  /\ IF part = "ranks" THEN Ranks!Init ELSE ratios = Idle /\ ranks = Idle
  /\ IF part = "table" THEN Table!Init
     ELSE buckets = Idle /\ maxSize = Idle /\ size = Idle /\ sums = Idle
  /\ IF part = "builder" THEN Builder!Init
     ELSE /\ building = Idle /\ asked = Idle /\ mTodo = Idle /\ mMap = Idle
          /\ known = Idle /\ work = Idle /\ builders = Idle /\ quad = Idle
  /\ IF part = "reducer" THEN F4!Init
     ELSE /\ calls = Idle /\ store = Idle /\ mMatrixSaveCount = Idle /\ disk = Idle
          /\ reducedOut = Idle /\ last = Idle /\ made = Idle
  /\ IF part = "lookup" THEN Lookup!Init
     ELSE /\ options = Idle /\ toCome = Idle /\ entries = Idle /\ mLookup = Idle
          /\ monoSet = Idle /\ added = Idle /\ query = Idle /\ todo = Idle /\ found = Idle
  /\ IF part = "queue" THEN Queue!Init
     ELSE /\ order = Idle /\ elements = Idle /\ toInsert = Idle /\ columns = Idle
          /\ popped = Idle /\ pending = Idle /\ first = Idle
  /\ IF part = "scanner" THEN Text!Init
     ELSE text = Idle /\ scanner = Idle /\ taken = Idle /\ before = Idle /\ said = Idle
  /\ IF part = "format" THEN Format!Init
     ELSE /\ stage = Idle /\ modules = Idle /\ tokens = Idle /\ document = Idle
          /\ written = Idle
  /\ IF part = "action" THEN Action!Init
     ELSE files = Idle /\ arguments = Idle /\ finished = Idle

Next ==
  /\ UNCHANGED part
  /\ IF part = "monoid" THEN Monoid!Next ELSE UNCHANGED MonoidVars
  /\ IF part = "library" THEN Library!Next ELSE UNCHANGED LibraryVars
  /\ IF part = "matrix" THEN Matrix!Next ELSE UNCHANGED MatrixVars
  /\ IF part = "field" THEN Field!Next ELSE UNCHANGED FieldVars
  /\ IF part = "ranks" THEN Ranks!Next ELSE UNCHANGED RankVars
  /\ IF part = "table" THEN Table!Next ELSE UNCHANGED TableVars
  /\ IF part = "builder" THEN Builder!Next ELSE UNCHANGED BuilderVars
  /\ IF part = "reducer" THEN F4!Next ELSE UNCHANGED ReducerVars
  /\ IF part = "lookup" THEN Lookup!Next ELSE UNCHANGED LookupVars
  /\ IF part = "queue" THEN Queue!Next ELSE UNCHANGED QueueVars
  /\ IF part = "scanner" THEN Text!Next ELSE UNCHANGED ScannerVars
  /\ IF part = "format" THEN Format!Next ELSE UNCHANGED FormatVars
  /\ IF part = "action" THEN Action!Next ELSE UNCHANGED ActionVars

Spec == Init /\ [][Next]_vars

----------------------------------------------------------------------------
(* Monomials keep their data, compare as their order says, also in other   *)
(* layouts, and pass the checks of products and of capacity rightly.       *)
MonomialsAreRight ==
  part = "monoid" =>
    /\ Monoid!TypeOK /\ Monoid!DataMatchExponents
    /\ Monoid!CompareIsOrder /\ Monoid!CopiesCompareAlike
    /\ Monoid!HintTrueAgrees /\ Monoid!AmpleCapacitySuffices
    /\ Monoid!QueriesAgree /\ Monoid!CopiesAnswerAlike

(* The library computes with what the client has sent and in the order it  *)
(* asked for, and sends it all of the result in the order of the protocol. *)
LibraryKeepsItsWord ==
  part = "library" =>
    /\ Library!TypeOK /\ Library!BasisIsSent /\ Library!BasisDescends
    /\ Library!ClaimsAreKept /\ Library!OrderIsGlobal /\ Library!VariablesAsNamed
    /\ Library!OutputFollowsProtocol /\ Library!MatrixModulusFits

(* The rows of sparse matrices are those appended, while blocks of memory  *)
(* are grown, chained, taken over, copied and written to files.            *)
MatricesKeepRows ==
  part = "matrix" => Matrix!TypeOK /\ Matrix!RowsAsAppended /\ Matrix!WholeChainIsCounted

(* A modulus is accepted exactly if it is prime and small enough, and then *)
(* all operations in words of fixed width are exact.                       *)
CoefficientsAreExact ==
  part = "field" => Field!ModulusAccepted /\ Field!FieldIsExact

(* Ranks compare as ratios do, and a new one always finds room; with them, *)
(* the queue returns the S-pairs in the order of their signatures.         *)
SignaturesInOrder ==
  /\ part = "ranks" => Ranks!RanksCompareRatios /\ Ranks!SpreadingMakesRoom
  /\ part = "queue" => Queue!PopsSmallest

(* The hash table holds each monomial once, with the sum of its values;    *)
(* the lookups of divisors find the same in whatever order they look.      *)
LookupsFindAll ==
  /\ part = "table" => Table!TableHoldsSums
  /\ part = "lookup" => Lookup!SetRemembersAll /\ Lookup!AnswersIgnoreOrder

(* Whichever threads append the rows and create the columns, the matrix is *)
(* the one that was asked for; reduced, it yields polynomials that         *)
(* generate the same, and the files hold the matrices in their order.  A   *)
(* debug build of mgb reduces such files to what they should be.           *)
MatricesAreAsAsked ==
  /\ part = "builder" => Builder!MatrixIsAsAsked
  /\ part = "reducer" =>
       /\ F4!ResultsGenerateTheSame /\ F4!ResultsAreReduced /\ F4!FilesAreNumbered
  /\ part = "action" => Action!ReducedFormIsOfMatrix

(* The scanner loses no character and answers what the text says.          *)
AnswersFitText == part = "scanner" => Text!NothingLost /\ Text!AnswersFitText

(* What is written is read back as it was.                                 *)
TextKeepsDocument == part = "format" => Format!TextKeepsDocument

(* SparseMatrix.hpp:105: "Returns the number of entries in the whole       *)
(* matrix", all of its blocks included.                                    *)
EntriesAreCounted == part = "matrix" => Matrix!EntryCountIsSum

(* StaticMonoMap.hpp:272, SigPolyBasis.cpp:325: of elements that lead to   *)
(* the same monomial in a signature the one with fewer terms is selected.  *)
SparserIsSelected == part = "lookup" => Lookup!SparserIsSelected

(* mathicgb.h:275: "If callback is null then no function will be called."  *)
NullIsNotCalled == part = "library" => Library!NullIsNotCalled
=============================================================================
