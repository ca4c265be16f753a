-------------------------- MODULE SourceGraph_proofs --------------------------
(***************************************************************************)
(* The index of the sources, for any files, texts and number of edits:     *)
(* what an incremental build takes over is what a full one would link,     *)
(* except what a build read, as it linked, as another text than recorded.  *)
(***************************************************************************)
EXTENDS SourceGraph, WellFoundedInduction, TLAPS

-----------------------------------------------------------------------------
(* Walks: the least set that is closed under some steps.                   *)

LEMMA ReachedHolds ==
    ASSUME NEW files \in SUBSET Sources, NEW steps
    PROVE  files \subseteq Reached(files, steps) /\ Reached(files, steps) \subseteq Sources
BY DEF Reached

LEMMA ReachedIsClosed ==
    ASSUME NEW files, NEW steps \in SUBSET (Sources \X Sources),
           NEW p \in steps, p[1] \in Reached(files, steps)
    PROVE  p[2] \in Reached(files, steps)
<1>1. p[2] \in Sources
  OBVIOUS
<1>2. ASSUME NEW S \in SUBSET Sources, files \subseteq S,
             \A q \in steps : q[1] \in S => q[2] \in S
      PROVE  p[2] \in S
  <2>1. p[1] \in S
    BY <1>2 DEF Reached
  <2> QED
    BY <2>1, <1>2
<1> QED
  BY <1>1, <1>2 DEF Reached

LEMMA ReachedIsLeast ==
    ASSUME NEW files, NEW steps, NEW S \in SUBSET Sources, files \subseteq S,
           \A p \in steps : p[1] \in S => p[2] \in S
    PROVE  Reached(files, steps) \subseteq S
BY DEF Reached

(* More to start from leads to more. *)
LEMMA ReachedGrows ==
    ASSUME NEW steps \in SUBSET (Sources \X Sources),
           NEW files \in SUBSET Sources, NEW more \in SUBSET Sources,
           files \subseteq Reached(more, steps)
    PROVE  Reached(files, steps) \subseteq Reached(more, steps)
<1>1. Reached(more, steps) \in SUBSET Sources
  BY ReachedHolds
<1>2. \A p \in steps : p[1] \in Reached(more, steps) => p[2] \in Reached(more, steps)
  BY ReachedIsClosed
<1> HIDE DEF Reached
<1> QED
  BY <1>1, <1>2, ReachedIsLeast

(* Steps that differ only elsewhere lead to the same.                      *)
LEMMA ReachedAlike ==
    ASSUME NEW files \in SUBSET Sources,
           NEW s1 \in SUBSET (Sources \X Sources), NEW s2 \in SUBSET (Sources \X Sources),
           \A p \in Sources \X Sources :
               p[1] \in Reached(files, s1) => (p \in s1 <=> p \in s2)
    PROVE  Reached(files, s2) = Reached(files, s1)
<1> DEFINE R1 == Reached(files, s1)  R2 == Reached(files, s2)
<1>1. R1 \in SUBSET Sources /\ R2 \in SUBSET Sources /\ files \subseteq R1 /\ files \subseteq R2
  BY ReachedHolds
<1>2. R2 \subseteq R1
  <2>1. \A p \in s2 : p[1] \in R1 => p[2] \in R1
    BY ReachedIsClosed
  <2> HIDE DEF R1, R2
  <2>2. Reached(files, s2) \subseteq R1
    BY <1>1, <2>1, ReachedIsLeast
  <2> QED
    BY <2>2 DEF R2
<1>3. R1 \subseteq R2
  <2>1. ASSUME NEW p \in s1, p[1] \in R2 PROVE p[2] \in R2
    <3>1. p[1] \in R1
      BY <2>1, <1>2
    <3>2. p \in s2
      BY <3>1
    <3> QED
      BY <3>2, <2>1, ReachedIsClosed
  <2> HIDE DEF R1, R2
  <2>2. Reached(files, s1) \subseteq R2
    BY <1>1, <2>1, ReachedIsLeast
  <2> QED
    BY <2>2 DEF R1
<1> QED
  BY <1>2, <1>3

(* Steps that are there elsewhere, too, lead there as well.                *)
LEMMA ReachedElsewhere ==
    ASSUME NEW files \in SUBSET Sources,
           NEW s1 \in SUBSET (Sources \X Sources), NEW s2 \in SUBSET (Sources \X Sources),
           \A p \in s1 : p[1] \in Reached(files, s1) => p \in s2
    PROVE  Reached(files, s1) \subseteq Reached(files, s2)
<1> DEFINE both == Reached(files, s1) \cap Reached(files, s2)
<1>1. both \in SUBSET Sources /\ files \subseteq both
  BY ReachedHolds
<1>2. ASSUME NEW p \in s1, p[1] \in both PROVE p[2] \in both
  <2>1. p[1] \in Reached(files, s1) /\ p[1] \in Reached(files, s2) /\ p \in s2
    BY <1>2
  <2>2. p[2] \in Reached(files, s1)
    BY <2>1, ReachedIsClosed
  <2>3. p[2] \in Reached(files, s2)
    BY <2>1, ReachedIsClosed
  <2> QED
    BY <2>2, <2>3
<1>3. Reached(files, s1) \subseteq both
  <2> HIDE DEF both
  <2> QED
    BY <1>1, <1>2, ReachedIsLeast
<1> QED
  BY <1>3

-----------------------------------------------------------------------------
(* What a specifier means.                                                 *)

(* A set of naturals that is not empty has a least element.                *)
Before == {p \in Nat \X Nat : p[1] < p[2]}
LEMMA BeforeIsWellFounded == IsWellFoundedOn(Before, Nat)
<1>1. Before = OpToRel(<, Nat)
  BY DEF Before, OpToRel
<1> QED
  BY <1>1, NatLessThanWellFounded
LEMMA FirstOf == ASSUME NEW T \in SUBSET Nat, T # {}
               PROVE  \E n \in T : \A o \in T : n <= o
<1>1. PICK n \in T : \A o \in T : ~(<<o, n>> \in Before)
  BY BeforeIsWellFounded, WFMin
<1>2. ASSUME NEW o \in T PROVE n <= o
  <2>1. o \in Nat /\ n \in Nat
    OBVIOUS
  <2>2. ~(<<o, n>> \in Before)
    BY <1>1
  <2>3. ~(o < n)
    BY <2>1, <2>2 DEF Before
  <2> QED
    BY <2>1, <2>3
<1> QED
  BY <1>2

FactsType == [Sources -> Texts \cup {NoSource}]
MeaningType == Texts \cup {NoSource}
SpecifierType == Specifiers \cup {NoSpecifier}

(* A specifier means a file that is known, or none. *)
LEMMA ResolvedType ==
    ASSUME NEW spec \in SpecifierType, NEW known, NEW alias \in MeaningType
    PROVE  Resolved(spec, known, alias) \in Sources \cup {NoSource}
<1> DEFINE meant == IF spec # Alias THEN spec
                    ELSE IF alias = NoSource THEN NoSpecifier ELSE alias.alias
           at == IF meant = NoSpecifier THEN {} ELSE
                 {i \in DOMAIN Candidates[meant] : Candidates[meant][i] \in known}
           first == CHOOSE i \in at : \A j \in at : i <= j
<1>1. meant \in SpecifierType
  BY DEF SpecifierType, MeaningType, Texts
<1>2. Resolved(spec, known, alias) = IF at = {} THEN NoSource ELSE Candidates[meant][first]
  BY DEF Resolved
<1> HIDE DEF meant
<1>3. CASE at # {}
  <2>1. meant \in Specifiers /\ Candidates[meant] \in Seq(Sources)
    BY <1>1, <1>3, GraphAssumption DEF SpecifierType
  <2>2. at \in SUBSET (DOMAIN Candidates[meant])
    BY <1>3
  <2>3. at \in SUBSET Nat
    BY <2>1, <2>2
  <2>4. \E i \in at : \A j \in at : i <= j
    BY <1>3, <2>3, FirstOf
  <2> HIDE DEF at
  <2>5. first \in at
    BY <2>4
  <2> HIDE DEF first
  <2>6. Candidates[meant][first] \in Sources
    BY <2>1, <2>2, <2>5
  <2> QED
    BY <2>6, <1>2
<1>4. CASE at = {}
  BY <1>4, <1>2
<1> QED
  BY <1>3, <1>4

(* What gives the alias its meaning matters to the alias alone. *)
LEMMA AliasAlone ==
    ASSUME NEW spec, NEW known, NEW a1, NEW a2, spec # Alias \/ a1 = a2
    PROVE  Resolved(spec, known, a1) = Resolved(spec, known, a2)
<1> DEFINE meant(a) == IF spec # Alias THEN spec
                       ELSE IF a = NoSource THEN NoSpecifier ELSE a.alias
           at(m) == IF m = NoSpecifier THEN {} ELSE
                    {i \in DOMAIN Candidates[m] : Candidates[m][i] \in known}
           first(m) == IF at(m) = {} THEN NoSource
                       ELSE Candidates[m][CHOOSE i \in at(m) : \A j \in at(m) : i <= j]
<1>1. meant(a1) = meant(a2)
  OBVIOUS
<1>2. Resolved(spec, known, a1) = first(meant(a1)) /\ Resolved(spec, known, a2) = first(meant(a2))
  BY DEF Resolved
<1> HIDE DEF meant, first
<1> QED
  BY <1>1, <1>2

LEMMA TextsOf ==
    ASSUME NEW facts \in FactsType, NEW f \in Sources, facts[f] # NoSource
    PROVE  /\ facts[f] \in Texts
           /\ facts[f].imports \in SpecifierType /\ facts[f].forwards \in SpecifierType
           /\ facts[f].declares \in BOOLEAN
BY DEF FactsType, Texts, SpecifierType

-----------------------------------------------------------------------------
(* Links.                                                                  *)

(* The edges of a file. *)
From(edges, f) == {e \in edges : e[1] = f}

LEMMA DependsShape ==
    ASSUME NEW f \in Sources, NEW text \in Texts, NEW known, NEW alias \in MeaningType
    PROVE  /\ Depends(f, text, known, alias) \in SUBSET (Sources \X Sources \X BOOLEAN)
           /\ \A d \in Depends(f, text, known, alias) : d[1] = f
           /\ Resolved(text.imports, known, alias) \in Sources =>
                \E d \in Depends(f, text, known, alias) : d[2] = Resolved(text.imports, known, alias)
           /\ Resolved(text.forwards, known, alias) \in Sources =>
                \E d \in Depends(f, text, known, alias) :
                    d[3] /\ d[2] = Resolved(text.forwards, known, alias)
<1> DEFINE imported == Resolved(text.imports, known, alias)
           passed == Resolved(text.forwards, known, alias)
           all == ({imported} \ {NoSource}) \cup ({passed} \ {NoSource})
           mark(g) == g \in {passed} \ {NoSource}
           edge(g) == <<f, g, mark(g)>>
<1>1. text.imports \in SpecifierType /\ text.forwards \in SpecifierType
  BY DEF Texts, SpecifierType
<1>2. imported \in Sources \cup {NoSource} /\ passed \in Sources \cup {NoSource}
  BY <1>1, ResolvedType
<1>3. Depends(f, text, known, alias) = {edge(g) : g \in all}
  BY DEF Depends
<1> HIDE DEF imported, passed
<1>4. \A g \in Sources : /\ edge(g) \in Sources \X Sources \X BOOLEAN
                         /\ edge(g)[1] = f /\ edge(g)[2] = g /\ edge(g)[3] = mark(g)
  <2>1. \A g \in Sources : mark(g) \in BOOLEAN
    <3>1. TAKE g \in Sources
    <3> QED
      BY SMT
  <2> HIDE DEF mark
  <2> QED
    BY <2>1
<1>5. all \subseteq Sources
  BY <1>2
<1>6. \A d \in Depends(f, text, known, alias) : \E g \in all : d = edge(g)
  BY <1>3
<1>7. \A g \in all : edge(g) \in Depends(f, text, known, alias)
  BY <1>3
<1>8. passed \in Sources => edge(passed)[3]
  BY GraphAssumption
<1>9. (imported \in Sources => imported \in all) /\ (passed \in Sources => passed \in all)
  BY GraphAssumption
<1> HIDE DEF edge, all
<1>10. Depends(f, text, known, alias) \subseteq Sources \X Sources \X BOOLEAN
  BY <1>4, <1>5, <1>6
<1>11. \A d \in Depends(f, text, known, alias) : d[1] = f
  BY <1>4, <1>5, <1>6
<1>12. imported \in Sources => \E d \in Depends(f, text, known, alias) : d[2] = imported
  BY <1>4, <1>7, <1>9
<1>13. passed \in Sources => \E d \in Depends(f, text, known, alias) : d[3] /\ d[2] = passed
  BY <1>4, <1>7, <1>8, <1>9
<1> QED
  BY <1>10, <1>11, <1>12, <1>13 DEF imported, passed

LEMMA CallsShape ==
    ASSUME NEW f \in Sources, NEW text \in Texts, NEW known, NEW facts, NEW alias \in MeaningType
    PROVE  /\ CallsOf(f, text, known, facts, alias) \in SUBSET (Sources \X Sources)
           /\ \A c \in CallsOf(f, text, known, facts, alias) :
                /\ c[1] = f
                /\ Resolved(text.imports, known, alias) \in Sources
                /\ c[2] \in Asked(Resolved(text.imports, known, alias), known, facts, alias)
<1> DEFINE from == Resolved(text.imports, known, alias)
           all == Declaring(from, known, facts, alias)
<1>1. from \in Sources \cup {NoSource}
  BY ResolvedType DEF Texts, SpecifierType
<1>2. all \subseteq Asked(from, known, facts, alias)
  BY DEF Declaring
<1>3. Asked(from, known, facts, alias) \subseteq Sources
  BY DEF Asked, Reached
<1>4. CallsOf(f, text, known, facts, alias)
        = IF from \in {NoSource, f} THEN {} ELSE {<<f, to>> : to \in all}
  BY DEF CallsOf
<1> HIDE DEF from, all
<1>5. \A c \in CallsOf(f, text, known, facts, alias) :
         from \in Sources /\ \E to \in all : c = <<f, to>>
  BY <1>1, <1>4
<1> QED
  BY <1>2, <1>3, <1>5 DEF from

(* A link depends on the files its search asks, and on no other. *)
LEMMA CallsAgree ==
    ASSUME NEW f \in Sources, NEW text \in Texts, NEW known,
           NEW facts1 \in FactsType, NEW facts2 \in FactsType,
           NEW a1 \in MeaningType, NEW a2 \in MeaningType,
           Resolved(text.imports, known, a1) = Resolved(text.imports, known, a2),
           Resolved(text.imports, known, a1) \in Sources =>
             \A g \in Asked(Resolved(text.imports, known, a1), known, facts1, a1) :
                /\ facts2[g] = facts1[g]
                /\ facts1[g] # NoSource /\ ~facts1[g].declares =>
                     Resolved(facts1[g].forwards, known, a1) = Resolved(facts1[g].forwards, known, a2)
    PROVE  CallsOf(f, text, known, facts2, a2) = CallsOf(f, text, known, facts1, a1)
<1> DEFINE from == Resolved(text.imports, known, a1)
           s1 == Forwarding(known, facts1, a1)
           s2 == Forwarding(known, facts2, a2)
<1>1. from \in Sources \cup {NoSource}
  BY ResolvedType DEF Texts, SpecifierType
<1>2. CASE from \in Sources
  <2>1. \A p \in Sources \X Sources :
            p[1] \in Reached({from}, s1) => (p \in s1 <=> p \in s2)
    <3>1. \A g \in Reached({from}, s1) :
             /\ facts2[g] = facts1[g]
             /\ facts1[g] # NoSource /\ ~facts1[g].declares =>
                  Resolved(facts1[g].forwards, known, a1) = Resolved(facts1[g].forwards, known, a2)
      BY <1>2 DEF Asked
    <3>2. \A p \in Sources \X Sources :
             /\ p \in s1 <=> /\ facts1[p[1]] # NoSource /\ ~facts1[p[1]].declares
                             /\ p[2] = Resolved(facts1[p[1]].forwards, known, a1)
             /\ p \in s2 <=> /\ facts2[p[1]] # NoSource /\ ~facts2[p[1]].declares
                             /\ p[2] = Resolved(facts2[p[1]].forwards, known, a2)
      BY DEF Forwarding
    <3> HIDE DEF s1, s2, from
    <3> QED
      BY <3>1, <3>2
  <2>2. s1 \in SUBSET (Sources \X Sources) /\ s2 \in SUBSET (Sources \X Sources)
    BY DEF Forwarding
  <2>3. {from} \in SUBSET Sources
    BY <1>2
  <2> HIDE DEF s1, s2, from
  <2>4. Reached({from}, s2) = Reached({from}, s1)
    BY <2>1, <2>2, <2>3, ReachedAlike
  <2>5. Asked(from, known, facts2, a2) = Asked(from, known, facts1, a1)
    BY <2>4 DEF Asked, s1, s2
  <2>6. \A g \in Asked(from, known, facts1, a1) : facts2[g] = facts1[g]
    BY <1>2 DEF from
  <2>7. Declaring(from, known, facts2, a2) = Declaring(from, known, facts1, a1)
    BY <2>5, <2>6 DEF Declaring
  <2>8. Resolved(text.imports, known, a2) = from
    BY DEF from
  <2> QED
    BY <2>7, <2>8 DEF CallsOf, from
<1>3. CASE from = NoSource
  BY <1>3 DEF CallsOf
<1> QED
  BY <1>1, <1>2, <1>3

(* What is linked with other facts, or with another meaning of the alias,  *)
(* than is said is linked as if with these, unless a link reads the        *)
(* meaning, or asks a file whose facts are others.                         *)
LEMMA LinkedWith ==
    ASSUME NEW files \in SUBSET Sources, NEW known, NEW facts \in FactsType, NEW said \in FactsType,
           NEW a1 \in MeaningType, NEW a2 \in MeaningType,
           a1 = a2 \/ ~Consulted(files, known, facts, a1),
           \A g \in files : facts[g] = said[g],
           \A g \in Sources : facts[g] \in {said[g], NoSource},
           NEW f \in files, said[f] # NoSource
    PROVE  /\ Depends(f, said[f], known, a1) = Depends(f, said[f], known, a2)
           /\ \/ CallsOf(f, said[f], known, facts, a1) = CallsOf(f, said[f], known, said, a2)
              \/ /\ Resolved(said[f].imports, known, a2) \in Sources
                 /\ \E h \in Asked(Resolved(said[f].imports, known, a2), known, said, a2) :
                       h \in AskedFor(files, known, facts, a1) /\ facts[h] # said[h]
<1> DEFINE from == Resolved(said[f].imports, known, a1)
           targets == {Resolved(facts[g].imports, known, a1) : g \in {g \in files : facts[g] # NoSource}}
                        \ {NoSource}
           asked == Asked(from, known, facts, a1)
           s1 == Forwarding(known, facts, a1)
           s2 == Forwarding(known, said, a2)
<1>1. facts[f] = said[f] /\ f \in Sources /\ said[f] \in Texts
      /\ said[f].imports \in SpecifierType /\ said[f].forwards \in SpecifierType
  BY TextsOf
<1>2. a1 = a2 \/ Alias \notin {said[f].imports, said[f].forwards}
  BY <1>1 DEF Consulted
<1>3. /\ Resolved(said[f].imports, known, a2) = from
      /\ Resolved(said[f].forwards, known, a1) = Resolved(said[f].forwards, known, a2)
  BY <1>2, AliasAlone
<1>4. Depends(f, said[f], known, a1) = Depends(f, said[f], known, a2)
  BY <1>3 DEF Depends
<1>5. from \in Sources \cup {NoSource}
  BY <1>1, ResolvedType
<1>6. from \in Sources => asked \subseteq AskedFor(files, known, facts, a1)
  <2>1. SUFFICES ASSUME from \in Sources PROVE asked \subseteq AskedFor(files, known, facts, a1)
    OBVIOUS
  <2>2. from \in targets
    BY <1>1, <2>1, GraphAssumption
  <2>3. AskedFor(files, known, facts, a1) = UNION {Asked(g, known, facts, a1) : g \in targets}
    BY DEF AskedFor
  <2> HIDE DEF targets, from
  <2> QED
    BY <2>2, <2>3
<1>7. asked \subseteq Sources
  BY DEF Asked, Reached
<1>8. ASSUME from \in Sources, NEW g \in asked, facts[g] # NoSource, ~facts[g].declares
      PROVE  Resolved(facts[g].forwards, known, a1) = Resolved(facts[g].forwards, known, a2)
  <2>1. a1 = a2 \/ facts[g].forwards # Alias
    BY <1>6, <1>8 DEF Consulted
  <2> QED
    BY <2>1, AliasAlone
<1> HIDE DEF asked
<1>9. CASE from \in Sources /\ \E h \in asked : facts[h] # said[h]
  <2>1. PICK h \in asked : facts[h] # said[h]
    BY <1>9
  <2>2. s1 \in SUBSET (Sources \X Sources) /\ s2 \in SUBSET (Sources \X Sources)
    BY DEF Forwarding
  <2>3. \A p \in s1 : p[1] \in Reached({from}, s1) => p \in s2
    <3>1. SUFFICES ASSUME NEW p \in s1, p[1] \in Reached({from}, s1) PROVE p \in s2
      OBVIOUS
    <3>2. /\ p \in Sources \X Sources /\ facts[p[1]] # NoSource /\ ~facts[p[1]].declares
          /\ p[2] = Resolved(facts[p[1]].forwards, known, a1)
      BY <3>1 DEF Forwarding
    <3>3. p[1] \in Sources /\ said[p[1]] = facts[p[1]]
      BY <3>2
    <3>4. p[1] \in asked
      BY <3>1 DEF asked, Asked
    <3>5. p[2] = Resolved(said[p[1]].forwards, known, a2)
      BY <1>8, <1>9, <3>2, <3>3, <3>4
    <3> QED
      BY <3>2, <3>3, <3>5 DEF Forwarding
  <2>4. {from} \in SUBSET Sources
    BY <1>9
  <2> HIDE DEF s1, s2, from
  <2>5. Reached({from}, s1) \subseteq Reached({from}, s2)
    BY <2>2, <2>3, <2>4, ReachedElsewhere
  <2>6. h \in Asked(from, known, said, a2)
    BY <2>1, <2>5 DEF asked, Asked, s1, s2
  <2> QED
    BY <1>3, <1>4, <1>6, <1>9, <2>1, <2>6
<1>10. CASE ~(from \in Sources /\ \E h \in asked : facts[h] # said[h])
  <2>1. from = Resolved(said[f].imports, known, a2)
    BY <1>3
  <2>2. from \in Sources => \A g \in asked :
           /\ said[g] = facts[g]
           /\ facts[g] # NoSource /\ ~facts[g].declares =>
                Resolved(facts[g].forwards, known, a1) = Resolved(facts[g].forwards, known, a2)
    BY <1>8, <1>10
  <2>3. CallsOf(f, said[f], known, said, a2) = CallsOf(f, said[f], known, facts, a1)
    BY <1>1, <2>1, <2>2, CallsAgree DEF asked
  <2> QED
    BY <1>4, <2>3
<1> QED
  BY <1>9, <1>10

(* Nothing that parses uses the alias. *)
AliasUnused(facts) ==
    \A f \in Sources : facts[f] # NoSource => Alias \notin {facts[f].imports, facts[f].forwards}

LEMMA MeaningUnused ==
    ASSUME NEW facts \in FactsType, NEW known, NEW a1 \in MeaningType, NEW a2 \in MeaningType,
           a1 = a2 \/ AliasUnused(facts), NEW f \in Sources, facts[f] # NoSource
    PROVE  /\ Resolved(facts[f].imports, known, a1) = Resolved(facts[f].imports, known, a2)
           /\ Resolved(facts[f].forwards, known, a1) = Resolved(facts[f].forwards, known, a2)
           /\ Depends(f, facts[f], known, a1) = Depends(f, facts[f], known, a2)
           /\ CallsOf(f, facts[f], known, facts, a1) = CallsOf(f, facts[f], known, facts, a2)
<1>1. \A g \in Sources : facts[g] # NoSource =>
         /\ Resolved(facts[g].imports, known, a1) = Resolved(facts[g].imports, known, a2)
         /\ Resolved(facts[g].forwards, known, a1) = Resolved(facts[g].forwards, known, a2)
  BY AliasAlone DEF AliasUnused
<1>2. Depends(f, facts[f], known, a1) = Depends(f, facts[f], known, a2)
  BY <1>1 DEF Depends
<1>3. facts[f] \in Texts
  BY TextsOf
<1>4. Asked(Resolved(facts[f].imports, known, a1), known, facts, a1) \subseteq Sources
  BY DEF Asked, Reached
<1>5. CallsOf(f, facts[f], known, facts, a2) = CallsOf(f, facts[f], known, facts, a1)
  BY <1>1, <1>3, <1>4, CallsAgree
<1> QED
  BY <1>1, <1>2, <1>5

(* So it means the same in all of them. *)
SameMeaning(facts, known, a1, a2) == \A f \in Sources : facts[f] # NoSource =>
    /\ Resolved(facts[f].imports, known, a1) = Resolved(facts[f].imports, known, a2)
    /\ Resolved(facts[f].forwards, known, a1) = Resolved(facts[f].forwards, known, a2)
    /\ Depends(f, facts[f], known, a1) = Depends(f, facts[f], known, a2)
    /\ CallsOf(f, facts[f], known, facts, a1) = CallsOf(f, facts[f], known, facts, a2)
LEMMA MeaningSame ==
    ASSUME NEW facts, NEW known, NEW a1, NEW a2, facts \in FactsType,
           a1 \in MeaningType, a2 \in MeaningType, a1 = a2 \/ AliasUnused(facts)
    PROVE  SameMeaning(facts, known, a1, a2)
BY MeaningUnused DEF SameMeaning

(* The steps of the closure of importers, from a file to who forwards it.  *)
Forwarders(depends) == {<<e[2], e[1]>> : e \in {e \in depends : e[3]}}

LEMMA ImporterClosureIs ==
    ASSUME NEW depends \in SUBSET (Sources \X Sources \X BOOLEAN), NEW files
    PROVE  /\ Forwarders(depends) \in SUBSET (Sources \X Sources)
           /\ \A d \in depends : d[3] => <<d[2], d[1]>> \in Forwarders(depends)
           /\ \A f : f \in ImporterClosure(depends, files)
                       <=> \E d \in depends : d[1] = f /\ d[2] \in Reached(files, Forwarders(depends))
<1>1. Forwarders(depends) \in SUBSET (Sources \X Sources)
  BY DEF Forwarders
<1>2. \A d \in depends : d[3] => <<d[2], d[1]>> \in Forwarders(depends)
  BY DEF Forwarders
<1>3. ImporterClosure(depends, files)
        = {d[1] : d \in {e \in depends : e[2] \in Reached(files, Forwarders(depends))}}
  BY DEF ImporterClosure, Forwarders
<1> QED
  BY <1>1, <1>2, <1>3

LEMMA ImporterClosureGrows ==
    ASSUME NEW depends \in SUBSET (Sources \X Sources \X BOOLEAN),
           NEW files \in SUBSET Sources, NEW g \in files
    PROVE  ImporterClosure(depends, {g}) \subseteq ImporterClosure(depends, files)
<1>1. {g} \in SUBSET Sources /\ {g} \subseteq Reached(files, Forwarders(depends))
  BY ReachedHolds
<1>2. Reached({g}, Forwarders(depends)) \subseteq Reached(files, Forwarders(depends))
  BY <1>1, ReachedGrows, ImporterClosureIs
<1> QED
  BY <1>2, ImporterClosureIs

(* Who calls through a file is in the closure of its importers, where the  *)
(* dependencies are those of the texts.                                    *)
LEMMA AskedIsImported ==
    ASSUME NEW depends \in SUBSET (Sources \X Sources \X BOOLEAN),
           NEW facts \in FactsType, NEW known, NEW alias \in MeaningType,
           \A x \in Sources : facts[x] # NoSource =>
              From(depends, x) = Depends(x, facts[x], known, alias),
           NEW f \in Sources, facts[f] # NoSource,
           Resolved(facts[f].imports, known, alias) \in Sources,
           NEW g \in Asked(Resolved(facts[f].imports, known, alias), known, facts, alias)
    PROVE  g \in Sources /\ f \in ImporterClosure(depends, {g})
<1> DEFINE from == Resolved(facts[f].imports, known, alias)
           back == Forwarders(depends)
           S == {h \in Sources : from \in Reached({h}, back)}
<1>1. back \in SUBSET (Sources \X Sources)
  BY ImporterClosureIs
<1>2. from \in S
  BY ReachedHolds
<1>3. ASSUME NEW p \in Forwarding(known, facts, alias), p[1] \in S PROVE p[2] \in S
  <2>1. /\ p[1] \in Sources /\ p[2] \in Sources /\ facts[p[1]] # NoSource
        /\ p[2] = Resolved(facts[p[1]].forwards, known, alias)
    BY DEF Forwarding
  <2>2. facts[p[1]] \in Texts
    BY <2>1, TextsOf
  <2>3. PICK d \in Depends(p[1], facts[p[1]], known, alias) : d[3] /\ d[2] = p[2]
    BY <2>1, <2>2, DependsShape
  <2>4. d \in depends /\ d[1] = p[1]
    BY <2>1, <2>3 DEF From
  <2>5. <<p[2], p[1]>> \in back
    BY <2>3, <2>4, ImporterClosureIs
  <2> HIDE DEF back, from
  <2>6. p[2] \in Reached({p[2]}, back)
    BY <2>1, ReachedHolds
  <2>7. p[1] \in Reached({p[2]}, back)
    BY <1>1, <2>5, <2>6, ReachedIsClosed
  <2>8. Reached({p[1]}, back) \subseteq Reached({p[2]}, back)
    BY <1>1, <2>1, <2>7, ReachedGrows
  <2> QED
    BY <1>3, <2>1, <2>8
<1>4. g \in Reached({from}, Forwarding(known, facts, alias))
  BY DEF Asked
<1>5. S \in SUBSET Sources
  OBVIOUS
<1>6. PICK d \in Depends(f, facts[f], known, alias) : d[2] = from
  BY TextsOf, DependsShape
<1>7. d \in depends /\ d[1] = f
  BY <1>6 DEF From
<1> HIDE DEF S, from
<1>8. Reached({from}, Forwarding(known, facts, alias)) \subseteq S
  BY <1>2, <1>3, <1>5, ReachedIsLeast
<1>9. g \in Sources /\ d[2] \in Reached({g}, back)
  BY <1>4, <1>6, <1>8 DEF S
<1> QED
  BY <1>7, <1>9, ImporterClosureIs

-----------------------------------------------------------------------------
(* What builds read: the types, and what they have read when.              *)

KnownTexts ==
    /\ \A f \in Sources : tree[f] \in MayHold[f] \cup {NoSource}
    /\ graph # NoSource => \A f \in Sources : graph.hash[f] \in MayHold[f] \cup {NoSource}
    /\ \A f \in Sources : {build.found[f], build.read[f], build.target[f]}
                             \subseteq MayHold[f] \cup {NoSource, Unread}

(* What a build has read at each of its stages.                            *)
BuildKnows ==
    /\ build.stage = "idle" => build = NoBuild
    /\ build.stage # "idle" /\ ~build.full => graph # NoSource
    /\ build.stage \in {"analyzing", "linking"} => \A f \in Sources : build.found[f] # Unread
    /\ build.stage = "linking" => \A f \in Indexed : build.read[f] \notin {Unread, NoSource}

ReadingInv == GraphTypeOK /\ KnownTexts /\ BuildKnows

LEMMA NoBuildType ==
    /\ NoBuild \in Builds /\ NoBuild.stage = "idle"
    /\ NothingRead \in Readings /\ \A f \in Sources : NothingRead[f] = Unread
    /\ NoBuild.found = NothingRead /\ NoBuild.read = NothingRead /\ NoBuild.target = NothingRead
<1>1. NothingRead \in Readings /\ \A f \in Sources : NothingRead[f] = Unread
  BY DEF NothingRead, Readings
<1> QED
  BY <1>1 DEF NoBuild, Builds

LEMMA ReadingIs ==
    ASSUME NEW f \in Sources
    PROVE  /\ Reading("detecting")[f] = IF build.found[f] = Unread THEN tree[f] ELSE build.found[f]
           /\ Reading("analyzing")[f] = IF build.read[f] = Unread THEN tree[f] ELSE build.read[f]
           /\ Reading("linking")[f] = IF build.target[f] = Unread THEN tree[f] ELSE build.target[f]
<1>1. Field("detecting") = "found" /\ Field("analyzing") = "read" /\ Field("linking") = "target"
  BY DEF Field
<1>2. \A s : Reading(s)[f] = IF build[Field(s)][f] = Unread THEN tree[f] ELSE build[Field(s)][f]
  BY DEF Reading
<1> QED
  BY <1>1, <1>2

(* A reading in full holds every file.                                     *)
LEMMA ReadingType ==
    ASSUME GraphTypeOK, NEW s \in {"detecting", "analyzing", "linking"}
    PROVE  /\ Reading(s) \in Readings
           /\ \A f \in Sources : Reading(s)[f] # Unread
<1>1. \A f \in Sources : tree[f] \in Texts \cup {NoSource} /\ tree[f] # Unread
  BY GraphAssumption DEF GraphTypeOK, Trees
<1>2. \A f \in Sources : {build.found[f], build.read[f], build.target[f]}
                            \subseteq Texts \cup {NoSource, Unread}
  BY DEF GraphTypeOK, Builds, Readings
<1>3. \A f \in Sources : /\ Reading(s)[f] \in Texts \cup {NoSource, Unread}
                         /\ Reading(s)[f] # Unread
  BY <1>1, <1>2, ReadingIs
<1>4. Reading(s) = [f \in Sources |-> Reading(s)[f]]
  BY DEF Reading
<1> QED
  BY <1>3, <1>4 DEF Readings

(* What an edit does: the file may be read before it, in this phase.       *)
LEMMA EditSays ==
    ASSUME GraphTypeOK, NEW f \in Sources, NEW now \in Texts \cup {NoSource},
           EditSource(f, now)
    PROVE  /\ edits' = edits + 1 /\ edits' \in 0..MaxEdits /\ now # tree[f]
           /\ tree' = [tree EXCEPT ![f] = now] /\ tree' \in Trees
           /\ graph' = graph /\ missed' = missed
           /\ build' \in Builds /\ build'.stage = build.stage /\ build'.full = build.full
           /\ build'.hinted = build.hinted /\ build'.gone = build.gone
           /\ \/ build'.found = build.found
              \/ /\ build.stage = "detecting" /\ build.found[f] = Unread
                 /\ build'.found = [build.found EXCEPT ![f] = tree[f]]
           /\ \/ build'.read = build.read
              \/ /\ build.stage = "analyzing" /\ build.read[f] = Unread /\ tree[f] # NoSource
                 /\ build'.read = [build.read EXCEPT ![f] = tree[f]]
           /\ \/ build'.target = build.target
              \/ /\ build.stage = "linking" /\ build.target[f] = Unread /\ tree[f] # NoSource
                 /\ build'.target = [build.target EXCEPT ![f] = tree[f]]
           /\ build.stage = "idle" => build' = build
<1>1. /\ edits' = edits + 1 /\ edits' \in 0..MaxEdits /\ now # tree[f]
      /\ tree' = [tree EXCEPT ![f] = now] /\ tree' \in Trees
      /\ graph' = graph /\ missed' = missed
  BY GraphAssumption DEF EditSource, GraphTypeOK, Trees
<1>2. CASE UNCHANGED build
  BY <1>1, <1>2 DEF GraphTypeOK
<1>3. CASE /\ f \in Reads(build.stage) /\ build[Field(build.stage)][f] = Unread
           /\ tree[f] # NoSource \/ build.stage = "detecting"
           /\ build' = [build EXCEPT ![Field(build.stage)][f] = tree[f]]
  <2>1. build \in Builds /\ build.stage \in {"idle", "detecting", "analyzing", "linking"}
    BY DEF GraphTypeOK, Builds
  <2>2. build.stage # "idle"
    BY <1>3 DEF Reads
  <2>3. tree[f] \in Texts \cup {NoSource, Unread}
    BY DEF GraphTypeOK, Trees
  <2>4. CASE build.stage = "detecting"
    <3>1. Field(build.stage) = "found"
      BY <2>4 DEF Field
    <3>2. build' = [build EXCEPT !.found = [build.found EXCEPT ![f] = tree[f]]]
      BY <1>3, <2>1, <3>1 DEF Builds
    <3> QED
      BY <1>1, <1>3, <2>1, <2>3, <2>4, <3>1, <3>2 DEF Builds, Readings
  <2>5. CASE build.stage = "analyzing"
    <3>1. Field(build.stage) = "read"
      BY <2>5 DEF Field
    <3>2. build' = [build EXCEPT !.read = [build.read EXCEPT ![f] = tree[f]]]
      BY <1>3, <2>1, <3>1 DEF Builds
    <3> QED
      BY <1>1, <1>3, <2>1, <2>3, <2>5, <3>1, <3>2 DEF Builds, Readings
  <2>6. CASE build.stage = "linking"
    <3>1. Field(build.stage) = "target"
      BY <2>6 DEF Field
    <3>2. build' = [build EXCEPT !.target = [build.target EXCEPT ![f] = tree[f]]]
      BY <1>3, <2>1, <3>1 DEF Builds
    <3> QED
      BY <1>1, <1>3, <2>1, <2>3, <2>6, <3>1, <3>2 DEF Builds, Readings
  <2> QED
    BY <2>1, <2>2, <2>4, <2>5, <2>6
<1> QED
  BY <1>2, <1>3 DEF EditSource

(* What a build found decides what it does; later readings do not.         *)
LEMMA PlanUnchanged ==
    ASSUME graph' = graph, build'.found = build.found, build'.full = build.full,
           build'.hinted = build.hinted, build'.gone = build.gone
    PROVE  Indexed' = Indexed /\ Preserved' = Preserved
<1>1. ChangedSources' = ChangedSources /\ DeletedSources' = DeletedSources
  BY DEF ChangedSources, DeletedSources, FoundSources
<1>2. LinksAllAgain' = LinksAllAgain
  BY <1>1 DEF LinksAllAgain
<1>3. Relinked' = Relinked
  BY <1>1, <1>2 DEF Relinked
<1>4. Reparsed' = Reparsed
  BY <1>1, <1>3 DEF Reparsed, FoundSources
<1> QED
  BY <1>1, <1>4 DEF Indexed, Preserved, FoundSources

-----------------------------------------------------------------------------
(* What a build publishes.                                                 *)

Now == Reading("linking")
KnownFiles == Indexed \cup Preserved
TheFacts == TargetFacts(Indexed, Preserved, Now)
Meaning == IF Config \in KnownFiles THEN Now[Config] ELSE NoSource
NewHash == Recorded(Indexed, Preserved)
NewLinks == LinkedFrom(Indexed, KnownFiles, TheFacts, Meaning)
TheConsulted == Consulted(Indexed, KnownFiles, TheFacts, Meaning)
TheAsked == AskedFor(Indexed, KnownFiles, TheFacts, Meaning)
Needed == {f \in TheAsked \cap Preserved : NewHash[f].parses}
            \cup (IF TheConsulted THEN {Config} \cap KnownFiles ELSE {})
NewlyMissed == (IF build.full \/ LinksAllAgain THEN {}
                ELSE (missed \ ChangedSources) \cup {f \in Reparsed : build.read[f] # graph.hash[f]})
                 \cup {f \in Needed : Now[f] # NewHash[f]}
Configured == Config \in KnownFiles /\ ((~build.full /\ graph.configured) \/ TheConsulted)

LEMMA PublishSays ==
    ASSUME PublishGraph
    PROVE  /\ build.stage = "linking" /\ build' = NoBuild /\ tree' = tree /\ edits' = edits
           /\ missed' = NewlyMissed
           /\ graph'.hash = NewHash
           /\ graph'.depends = PreservedDepends \cup NewLinks.depends
           /\ graph'.calls = PreservedCalls \cup NewLinks.calls
           /\ graph'.configured \in BOOLEAN /\ graph'.configured = Configured
           /\ graph' = [hash |-> graph'.hash, depends |-> graph'.depends,
                        calls |-> graph'.calls, configured |-> graph'.configured]
<1>1. /\ build.stage = "linking" /\ build' = NoBuild /\ UNCHANGED <<tree, edits>>
      /\ missed' = NewlyMissed
      /\ graph' = [hash |-> NewHash, depends |-> PreservedDepends \cup NewLinks.depends,
                   calls |-> PreservedCalls \cup NewLinks.calls, configured |-> Configured]
  BY Zenon DEF PublishGraph, Now, KnownFiles, TheFacts, Meaning, NewHash, NewLinks,
               TheConsulted, TheAsked, Needed, NewlyMissed, Configured
<1>2. Configured \in BOOLEAN
  BY SMT DEF Configured
<1>3. /\ graph'.hash = NewHash /\ graph'.depends = PreservedDepends \cup NewLinks.depends
      /\ graph'.calls = PreservedCalls \cup NewLinks.calls /\ graph'.configured = Configured
  BY <1>1
<1> QED
  BY <1>1, <1>2, <1>3

LEMMA PlanType ==
    /\ Indexed \subseteq FoundSources /\ FoundSources \subseteq Sources
    /\ ChangedSources \subseteq Indexed
    /\ Preserved \subseteq FoundSources /\ Preserved \cap Indexed = {}
    /\ build.full => Preserved = {} /\ Indexed = FoundSources
    /\ \A f \in Preserved : graph.hash[f] # NoSource
BY DEF Indexed, Preserved, Reparsed, ChangedSources, FoundSources, Existing

LEMMA NeededType == Needed \subseteq Sources
BY PlanType, GraphAssumption DEF Needed

LEMMA ParsedIs ==
    ASSUME NEW t \in Trees
    PROVE  /\ Parsed(t) \in FactsType
           /\ \A f \in Sources : Parsed(t)[f] = IF t[f] # NoSource /\ t[f].parses
                                               THEN t[f] ELSE NoSource
BY DEF Parsed, FactsType, Trees

(* The edges a build links for some files. *)
LinkedEdges(links, files, known, facts, alias) ==
    /\ links.depends \in SUBSET (Sources \X Sources \X BOOLEAN)
    /\ links.calls \in SUBSET (Sources \X Sources)
    /\ \A d \in links.depends \cup links.calls : d[1] \in files /\ facts[d[1]] # NoSource
    /\ \A f \in files : facts[f] # NoSource =>
         /\ From(links.depends, f) = Depends(f, facts[f], known, alias)
         /\ From(links.calls, f) = CallsOf(f, facts[f], known, facts, alias)

LEMMA LinkedIs ==
    ASSUME NEW files \in SUBSET Sources, NEW known, NEW facts \in FactsType, NEW alias \in MeaningType,
           NEW links, links = LinkedFrom(files, known, facts, alias)
    PROVE  LinkedEdges(links, files, known, facts, alias)
<1> DEFINE parsed == {f \in files : facts[f] # NoSource}
           D(f) == Depends(f, facts[f], known, alias)
           C(f) == CallsOf(f, facts[f], known, facts, alias)
<1>1. links.depends = UNION {D(f) : f \in parsed} /\ links.calls = UNION {C(f) : f \in parsed}
  BY DEF LinkedFrom
<1>2. \A f \in parsed : /\ D(f) \in SUBSET (Sources \X Sources \X BOOLEAN)
                        /\ \A d \in D(f) : d[1] = f
  <2>1. SUFFICES ASSUME NEW f \in parsed
                 PROVE  /\ D(f) \in SUBSET (Sources \X Sources \X BOOLEAN)
                        /\ \A d \in D(f) : d[1] = f
    OBVIOUS
  <2>2. f \in Sources /\ facts[f] \in Texts
    BY TextsOf
  <2> QED
    BY <2>2, DependsShape
<1>3. \A f \in parsed : C(f) \in SUBSET (Sources \X Sources) /\ \A c \in C(f) : c[1] = f
  <2>1. SUFFICES ASSUME NEW f \in parsed
                 PROVE  C(f) \in SUBSET (Sources \X Sources) /\ \A c \in C(f) : c[1] = f
    OBVIOUS
  <2>2. f \in Sources /\ facts[f] \in Texts
    BY TextsOf
  <2> QED
    BY <2>2, CallsShape
<1>4. \A f \in files : f \in parsed <=> facts[f] # NoSource
  OBVIOUS
<1>5. parsed \subseteq files
  OBVIOUS
<1> HIDE DEF parsed, D, C
<1>6. \A d : d \in links.depends <=> \E f \in parsed : d \in D(f)
  BY <1>1
<1>7. \A d : d \in links.calls <=> \E f \in parsed : d \in C(f)
  BY <1>1
<1>8. /\ links.depends \in SUBSET (Sources \X Sources \X BOOLEAN)
      /\ links.calls \in SUBSET (Sources \X Sources)
  BY <1>2, <1>3, <1>6, <1>7
<1>9. \A d \in links.depends \cup links.calls : d[1] \in parsed
  BY <1>2, <1>3, <1>6, <1>7
<1>10. \A f \in parsed : From(links.depends, f) = D(f)
  BY <1>2, <1>6 DEF From
<1>11. \A f \in parsed : From(links.calls, f) = C(f)
  BY <1>3, <1>7 DEF From
<1>12. \A d \in links.depends \cup links.calls : d[1] \in files /\ facts[d[1]] # NoSource
  BY <1>4, <1>5, <1>9
<1> QED
  BY <1>4, <1>8, <1>10, <1>11, <1>12 DEF D, C, LinkedEdges

LEMMA PublishedTypes ==
    ASSUME ReadingInv, build.stage = "linking"
    PROVE  /\ NewHash \in Trees /\ Existing(NewHash) = KnownFiles
           /\ \A f \in Sources : NewHash[f] \in MayHold[f] \cup {NoSource}
           /\ TheFacts \in FactsType /\ Meaning \in MeaningType
           /\ KnownFiles \subseteq Sources /\ Indexed \subseteq Sources
<1>1. Indexed \subseteq Sources /\ KnownFiles \subseteq Sources /\ Preserved \cap Indexed = {}
  BY PlanType DEF KnownFiles
<1>2. \A f \in Indexed : build.read[f] \in MayHold[f]
  BY <1>1 DEF ReadingInv, BuildKnows, KnownTexts
<1>3. ASSUME NEW f \in Preserved PROVE graph.hash[f] \in MayHold[f]
  <2>1. graph # NoSource
    BY PlanType DEF ReadingInv, BuildKnows
  <2> QED
    BY <1>1, <2>1, PlanType DEF ReadingInv, KnownTexts, KnownFiles
<1>4. \A f \in Sources : MayHold[f] \subseteq Texts
  BY GraphAssumption
<1>5. \A f \in Sources : /\ f \in Indexed => NewHash[f] = build.read[f]
                         /\ f \in Preserved => NewHash[f] = graph.hash[f]
                         /\ f \notin KnownFiles => NewHash[f] = NoSource
  BY <1>1 DEF NewHash, Recorded, KnownFiles
<1>6. \A f \in Sources : /\ NewHash[f] \in MayHold[f] \cup {NoSource}
                         /\ f \in KnownFiles => NewHash[f] \in MayHold[f]
  BY <1>2, <1>3, <1>5 DEF KnownFiles
<1>7. NewHash \in Trees
  BY <1>4, <1>6 DEF NewHash, Recorded, Trees
<1>8. Existing(NewHash) = KnownFiles
  BY <1>1, <1>4, <1>5, <1>6, GraphAssumption DEF Existing
<1>9. TheFacts \in FactsType
  <2> DEFINE t == [f \in Sources |-> IF f \in Indexed THEN build.read[f]
                                     ELSE IF f \in Preserved /\ Now[f] = graph.hash[f]
                                          THEN graph.hash[f] ELSE NoSource]
  <2>1. t \in Trees
    BY <1>2, <1>3, <1>4 DEF Trees
  <2>2. TheFacts = Parsed(t)
    BY DEF TheFacts, TargetFacts
  <2> QED
    BY <2>1, <2>2, ParsedIs
<1>10. Meaning \in MeaningType
  BY ReadingType, GraphAssumption DEF ReadingInv, Meaning, Now, Readings, MeaningType
<1> QED
  BY <1>1, <1>6, <1>7, <1>8, <1>9, <1>10

-----------------------------------------------------------------------------
(* Types and readings are an invariant.                                    *)

LEMMA TextsType ==
    ASSUME NEW f \in Sources
    PROVE  /\ MayHold[f] \subseteq Texts
           /\ NoSource \notin MayHold[f] /\ Unread \notin MayHold[f] /\ NoSource # Unread
BY GraphAssumption

LEMMA ReadingInit == GraphInit => ReadingInv
<1> SUFFICES ASSUME GraphInit PROVE ReadingInv
  OBVIOUS
<1>1. build = NoBuild /\ graph = NoSource /\ missed = {} /\ edits = 0
  BY DEF GraphInit
<1>4. \A f \in Sources : tree[f] \in MayHold[f] \cup {NoSource}
  BY DEF GraphInit, Existing
<1>5. tree \in Trees
  BY <1>4, TextsType DEF GraphInit, Trees
<1>6. GraphTypeOK
  <2>1. edits \in 0..MaxEdits
    BY <1>1, GraphAssumption
  <2>2. build \in Builds /\ missed \in SUBSET Sources
    BY <1>1, NoBuildType
  <2> QED
    BY <1>1, <1>5, <2>1, <2>2 DEF GraphTypeOK
<1>7. KnownTexts
  BY <1>1, <1>4, NoBuildType DEF KnownTexts
<1>8. BuildKnows
  BY <1>1, NoBuildType DEF BuildKnows
<1> QED
  BY <1>6, <1>7, <1>8 DEF ReadingInv

LEMMA EditKeepsReadings ==
    ASSUME ReadingInv, NEW f \in Sources, NEW now \in MayHold[f] \cup {NoSource},
           EditSource(f, now)
    PROVE  ReadingInv'
<1>2. now \in Texts \cup {NoSource}
  BY GraphAssumption
<1> DEFINE Said ==
        /\ edits' = edits + 1 /\ edits' \in 0..MaxEdits /\ now # tree[f]
        /\ tree' = [tree EXCEPT ![f] = now] /\ tree' \in Trees
        /\ graph' = graph /\ missed' = missed
        /\ build' \in Builds /\ build'.stage = build.stage /\ build'.full = build.full
        /\ build'.hinted = build.hinted /\ build'.gone = build.gone
        /\ \/ build'.found = build.found
           \/ /\ build.stage = "detecting" /\ build.found[f] = Unread
              /\ build'.found = [build.found EXCEPT ![f] = tree[f]]
        /\ \/ build'.read = build.read
           \/ /\ build.stage = "analyzing" /\ build.read[f] = Unread /\ tree[f] # NoSource
              /\ build'.read = [build.read EXCEPT ![f] = tree[f]]
        /\ \/ build'.target = build.target
           \/ /\ build.stage = "linking" /\ build.target[f] = Unread /\ tree[f] # NoSource
              /\ build'.target = [build.target EXCEPT ![f] = tree[f]]
        /\ build.stage = "idle" => build' = build
<1>3. Said
  BY <1>2, EditSays DEF ReadingInv
<1>4. build \in Builds /\ tree \in Trees
  BY DEF ReadingInv, GraphTypeOK
<1>5. GraphTypeOK'
  BY <1>3 DEF ReadingInv, GraphTypeOK
<1>9. \A g \in Sources : tree'[g] = IF g = f THEN now ELSE tree[g]
  BY <1>3, <1>4 DEF Trees
<1>10. \A g \in Sources : /\ build'.found[g] \in {build.found[g], tree[g]}
                          /\ build'.read[g] \in {build.read[g], tree[g]}
                          /\ build'.target[g] \in {build.target[g], tree[g]}
                          /\ g # f => /\ build'.found[g] = build.found[g]
                                      /\ build'.read[g] = build.read[g]
                                      /\ build'.target[g] = build.target[g]
  BY <1>3, <1>4 DEF Builds, Readings
<1>11. \A g \in Sources : /\ tree[g] \in MayHold[g] \cup {NoSource}
                          /\ graph # NoSource => graph.hash[g] \in MayHold[g] \cup {NoSource}
                          /\ build.found[g] \in MayHold[g] \cup {NoSource, Unread}
                          /\ build.read[g] \in MayHold[g] \cup {NoSource, Unread}
                          /\ build.target[g] \in MayHold[g] \cup {NoSource, Unread}
  BY DEF ReadingInv, KnownTexts
<1>12. KnownTexts'
  <2>1. \A g \in Sources : tree'[g] \in MayHold[g] \cup {NoSource}
    BY <1>9, <1>11
  <2>2. graph' # NoSource => \A g \in Sources : graph'.hash[g] \in MayHold[g] \cup {NoSource}
    BY <1>3, <1>11
  <2>3. \A g \in Sources : {build'.found[g], build'.read[g], build'.target[g]}
                              \subseteq MayHold[g] \cup {NoSource, Unread}
    BY <1>10, <1>11
  <2> QED
    BY <2>1, <2>2, <2>3 DEF KnownTexts
<1>13. BuildKnows'
  <2>1. build'.stage = "idle" => build' = NoBuild
    BY <1>3 DEF ReadingInv, BuildKnows
  <2>2. build'.stage # "idle" /\ ~build'.full => graph' # NoSource
    BY <1>3 DEF ReadingInv, BuildKnows
  <2>3. build'.stage \in {"analyzing", "linking"} =>
           /\ build'.found = build.found
           /\ \A g \in Sources : build'.found[g] # Unread
    BY <1>3 DEF ReadingInv, BuildKnows
  <2>4. ASSUME build'.stage = "linking"
        PROVE  \A g \in Indexed' : build'.read[g] \notin {Unread, NoSource}
    <3>1. Indexed' = Indexed
      BY <1>3, <2>3, <2>4, PlanUnchanged
    <3>2. build'.read = build.read
      BY <1>3, <2>4
    <3> QED
      BY <1>3, <2>4, <3>1, <3>2 DEF ReadingInv, BuildKnows
  <2> QED
    BY <2>1, <2>2, <2>3, <2>4 DEF BuildKnows
<1> QED
  BY <1>5, <1>12, <1>13 DEF ReadingInv

(* A build that begins has read nothing, nor has one that ended.           *)
LEMMA FreshBuildKeepsReadings ==
    ASSUME ReadingInv, UNCHANGED <<tree, graph, edits>>, missed' \subseteq Sources, build' \in Builds,
           build'.found = NothingRead, build'.read = NothingRead, build'.target = NothingRead,
           \/ build' = NoBuild
           \/ build'.stage = "detecting" /\ (build'.full \/ graph # NoSource)
    PROVE  ReadingInv'
<1>1. GraphTypeOK'
  BY DEF ReadingInv, GraphTypeOK
<1>2. KnownTexts'
  BY NoBuildType DEF ReadingInv, KnownTexts
<1>3. build'.stage \in {"idle", "detecting"}
  BY NoBuildType
<1>4. BuildKnows'
  BY <1>3, NoBuildType DEF BuildKnows
<1> QED
  BY <1>1, <1>2, <1>4 DEF ReadingInv

LEMMA DetectedKeepsReadings == ReadingInv /\ Detected => ReadingInv'
<1> SUFFICES ASSUME ReadingInv, Detected PROVE ReadingInv'
  OBVIOUS
<1>1. /\ build.stage = "detecting" /\ UNCHANGED <<tree, graph, missed, edits>>
      /\ build' = [build EXCEPT !.found = Reading("detecting"), !.stage = "analyzing"]
  BY DEF Detected
<1>2. build \in Builds
  BY DEF ReadingInv, GraphTypeOK
<1>3. /\ Reading("detecting") \in Readings
      /\ \A f \in Sources : Reading("detecting")[f] # Unread
  BY ReadingType DEF ReadingInv
<1>4. /\ build' \in Builds /\ build'.stage = "analyzing" /\ build'.full = build.full
      /\ build'.found = Reading("detecting") /\ build'.read = build.read
      /\ build'.target = build.target
  BY <1>1, <1>2, <1>3 DEF Builds
<1>5. GraphTypeOK'
  BY <1>1, <1>4 DEF ReadingInv, GraphTypeOK
<1>6. KnownTexts'
  <2>1. \A f \in Sources : build'.found[f] \in {tree[f], build.found[f]}
    BY <1>4, ReadingIs
  <2> QED
    BY <1>1, <1>4, <2>1 DEF ReadingInv, KnownTexts
<1>7. BuildKnows'
  <2>1. ~build.full => graph # NoSource
    BY <1>1 DEF ReadingInv, BuildKnows
  <2> QED
    BY <1>1, <1>3, <1>4, <2>1 DEF BuildKnows
<1> QED
  BY <1>5, <1>6, <1>7 DEF ReadingInv

LEMMA AnalyzedKeepsReadings == ReadingInv /\ Analyzed => ReadingInv'
<1> SUFFICES ASSUME ReadingInv, Analyzed PROVE ReadingInv'
  OBVIOUS
<1> DEFINE read == Reading("analyzing")
           kept == [f \in Sources |-> IF f \in Indexed THEN read[f] ELSE Unread]
<1>1. /\ build.stage = "analyzing" /\ UNCHANGED <<tree, graph, missed, edits>>
      /\ \A f \in Indexed : read[f] # NoSource
      /\ build' = [build EXCEPT !.stage = "linking", !.read = kept]
  BY DEF Analyzed
<1>2. build \in Builds
  BY DEF ReadingInv, GraphTypeOK
<1>3. read \in Readings /\ \A f \in Sources : read[f] # Unread
  BY ReadingType DEF ReadingInv
<1>4. kept \in Readings
  BY <1>3 DEF Readings
<1>5. \A f \in Sources : /\ f \in Indexed => kept[f] = read[f]
                         /\ kept[f] \in {tree[f], build.read[f], Unread}
  BY ReadingIs
<1> HIDE DEF kept
<1>6. /\ build' \in Builds /\ build'.stage = "linking" /\ build'.full = build.full
      /\ build'.hinted = build.hinted /\ build'.gone = build.gone
      /\ build'.found = build.found /\ build'.read = kept /\ build'.target = build.target
  BY <1>1, <1>2, <1>4 DEF Builds
<1>7. GraphTypeOK'
  BY <1>1, <1>6 DEF ReadingInv, GraphTypeOK
<1>8. KnownTexts'
  BY <1>1, <1>5, <1>6 DEF ReadingInv, KnownTexts
<1>10. BuildKnows'
  <2>1. Indexed' = Indexed
    BY <1>1, <1>6, PlanUnchanged
  <2>2. \A f \in Indexed : kept[f] \notin {Unread, NoSource}
    BY <1>1, <1>3, <1>5, PlanType
  <2> QED
    BY <1>1, <1>6, <2>1, <2>2 DEF ReadingInv, BuildKnows
<1> QED
  BY <1>7, <1>8, <1>10 DEF ReadingInv

LEMMA PublishKeepsReadings == ReadingInv /\ PublishGraph => ReadingInv'
<1> SUFFICES ASSUME ReadingInv, PublishGraph PROVE ReadingInv'
  OBVIOUS
<1>1. /\ build.stage = "linking" /\ build' = NoBuild /\ tree' = tree /\ edits' = edits
      /\ graph'.hash = NewHash /\ graph'.configured \in BOOLEAN
      /\ graph'.depends = PreservedDepends \cup NewLinks.depends
      /\ graph'.calls = PreservedCalls \cup NewLinks.calls
      /\ graph' = [hash |-> graph'.hash, depends |-> graph'.depends,
                   calls |-> graph'.calls, configured |-> graph'.configured]
  BY PublishSays
<1>2. missed' \subseteq Sources
  <2>1. missed \subseteq Sources /\ Reparsed \subseteq Sources /\ Needed \subseteq Sources
    BY PlanType, NeededType DEF ReadingInv, GraphTypeOK, Indexed
  <2>2. missed' = NewlyMissed
    BY PublishSays
  <2> QED
    BY <2>1, <2>2 DEF NewlyMissed
<1>3. /\ NewHash \in Trees /\ \A f \in Sources : NewHash[f] \in MayHold[f] \cup {NoSource}
      /\ TheFacts \in FactsType /\ Meaning \in MeaningType /\ Indexed \subseteq Sources
  BY <1>1, PublishedTypes
<1>4. /\ NewLinks.depends \in SUBSET (Sources \X Sources \X BOOLEAN)
      /\ NewLinks.calls \in SUBSET (Sources \X Sources)
  BY <1>3, LinkedIs DEF NewLinks, LinkedEdges
<1>5. /\ PreservedDepends \in SUBSET (Sources \X Sources \X BOOLEAN)
      /\ PreservedCalls \in SUBSET (Sources \X Sources)
  <2>1. ~build.full => graph \in Generations
    BY <1>1 DEF ReadingInv, BuildKnows, GraphTypeOK
  <2>2. PreservedDepends = {} \/ (~build.full /\ PreservedDepends \subseteq graph.depends)
    BY DEF PreservedDepends
  <2>3. PreservedCalls = {} \/ (~build.full /\ PreservedCalls \subseteq graph.calls)
    BY DEF PreservedCalls
  <2> QED
    BY <2>1, <2>2, <2>3 DEF Generations
<1>6. graph' \in Generations
  BY <1>1, <1>3, <1>4, <1>5 DEF Generations
<1>7. GraphTypeOK'
  BY <1>1, <1>2, <1>6, NoBuildType DEF ReadingInv, GraphTypeOK
<1>8. KnownTexts'
  BY <1>1, <1>3, NoBuildType DEF ReadingInv, KnownTexts
<1>9. BuildKnows'
  BY <1>1, NoBuildType DEF BuildKnows
<1> QED
  BY <1>7, <1>8, <1>9 DEF ReadingInv

LEMMA BeginsEmpty ==
    ASSUME NEW full \in BOOLEAN, NEW h \in SUBSET Sources, NEW g \in SUBSET Sources, NEW b,
           b = [stage |-> "detecting", full |-> full, hinted |-> h, gone |-> g,
                found |-> NothingRead, read |-> NothingRead, target |-> NothingRead]
    PROVE  /\ b \in Builds /\ b.stage = "detecting" /\ b.full = full
           /\ b.found = NothingRead /\ b.read = NothingRead /\ b.target = NothingRead
BY NoBuildType DEF Builds

LEMMA ReadingStep == ReadingInv /\ [GraphNext]_graphVars => ReadingInv'
<1> SUFFICES ASSUME ReadingInv, [GraphNext]_graphVars PROVE ReadingInv'
  OBVIOUS
<1>1. ASSUME NEW f \in Sources, EditSource(f, NoSource) PROVE ReadingInv'
  BY <1>1, EditKeepsReadings
<1>2. ASSUME NEW f \in Sources, NEW t \in MayHold[f], EditSource(f, t) PROVE ReadingInv'
  BY <1>2, EditKeepsReadings
<1>3. missed \subseteq Sources
  BY DEF ReadingInv, GraphTypeOK
<1>4. CASE BuildFull
  <2>1. build' = [NoBuild EXCEPT !.stage = "detecting", !.full = TRUE]
         /\ UNCHANGED <<tree, graph, missed, edits>>
    BY <1>4 DEF BuildFull
  <2>2. build' = [stage |-> "detecting", full |-> TRUE, hinted |-> {}, gone |-> {},
                 found |-> NothingRead, read |-> NothingRead, target |-> NothingRead]
    BY <2>1 DEF NoBuild
  <2>3. /\ build' \in Builds /\ build'.stage = "detecting" /\ build'.full
        /\ build'.found = NothingRead /\ build'.read = NothingRead /\ build'.target = NothingRead
    BY <2>2, BeginsEmpty
  <2> QED
    BY <1>3, <2>1, <2>3, FreshBuildKeepsReadings
<1>5. ASSUME NEW h \in Hints, BuildIncremental(h.changed, h.gone) PROVE ReadingInv'
  <2>1. /\ build' = [NoBuild EXCEPT !.stage = "detecting", !.hinted = h.changed, !.gone = h.gone]
        /\ graph # NoSource /\ UNCHANGED <<tree, graph, missed, edits>>
    BY <1>5 DEF BuildIncremental
  <2>2. build' = [stage |-> "detecting", full |-> FALSE, hinted |-> h.changed, gone |-> h.gone,
                 found |-> NothingRead, read |-> NothingRead, target |-> NothingRead]
    BY <2>1 DEF NoBuild
  <2>3. /\ build' \in Builds /\ build'.stage = "detecting"
        /\ build'.found = NothingRead /\ build'.read = NothingRead /\ build'.target = NothingRead
    BY <2>2, BeginsEmpty, GraphAssumption
  <2> QED
    BY <1>3, <2>1, <2>3, FreshBuildKeepsReadings
<1>6. CASE AbortBuild
  <2>1. build' = NoBuild /\ UNCHANGED <<tree, graph, missed, edits>>
    BY <1>6 DEF AbortBuild
  <2>2. /\ build' \in Builds /\ build'.found = NothingRead
        /\ build'.read = NothingRead /\ build'.target = NothingRead
    BY <2>1, NoBuildType
  <2> QED
    BY <1>3, <2>1, <2>2, FreshBuildKeepsReadings
<1>7. CASE UNCHANGED graphVars
  <2>1. tree' = tree /\ graph' = graph /\ build' = build /\ missed' = missed /\ edits' = edits
    BY <1>7 DEF graphVars
  <2>2. Indexed' = Indexed
    BY <2>1, PlanUnchanged
  <2>3. GraphTypeOK' /\ KnownTexts'
    BY <2>1 DEF ReadingInv, GraphTypeOK, KnownTexts
  <2>4. BuildKnows'
    BY <2>1, <2>2 DEF ReadingInv, BuildKnows
  <2> QED
    BY <2>3, <2>4 DEF ReadingInv
<1> QED
  BY <1>1, <1>2, <1>4, <1>5, <1>6, <1>7, DetectedKeepsReadings, AnalyzedKeepsReadings,
     PublishKeepsReadings DEF GraphNext

(* A build at work has read what it acts on, each file as some text of it. *)
THEOREM ReadingsAreKnown == GraphSpec => []ReadingInv
<1> QED
  BY ReadingInit, ReadingStep, PTL DEF GraphSpec

(* The index of the sources is typed.                                      *)
THEOREM GraphTyped == GraphSpec => []GraphTypeOK
<1>1. ReadingInv => GraphTypeOK
  BY DEF ReadingInv
<1> QED
  BY <1>1, ReadingsAreKnown, PTL


-----------------------------------------------------------------------------
(* The links of a generation.                                              *)

EdgesOfParsed(g) == \A e \in g.depends \cup g.calls : Parsed(g.hash)[e[1]] # NoSource

(* moduleConfigFiles: a generation whose files use the alias says so.      *)
ConfiguredIfUsed(g) ==
    /\ Config \in Existing(g.hash) /\ ~AliasUnused(Parsed(g.hash)) => g.configured
    /\ g.configured => Config \in Existing(g.hash)

RightDepends(g, f) ==
    From(g.depends, f)
        = Depends(f, Parsed(g.hash)[f], Existing(g.hash), g.hash[Config])
RightCalls(g, f) ==
    From(g.calls, f)
        = CallsOf(f, Parsed(g.hash)[f], Existing(g.hash), Parsed(g.hash), g.hash[Config])

(* The edges of a file are those of the recorded texts, unless one of them *)
(* was missed: the configuration, or a file its calls go through.          *)
RightUnlessMissed ==
    \/ graph.configured /\ Config \in missed
    \/ \A f \in Sources : Parsed(graph.hash)[f] # NoSource =>
          /\ RightDepends(graph, f)
          /\ \/ RightCalls(graph, f)
             \/ \E g \in missed : f \in ImporterClosure(graph.depends, {g})

LinksInv == graph # NoSource =>
                EdgesOfParsed(graph) /\ ConfiguredIfUsed(graph) /\ RightUnlessMissed

(* The texts a build links with are those it records, or it was told that  *)
(* there is none because they had changed.                                 *)
LEMMA FactsAre ==
    ASSUME ReadingInv, build.stage = "linking"
    PROVE  /\ \A f \in Preserved : NewHash[f] = graph.hash[f]
           /\ \A f \in Indexed : TheFacts[f] = Parsed(NewHash)[f]
           /\ \A f \in Sources :
                 \/ TheFacts[f] = Parsed(NewHash)[f]
                 \/ /\ TheFacts[f] = NoSource /\ f \in Preserved
                    /\ NewHash[f].parses /\ Now[f] # NewHash[f]
           /\ \A f \in Sources : Parsed(NewHash)[f] # NoSource => f \in KnownFiles
           /\ Meaning # NewHash[Config] => Config \in KnownFiles /\ Now[Config] # NewHash[Config]
<1> DEFINE t == [f \in Sources |-> IF f \in Indexed THEN build.read[f]
                                   ELSE IF f \in Preserved /\ Now[f] = graph.hash[f]
                                        THEN graph.hash[f] ELSE NoSource]
<1>1. /\ Indexed \subseteq Sources /\ KnownFiles \subseteq Sources /\ Preserved \cap Indexed = {}
      /\ \A f \in Preserved : f \in Sources
  BY PlanType DEF KnownFiles
<1>2. \A f \in Sources :
         /\ f \in Indexed => NewHash[f] = build.read[f] /\ t[f] = build.read[f]
         /\ f \in Preserved => NewHash[f] = graph.hash[f]
         /\ f \in Preserved /\ Now[f] = NewHash[f] => t[f] = NewHash[f]
         /\ f \in Preserved /\ Now[f] # NewHash[f] => t[f] = NoSource
         /\ f \notin KnownFiles => NewHash[f] = NoSource /\ t[f] = NoSource
  BY <1>1 DEF NewHash, Recorded, KnownFiles
<1>3. TheFacts = [f \in Sources |-> IF t[f] # NoSource /\ t[f].parses THEN t[f] ELSE NoSource]
  BY DEF TheFacts, TargetFacts, Parsed
<1>4. Parsed(NewHash) = [f \in Sources |-> IF NewHash[f] # NoSource /\ NewHash[f].parses
                                           THEN NewHash[f] ELSE NoSource]
  BY DEF Parsed
<1> HIDE DEF t
<1>5. \A f \in Sources : t[f] = NewHash[f] => TheFacts[f] = Parsed(NewHash)[f]
  BY <1>3, <1>4
<1>6. ASSUME NEW f \in Sources, TheFacts[f] # Parsed(NewHash)[f]
      PROVE  /\ TheFacts[f] = NoSource /\ f \in Preserved
             /\ NewHash[f].parses /\ Now[f] # NewHash[f]
  <2>1. f \in Preserved /\ Now[f] # NewHash[f] /\ t[f] = NoSource
    BY <1>2, <1>5, <1>6 DEF KnownFiles
  <2>2. TheFacts[f] = NoSource
    BY <1>3, <2>1
  <2> QED
    BY <1>4, <1>6, <2>1, <2>2
<1>7. \A f \in Sources : Parsed(NewHash)[f] # NoSource => f \in KnownFiles
  BY <1>2, <1>4
<1>8. Meaning # NewHash[Config] => Config \in KnownFiles /\ Now[Config] # NewHash[Config]
  BY <1>2, GraphAssumption DEF Meaning
<1> QED
  BY <1>1, <1>2, <1>5, <1>6, <1>7, <1>8 DEF KnownFiles

(* A configuration that was read as another than is recorded is missed.    *)
LEMMA MeaningMissed ==
    ASSUME ReadingInv, build.stage = "linking", Meaning # NewHash[Config], TheConsulted
    PROVE  Config \in NewlyMissed /\ Configured
<1>1. Config \in KnownFiles /\ Now[Config] # NewHash[Config]
  BY FactsAre
<1>2. Config \in Needed
  BY <1>1 DEF Needed
<1> QED
  BY <1>1, <1>2 DEF NewlyMissed, Configured

(* The links of an indexed file are those of the new texts, unless its     *)
(* calls go through one that is missed now.                                *)
LEMMA NewlyLinked ==
    ASSUME ReadingInv, build.stage = "linking", Meaning = NewHash[Config] \/ ~TheConsulted,
           NEW f \in Indexed, Parsed(NewHash)[f] # NoSource
    PROVE  /\ Depends(f, Parsed(NewHash)[f], KnownFiles, Meaning)
                = Depends(f, Parsed(NewHash)[f], KnownFiles, NewHash[Config])
           /\ \/ CallsOf(f, Parsed(NewHash)[f], KnownFiles, TheFacts, Meaning)
                   = CallsOf(f, Parsed(NewHash)[f], KnownFiles, Parsed(NewHash), NewHash[Config])
              \/ /\ Resolved(Parsed(NewHash)[f].imports, KnownFiles, NewHash[Config]) \in Sources
                 /\ \E h \in Asked(Resolved(Parsed(NewHash)[f].imports, KnownFiles, NewHash[Config]),
                                   KnownFiles, Parsed(NewHash), NewHash[Config]) :
                       h \in NewlyMissed /\ TheFacts[h] # Parsed(NewHash)[h]
<1> DEFINE new == Parsed(NewHash)  meaning == NewHash[Config]
           from == Resolved(new[f].imports, KnownFiles, meaning)
<1>1. /\ NewHash \in Trees /\ TheFacts \in FactsType /\ Meaning \in MeaningType
      /\ Indexed \in SUBSET Sources /\ Config \in Sources
  BY PublishedTypes, GraphAssumption
<1>2. new \in FactsType /\ meaning \in MeaningType
  BY <1>1, ParsedIs DEF Trees, MeaningType
<1>3. /\ \A g \in Indexed : TheFacts[g] = new[g]
      /\ \A g \in Sources : \/ TheFacts[g] = new[g]
                            \/ TheFacts[g] = NoSource /\ g \in Preserved
                               /\ NewHash[g].parses /\ Now[g] # NewHash[g]
  BY FactsAre
<1> HIDE DEF new, meaning
<1>4. \A g \in Sources : TheFacts[g] \in {new[g], NoSource}
  BY <1>3
<1>5. Meaning = meaning \/ ~Consulted(Indexed, KnownFiles, TheFacts, Meaning)
  BY DEF meaning, TheConsulted
<1>6. new[f] # NoSource
  BY DEF new
<1>7. /\ Depends(f, new[f], KnownFiles, Meaning) = Depends(f, new[f], KnownFiles, meaning)
      /\ \/ CallsOf(f, new[f], KnownFiles, TheFacts, Meaning)
              = CallsOf(f, new[f], KnownFiles, new, meaning)
         \/ /\ from \in Sources
            /\ \E h \in Asked(from, KnownFiles, new, meaning) :
                  h \in AskedFor(Indexed, KnownFiles, TheFacts, Meaning) /\ TheFacts[h] # new[h]
  BY <1>1, <1>2, <1>3, <1>4, <1>5, <1>6, LinkedWith
<1>8. ASSUME NEW h \in Asked(from, KnownFiles, new, meaning),
             h \in AskedFor(Indexed, KnownFiles, TheFacts, Meaning), TheFacts[h] # new[h]
      PROVE  h \in NewlyMissed
  <2>1. h \in Sources
    BY DEF Asked, Reached
  <2>2. h \in Preserved /\ NewHash[h].parses /\ Now[h] # NewHash[h]
    BY <1>3, <1>8, <2>1
  <2>3. h \in Needed
    BY <1>8, <2>2 DEF Needed, TheAsked
  <2> QED
    BY <2>2, <2>3 DEF NewlyMissed
<1> HIDE DEF from
<1>9. /\ Depends(f, new[f], KnownFiles, Meaning) = Depends(f, new[f], KnownFiles, meaning)
      /\ \/ CallsOf(f, new[f], KnownFiles, TheFacts, Meaning)
              = CallsOf(f, new[f], KnownFiles, new, meaning)
         \/ /\ from \in Sources
            /\ \E h \in Asked(from, KnownFiles, new, meaning) : h \in NewlyMissed /\ TheFacts[h] # new[h]
  BY <1>7, <1>8
<1> QED
  BY <1>9 DEF from, new, meaning

(* What is taken over belongs to files that stay as they are.              *)
LEMMA PreservedEdges ==
    ASSUME ReadingInv, LinksInv, build.stage = "linking",
           NEW d \in PreservedDepends \cup PreservedCalls
    PROVE  /\ ~build.full /\ d \in graph.depends \cup graph.calls
           /\ d[1] \in Preserved /\ Parsed(NewHash)[d[1]] # NoSource
<1>1. ~build.full /\ d \in graph.depends \cup graph.calls
  BY DEF PreservedDepends, PreservedCalls
<1>2. graph # NoSource /\ graph \in Generations
  BY <1>1 DEF ReadingInv, BuildKnows, GraphTypeOK
<1>3. d[1] \in Sources /\ graph.hash \in Trees
  BY <1>1, <1>2 DEF Generations
<1>4. Parsed(graph.hash)[d[1]] # NoSource
  BY <1>1, <1>2 DEF LinksInv, EdgesOfParsed
<1>5. graph.hash[d[1]] # NoSource /\ graph.hash[d[1]].parses
  BY <1>3, <1>4, ParsedIs
<1>6. d[1] \notin Indexed /\ d[1] \notin DeletedSources
  BY <1>1 DEF PreservedDepends, PreservedCalls
<1>7. d[1] \in Preserved
  BY <1>1, <1>3, <1>5, <1>6 DEF Preserved, DeletedSources, Existing
<1>8. NewHash[d[1]] = graph.hash[d[1]] /\ NewHash \in Trees
  BY <1>7, FactsAre, PublishedTypes
<1>9. Parsed(NewHash)[d[1]] # NoSource
  BY <1>3, <1>5, <1>8, ParsedIs
<1> QED
  BY <1>1, <1>7, <1>9

(* The edges of the new generation, file by file. *)
LEMMA NewEdges ==
    ASSUME ReadingInv, LinksInv, build.stage = "linking", NEW g,
           g.hash = NewHash, g.depends = PreservedDepends \cup NewLinks.depends,
           g.calls = PreservedCalls \cup NewLinks.calls
    PROVE  /\ EdgesOfParsed(g)
           /\ \A f \in Indexed : Parsed(NewHash)[f] # NoSource =>
                /\ From(g.depends, f)
                     = Depends(f, Parsed(NewHash)[f], KnownFiles, Meaning)
                /\ From(g.calls, f)
                     = CallsOf(f, Parsed(NewHash)[f], KnownFiles, TheFacts, Meaning)
           /\ \A f \in Preserved :
                /\ From(g.depends, f) = From(PreservedDepends, f)
                /\ From(g.calls, f) = From(PreservedCalls, f)
<1>1. TheFacts \in FactsType /\ Meaning \in MeaningType /\ Indexed \in SUBSET Sources
  BY PublishedTypes
<1>2. /\ \A d \in NewLinks.depends \cup NewLinks.calls : d[1] \in Indexed /\ TheFacts[d[1]] # NoSource
      /\ \A f \in Indexed : TheFacts[f] # NoSource =>
           /\ From(NewLinks.depends, f) = Depends(f, TheFacts[f], KnownFiles, Meaning)
           /\ From(NewLinks.calls, f) = CallsOf(f, TheFacts[f], KnownFiles, TheFacts, Meaning)
  <2>1. NewLinks = LinkedFrom(Indexed, KnownFiles, TheFacts, Meaning)
    BY DEF NewLinks
  <2>2. LinkedEdges(NewLinks, Indexed, KnownFiles, TheFacts, Meaning)
    BY <1>1, <2>1, LinkedIs
  <2> QED
    BY <2>2 DEF LinkedEdges
<1>3. \A d \in PreservedDepends \cup PreservedCalls :
         d[1] \in Preserved /\ Parsed(NewHash)[d[1]] # NoSource
  BY PreservedEdges
<1>4. Preserved \cap Indexed = {}
  BY PlanType
<1>5. \A f \in Indexed : TheFacts[f] = Parsed(NewHash)[f]
  BY FactsAre
<1>6. EdgesOfParsed(g)
  BY <1>2, <1>3, <1>5 DEF EdgesOfParsed
<1>7. ASSUME NEW f \in Indexed, Parsed(NewHash)[f] # NoSource
      PROVE  /\ From(g.depends, f)
                  = Depends(f, Parsed(NewHash)[f], KnownFiles, Meaning)
             /\ From(g.calls, f)
                  = CallsOf(f, Parsed(NewHash)[f], KnownFiles, TheFacts, Meaning)
  <2>1. /\ From(NewLinks.depends, f) = Depends(f, Parsed(NewHash)[f], KnownFiles, Meaning)
        /\ From(NewLinks.calls, f)
             = CallsOf(f, Parsed(NewHash)[f], KnownFiles, TheFacts, Meaning)
    BY <1>2, <1>5, <1>7
  <2>2. /\ From(g.depends, f) = From(NewLinks.depends, f)
        /\ From(g.calls, f) = From(NewLinks.calls, f)
    BY <1>3, <1>4 DEF From
  <2> QED
    BY <2>1, <2>2
<1>8. \A f \in Preserved :
         /\ From(g.depends, f) = From(PreservedDepends, f)
         /\ From(g.calls, f) = From(PreservedCalls, f)
  BY <1>2, <1>4 DEF From
<1> QED
  BY <1>6, <1>7, <1>8

(* The new generation g. *)
PublishedRight(g) ==
    \/ g.configured /\ Config \in NewlyMissed
    \/ \A f \in Sources : Parsed(NewHash)[f] # NoSource =>
          /\ RightDepends(g, f)
          /\ \/ RightCalls(g, f)
             \/ \E h \in NewlyMissed : f \in ImporterClosure(g.depends, {h})

(* A full build, or one that links all again, takes over no edge.          *)
LEMMA AllLinked ==
    ASSUME ReadingInv, LinksInv, build.stage = "linking", build.full \/ LinksAllAgain
    PROVE  /\ \A f \in Sources : Parsed(NewHash)[f] # NoSource => f \in Indexed
           /\ TheFacts = Parsed(NewHash)
<1>1. \A f \in Preserved : f = Config
  BY DEF Preserved, Indexed, Reparsed, Relinked, FoundSources, Existing
<1>2. NewHash \in Trees /\ Config \in Sources /\ NewHash[Config] \in MayHold[Config] \cup {NoSource}
  BY PublishedTypes, GraphAssumption
<1>3. Parsed(NewHash)[Config] = NoSource
  BY <1>2, ParsedIs, GraphAssumption
<1>4. \A f \in Sources : Parsed(NewHash)[f] # NoSource => f \in Indexed
  BY <1>1, <1>3, FactsAre DEF KnownFiles
<1>5. \A f \in Sources : TheFacts[f] = Parsed(NewHash)[f]
  <2>1. SUFFICES ASSUME NEW f \in Sources, TheFacts[f] # Parsed(NewHash)[f] PROVE FALSE
    OBVIOUS
  <2>2. f = Config /\ f \in Preserved
    BY <1>1, <2>1, FactsAre
  <2>3. TheFacts[f] = NoSource
    BY <2>1, FactsAre
  <2> QED
    BY <1>3, <2>1, <2>2, <2>3
<1>6. TheFacts = Parsed(NewHash)
  <2>1. TheFacts \in FactsType /\ Parsed(NewHash) \in FactsType
    BY <1>2, PublishedTypes, ParsedIs
  <2> QED
    BY <1>5, <2>1 DEF FactsType
<1> QED
  BY <1>4, <1>6

LEMMA PublishesAll ==
    ASSUME ReadingInv, LinksInv, build.stage = "linking", build.full \/ LinksAllAgain, NEW g,
           g.hash = NewHash, g.depends = PreservedDepends \cup NewLinks.depends,
           g.calls = PreservedCalls \cup NewLinks.calls, g.configured = Configured
    PROVE  ConfiguredIfUsed(g) /\ PublishedRight(g)
<1>1. /\ \A f \in Sources : Parsed(NewHash)[f] # NoSource => f \in Indexed
      /\ TheFacts = Parsed(NewHash)
  BY AllLinked
<1>2. /\ NewHash \in Trees /\ Existing(NewHash) = KnownFiles /\ Config \in Sources
  BY PublishedTypes, GraphAssumption
<1>3. ~AliasUnused(Parsed(NewHash)) => TheConsulted
  BY <1>1 DEF AliasUnused, TheConsulted, Consulted
<1>4. ConfiguredIfUsed(g)
  BY <1>2, <1>3 DEF ConfiguredIfUsed, Configured
<1>5. CASE Meaning # NewHash[Config] /\ TheConsulted
  BY <1>4, <1>5, MeaningMissed DEF PublishedRight
<1>6. ASSUME Meaning = NewHash[Config] \/ ~TheConsulted,
             NEW f \in Sources, Parsed(NewHash)[f] # NoSource
      PROVE  RightDepends(g, f) /\ RightCalls(g, f)
  <2>1. f \in Indexed
    BY <1>1, <1>6
  <2>2. /\ From(g.depends, f) = Depends(f, Parsed(NewHash)[f], KnownFiles, Meaning)
        /\ From(g.calls, f) = CallsOf(f, Parsed(NewHash)[f], KnownFiles, TheFacts, Meaning)
    BY <1>6, <2>1, NewEdges
  <2>3. /\ Depends(f, Parsed(NewHash)[f], KnownFiles, Meaning)
             = Depends(f, Parsed(NewHash)[f], KnownFiles, NewHash[Config])
        /\ CallsOf(f, Parsed(NewHash)[f], KnownFiles, TheFacts, Meaning)
             = CallsOf(f, Parsed(NewHash)[f], KnownFiles, Parsed(NewHash), NewHash[Config])
    BY <1>1, <1>6, <2>1, NewlyLinked
  <2> QED
    BY <1>2, <2>2, <2>3 DEF RightDepends, RightCalls
<1> QED
  BY <1>4, <1>5, <1>6 DEF PublishedRight

(* One that does not keeps the files that exist, and takes over no edge of *)
(* a file whose links depend on what changed.                              *)
LEMMA PartLinked ==
    ASSUME ReadingInv, LinksInv, build.stage = "linking", ~build.full, ~LinksAllAgain
    PROVE  /\ graph # NoSource /\ graph \in Generations /\ DeletedSources = {}
           /\ KnownFiles = Existing(graph.hash) /\ Existing(NewHash) = Existing(graph.hash)
           /\ \A f \in Sources : f \notin Indexed => NewHash[f] = graph.hash[f]
           /\ \A f \in Sources : f \notin ChangedSources /\ NewHash[f] # graph.hash[f] =>
                 f \in Reparsed /\ build.read[f] # graph.hash[f]
           /\ \A f \in Preserved : f \notin ImporterClosure(graph.depends, ChangedSources)
           /\ Config \in Indexed => Config \in ChangedSources
           /\ Config \in ChangedSources => ~graph.configured
           /\ ChangedSources \subseteq Sources
<1>1. graph # NoSource /\ graph \in Generations
  BY DEF ReadingInv, BuildKnows, GraphTypeOK
<1>2. DeletedSources = {} /\ ChangedSources \subseteq Existing(graph.hash)
      /\ (Config \in ChangedSources => ~graph.configured)
  BY DEF LinksAllAgain
<1>3. Existing(graph.hash) \subseteq FoundSources
  BY <1>2 DEF DeletedSources
<1>4. FoundSources \subseteq Existing(graph.hash)
  BY <1>2 DEF ChangedSources, FoundSources, Existing
<1>5. KnownFiles = Existing(graph.hash)
  BY <1>2, <1>3, <1>4, PlanType DEF KnownFiles, Preserved
<1>6. Existing(NewHash) = KnownFiles /\ NewHash \in Trees
  BY PublishedTypes
<1>7. ASSUME NEW f \in Sources PROVE
         /\ f \in Indexed => NewHash[f] = build.read[f]
         /\ f \notin Indexed => NewHash[f] = graph.hash[f]
  BY <1>5 DEF NewHash, Recorded, KnownFiles, Existing
<1>8. \A f \in Preserved : f \notin ImporterClosure(graph.depends, ChangedSources)
  BY <1>2 DEF Preserved, Indexed, Reparsed, Relinked
<1>10. Config \in Indexed => Config \in ChangedSources
  <2>1. SUFFICES ASSUME Config \in Reparsed PROVE FALSE
    BY DEF Indexed
  <2>2. Config \in ImporterClosure(graph.depends, ChangedSources)
    BY <2>1 DEF Reparsed, Relinked
  <2>3. PICK d \in graph.depends : d[1] = Config
    <3>1. graph.depends \in SUBSET (Sources \X Sources \X BOOLEAN)
      BY <1>1 DEF Generations
    <3>2. \A f : f \in ImporterClosure(graph.depends, ChangedSources)
             <=> \E d \in graph.depends :
                    d[1] = f /\ d[2] \in Reached(ChangedSources, Forwarders(graph.depends))
      BY <3>1, ImporterClosureIs
    <3> QED
      BY <2>2, <3>2
  <2>4. Parsed(graph.hash)[Config] # NoSource
    BY <1>1, <2>3 DEF LinksInv, EdgesOfParsed
  <2>5. Config \in Sources /\ graph.hash \in Trees /\ graph.hash[Config] \in MayHold[Config] \cup {NoSource}
    BY <1>1, GraphAssumption DEF ReadingInv, KnownTexts, Generations
  <2> QED
    BY <2>4, <2>5, ParsedIs, GraphAssumption
<1>11. \A f \in Sources : f \notin ChangedSources /\ NewHash[f] # graph.hash[f] =>
                 f \in Reparsed /\ build.read[f] # graph.hash[f]
  BY <1>7 DEF Indexed
<1>12. ChangedSources \subseteq Sources
  BY PlanType
<1> QED
  BY <1>1, <1>2, <1>5, <1>6, <1>7, <1>8, <1>10, <1>11, <1>12

(* Who imported a missed file before the build, through no file that was   *)
(* found changed, imports one that is missed after it: each file on the    *)
(* way forwards as before, or is missed itself.                            *)
LEMMA StillImports ==
    ASSUME graph.depends \in SUBSET (Sources \X Sources \X BOOLEAN),
           NEW depends \in SUBSET (Sources \X Sources \X BOOLEAN),
           \A x \in Sources : x \notin ChangedSources \cup NewlyMissed =>
               From(depends, x) = From(graph.depends, x),
           NEW f \in Sources, f \notin ImporterClosure(graph.depends, ChangedSources),
           From(depends, f) = From(graph.depends, f),
           NEW g \in NewlyMissed \cap Sources, f \in ImporterClosure(graph.depends, {g})
    PROVE  \E h \in NewlyMissed : f \in ImporterClosure(depends, {h})
<1> DEFINE old == Forwarders(graph.depends)  new == Forwarders(depends)
           changed == Reached(ChangedSources, old)
           missing == {y \in Sources : \E h \in NewlyMissed : y \in Reached({h}, new)}
           S == changed \cup missing
<1>1. /\ ChangedSources \in SUBSET Sources
      /\ old \in SUBSET (Sources \X Sources) /\ new \in SUBSET (Sources \X Sources)
  BY PlanType, ImporterClosureIs
<1>2. \A h \in NewlyMissed \cap Sources : h \in missing
  <2>1. SUFFICES ASSUME NEW h \in NewlyMissed \cap Sources PROVE h \in Reached({h}, new)
    OBVIOUS
  <2> QED
    BY ReachedHolds
<1>3. ChangedSources \subseteq changed /\ changed \subseteq Sources
  BY <1>1, ReachedHolds
<1>4. ASSUME NEW p \in old, p[1] \in S PROVE p[2] \in S
  <2>1. PICK e \in graph.depends : e[3] /\ p = <<e[2], e[1]>>
    BY DEF Forwarders
  <2>2. p[1] = e[2] /\ p[2] = e[1] /\ e[1] \in Sources
    BY <2>1
  <2>3. CASE p[1] \in changed
    BY <1>1, <2>3, ReachedIsClosed
  <2>4. CASE p[2] \in ChangedSources \cup NewlyMissed
    BY <1>2, <1>3, <2>2, <2>4
  <2>5. CASE p[2] \notin ChangedSources \cup NewlyMissed /\ p[1] \in missing
    <3>1. e \in depends
      BY <2>2, <2>5 DEF From
    <3>2. p \in new
      BY <2>1, <3>1 DEF Forwarders
    <3>3. PICK h \in NewlyMissed : p[1] \in Reached({h}, new)
      BY <2>5
    <3> HIDE DEF new
    <3>4. p[2] \in Reached({h}, new)
      BY <1>1, <3>2, <3>3, ReachedIsClosed
    <3> QED
      BY <2>2, <3>4
  <2> QED
    BY <1>4, <2>3, <2>4, <2>5
<1>5. S \in SUBSET Sources /\ {g} \subseteq S
  BY <1>2, <1>3
<1> HIDE DEF S
<1>6. Reached({g}, old) \subseteq S
  BY <1>4, <1>5, ReachedIsLeast
<1>7. PICK d \in graph.depends : d[1] = f /\ d[2] \in Reached({g}, old)
  BY ImporterClosureIs
<1>8. d[2] \notin changed
  BY <1>7, ImporterClosureIs
<1>9. PICK h \in NewlyMissed : d[2] \in Reached({h}, new)
  BY <1>6, <1>7, <1>8 DEF S
<1>10. d \in depends
  BY <1>7 DEF From
<1> QED
  BY <1>7, <1>9, <1>10, ImporterClosureIs

LEMMA PublishesPart ==
    ASSUME ReadingInv, LinksInv, build.stage = "linking", ~build.full, ~LinksAllAgain, NEW g,
           g.hash = NewHash, g.depends = PreservedDepends \cup NewLinks.depends,
           g.calls = PreservedCalls \cup NewLinks.calls, g.configured = Configured
    PROVE  ConfiguredIfUsed(g) /\ PublishedRight(g)
<1> DEFINE old == Parsed(graph.hash)
           new == Parsed(NewHash)
           oldMeaning == graph.hash[Config]
           newMeaning == NewHash[Config]
<1>1. /\ graph # NoSource /\ graph \in Generations /\ DeletedSources = {}
      /\ KnownFiles = Existing(graph.hash) /\ Existing(NewHash) = KnownFiles
      /\ \A f \in Sources : f \notin Indexed => NewHash[f] = graph.hash[f]
      /\ \A f \in Sources : f \notin ChangedSources /\ NewHash[f] # graph.hash[f] =>
            f \in Reparsed /\ build.read[f] # graph.hash[f]
      /\ \A f \in Preserved : f \notin ImporterClosure(graph.depends, ChangedSources)
      /\ Config \in Indexed => Config \in ChangedSources
      /\ Config \in ChangedSources => ~graph.configured
      /\ ChangedSources \in SUBSET Sources
  BY PartLinked
<1>2. /\ NewHash \in Trees /\ TheFacts \in FactsType /\ Meaning \in MeaningType
      /\ Config \in Sources /\ Indexed \in SUBSET Sources
  BY PublishedTypes, GraphAssumption
<1>3. /\ graph.hash \in Trees /\ graph.depends \in SUBSET (Sources \X Sources \X BOOLEAN)
  BY <1>1 DEF Generations
<1>4. /\ old \in FactsType /\ new \in FactsType
      /\ oldMeaning \in MeaningType /\ newMeaning \in MeaningType
  BY <1>2, <1>3, ParsedIs DEF Trees, MeaningType
<1>5. \A f \in Sources : NewHash[f] = graph.hash[f] => new[f] = old[f]
  BY <1>2, <1>3, ParsedIs
<1>6. /\ Preserved \in SUBSET Sources /\ Preserved \cap Indexed = {} /\ ChangedSources \subseteq Indexed
      /\ \A f \in Preserved : new[f] = old[f]
  <2>1. /\ Preserved \in SUBSET Sources /\ Preserved \cap Indexed = {}
        /\ ChangedSources \subseteq Indexed
    BY PlanType
  <2> QED
    BY <1>1, <1>5, <2>1
<1>7. \A f \in Sources : new[f] # NoSource => f \in Indexed \/ f \in Preserved
  BY FactsAre DEF KnownFiles
<1>8. \A f \in Indexed : TheFacts[f] = new[f]
  BY FactsAre
<1>9. /\ missed \ ChangedSources \subseteq NewlyMissed /\ missed \subseteq Sources
      /\ \A f \in Sources : f \notin ChangedSources /\ NewHash[f] # graph.hash[f] => f \in NewlyMissed
  <2>1. {f \in Reparsed : build.read[f] # graph.hash[f]} \subseteq NewlyMissed
    BY DEF NewlyMissed
  <2> QED
    BY <1>1, <2>1 DEF NewlyMissed, ReadingInv, GraphTypeOK
<1>10. /\ Config \in KnownFiles /\ ~graph.configured => AliasUnused(old)
       /\ graph.configured => Config \in KnownFiles
  BY <1>1 DEF LinksInv, ConfiguredIfUsed
<1>11. oldMeaning = newMeaning \/ AliasUnused(old)
  <2>1. CASE Config \notin KnownFiles
    BY <1>1, <1>2, <2>1 DEF Existing
  <2>2. CASE Config \in KnownFiles /\ Config \in ChangedSources
    BY <1>1, <1>10, <2>2
  <2>3. CASE Config \notin ChangedSources
    BY <1>1, <1>2, <2>3
  <2> QED
    BY <2>1, <2>2, <2>3
<1>12. ~AliasUnused(new) => TheConsulted \/ ~AliasUnused(old)
  <2>1. SUFFICES ASSUME ~TheConsulted, AliasUnused(old), NEW f \in Sources, new[f] # NoSource
                 PROVE  Alias \notin {new[f].imports, new[f].forwards}
    BY DEF AliasUnused
  <2>2. CASE f \in Indexed
    BY <1>8, <2>1, <2>2 DEF TheConsulted, Consulted
  <2>3. CASE f \in Preserved
    BY <1>6, <2>1, <2>3 DEF AliasUnused
  <2> QED
    BY <1>7, <2>1, <2>2, <2>3
<1>13. ConfiguredIfUsed(g)
  BY <1>1, <1>10, <1>12 DEF ConfiguredIfUsed, Configured
<1>14. CASE graph.configured /\ Config \in missed
  <2>1. Config \in NewlyMissed /\ Configured
    BY <1>1, <1>9, <1>10, <1>14 DEF Configured
  <2> QED
    BY <1>13, <2>1 DEF PublishedRight
<1>15. CASE Meaning # newMeaning /\ TheConsulted
  BY <1>13, <1>15, MeaningMissed DEF PublishedRight
<1> SUFFICES ASSUME Meaning = newMeaning \/ ~TheConsulted, ~(graph.configured /\ Config \in missed)
             PROVE  \A f \in Sources : new[f] # NoSource =>
                      /\ RightDepends(g, f)
                      /\ \/ RightCalls(g, f)
                         \/ \E h \in NewlyMissed : f \in ImporterClosure(g.depends, {h})
  BY <1>13, <1>14, <1>15 DEF PublishedRight
<1>16. \A f \in Sources : old[f] # NoSource =>
            /\ RightDepends(graph, f)
            /\ \/ RightCalls(graph, f)
               \/ \E h \in missed : f \in ImporterClosure(graph.depends, {h})
  BY <1>1 DEF LinksInv, RightUnlessMissed
<1>17. /\ \A f \in Indexed : new[f] # NoSource =>
           /\ From(g.depends, f) = Depends(f, new[f], KnownFiles, Meaning)
           /\ From(g.calls, f) = CallsOf(f, new[f], KnownFiles, TheFacts, Meaning)
       /\ \A f \in Preserved :
           /\ From(g.depends, f) = From(PreservedDepends, f)
           /\ From(g.calls, f) = From(PreservedCalls, f)
       /\ EdgesOfParsed(g)
  BY NewEdges
<1>18. \A f \in Indexed : new[f] # NoSource =>
         /\ Depends(f, new[f], KnownFiles, Meaning) = Depends(f, new[f], KnownFiles, newMeaning)
         /\ \/ CallsOf(f, new[f], KnownFiles, TheFacts, Meaning)
                 = CallsOf(f, new[f], KnownFiles, new, newMeaning)
            \/ /\ Resolved(new[f].imports, KnownFiles, newMeaning) \in Sources
               /\ \E h \in Asked(Resolved(new[f].imports, KnownFiles, newMeaning),
                                 KnownFiles, new, newMeaning) :
                     h \in NewlyMissed /\ TheFacts[h] # new[h]
  BY NewlyLinked
<1>19. /\ EdgesOfParsed(graph)
       /\ g.depends \in SUBSET (Sources \X Sources \X BOOLEAN)
  <2>1. NewLinks.depends \in SUBSET (Sources \X Sources \X BOOLEAN)
    BY <1>2, LinkedIs DEF NewLinks, LinkedEdges
  <2>2. PreservedDepends \subseteq graph.depends
    BY DEF PreservedDepends
  <2> QED
    BY <1>1, <1>3, <2>1, <2>2 DEF LinksInv
<1>20. /\ \A f \in Sources : RightDepends(g, f)
                <=> From(g.depends, f) = Depends(f, new[f], KnownFiles, newMeaning)
       /\ \A f \in Sources : RightCalls(g, f)
                <=> From(g.calls, f) = CallsOf(f, new[f], KnownFiles, new, newMeaning)
       /\ \A f \in Sources : RightDepends(graph, f)
                <=> From(graph.depends, f) = Depends(f, old[f], KnownFiles, oldMeaning)
       /\ \A f \in Sources : RightCalls(graph, f)
                <=> From(graph.calls, f) = CallsOf(f, old[f], KnownFiles, old, oldMeaning)
  BY <1>1 DEF RightDepends, RightCalls
<1>21. SameMeaning(old, KnownFiles, oldMeaning, newMeaning)
  <2> HIDE DEF old, oldMeaning, newMeaning
  <2> QED
    BY <1>4, <1>11, MeaningSame
<1>22. \A f \in Sources : old[f] = NoSource => From(graph.depends, f) = {}
  BY <1>19 DEF EdgesOfParsed, From
<1>23. \A f \in Sources : new[f] = NoSource => From(g.depends, f) = {}
  BY <1>1, <1>17 DEF EdgesOfParsed, From
<1> HIDE DEF old, new, oldMeaning, newMeaning
<1>24. ASSUME NEW f \in Sources, new[f] # NoSource PROVE RightDepends(g, f)
  <2>1. CASE f \in Indexed
    BY <1>17, <1>18, <1>20, <1>24, <2>1
  <2>2. CASE f \in Preserved
    <3>1. old[f] = new[f] /\ old[f] # NoSource
      BY <1>6, <1>24, <2>2
    <3>2. From(graph.depends, f) = Depends(f, old[f], KnownFiles, oldMeaning)
      BY <1>16, <1>20, <3>1
    <3>3. Depends(f, old[f], KnownFiles, oldMeaning) = Depends(f, old[f], KnownFiles, newMeaning)
      BY <1>21, <3>1 DEF SameMeaning
    <3>4. From(PreservedDepends, f) = From(graph.depends, f)
      BY <1>1, <1>6, <2>2 DEF PreservedDepends, From
    <3> QED
      BY <1>17, <1>20, <2>2, <3>1, <3>2, <3>3, <3>4
  <2> QED
    BY <1>7, <1>24, <2>1, <2>2
<1>25. ASSUME NEW x \in Sources, NewHash[x] = graph.hash[x]
       PROVE  From(g.depends, x) = From(graph.depends, x)
  <2>1. new[x] = old[x]
    BY <1>5, <1>25
  <2>2. CASE old[x] = NoSource
    BY <1>22, <1>23, <2>1, <2>2
  <2>3. CASE old[x] # NoSource
    <3>1. From(g.depends, x) = Depends(x, old[x], KnownFiles, newMeaning)
      BY <1>20, <1>24, <2>1, <2>3
    <3>2. From(graph.depends, x) = Depends(x, old[x], KnownFiles, oldMeaning)
      BY <1>16, <1>20, <2>3
    <3> QED
      BY <1>21, <2>3, <3>1, <3>2 DEF SameMeaning
  <2> QED
    BY <2>2, <2>3
<1>26. ASSUME NEW f \in Preserved, NEW h \in Sources, h \in missed \/ NewHash[h] # graph.hash[h],
              f \in ImporterClosure(graph.depends, {h})
       PROVE  \E m \in NewlyMissed : f \in ImporterClosure(g.depends, {m})
  <2>1. /\ f \in Sources /\ f \notin ImporterClosure(graph.depends, ChangedSources)
        /\ f \notin ChangedSources /\ NewHash[f] = graph.hash[f]
    BY <1>1, <1>6
  <2>2. h \notin ChangedSources
    BY <1>1, <1>3, <1>26, <2>1, ImporterClosureGrows
  <2>3. h \in NewlyMissed \cap Sources
    BY <1>9, <1>26, <2>2
  <2>4. \A x \in Sources : x \notin ChangedSources \cup NewlyMissed =>
               From(g.depends, x) = From(graph.depends, x)
    BY <1>9, <1>25
  <2>5. From(g.depends, f) = From(graph.depends, f)
    BY <1>25, <2>1
  <2> QED
    BY <1>3, <1>19, <1>26, <2>1, <2>3, <2>4, <2>5, StillImports
<1>27. ASSUME NEW f \in Preserved, new[f] # NoSource, RightCalls(graph, f)
       PROVE  \/ RightCalls(g, f)
              \/ \E m \in NewlyMissed : f \in ImporterClosure(g.depends, {m})
  <2> DEFINE from == Resolved(old[f].imports, KnownFiles, oldMeaning)
             asked == Asked(from, KnownFiles, old, oldMeaning)
  <2>1. f \in Sources /\ old[f] = new[f] /\ old[f] # NoSource /\ f \notin Indexed
    BY <1>6, <1>27
  <2>2. old[f] \in Texts
    BY <1>4, <2>1, TextsOf
  <2>3. \A x \in Sources : old[x] # NoSource =>
           From(graph.depends, x) = Depends(x, old[x], KnownFiles, oldMeaning)
    BY <1>16, <1>20
  <2>4. from \in Sources => \A h \in asked : h \in Sources /\ f \in ImporterClosure(graph.depends, {h})
    BY <1>3, <1>4, <2>1, <2>3, AskedIsImported
  <2>5. from \in Sources => \A h \in asked : h \notin ChangedSources
    BY <1>1, <1>3, <2>4, ImporterClosureGrows
  <2>6. CASE from \in Sources /\ \E h \in asked : NewHash[h] # graph.hash[h]
    BY <1>26, <2>4, <2>6
  <2>7. CASE from \in Sources => \A h \in asked : NewHash[h] = graph.hash[h]
    <3>1. from \in Sources => \A h \in asked : h \in Sources /\ new[h] = old[h]
      BY <1>5, <2>4, <2>7
    <3>2. /\ Resolved(old[f].imports, KnownFiles, newMeaning) = from
          /\ \A h \in Sources : old[h] # NoSource =>
               Resolved(old[h].forwards, KnownFiles, oldMeaning)
                 = Resolved(old[h].forwards, KnownFiles, newMeaning)
      BY <1>21, <2>1 DEF SameMeaning
    <3>3. CallsOf(f, old[f], KnownFiles, new, newMeaning)
            = CallsOf(f, old[f], KnownFiles, old, oldMeaning)
      BY <1>4, <2>1, <2>2, <3>1, <3>2, CallsAgree
    <3>4. From(graph.calls, f) = CallsOf(f, old[f], KnownFiles, old, oldMeaning)
      BY <1>20, <1>27, <2>1
    <3>5. \A c \in From(graph.calls, f) : c[2] \notin ChangedSources
      BY <1>4, <2>1, <2>2, <2>5, <3>4, CallsShape
    <3>6. From(PreservedCalls, f) = From(graph.calls, f)
      BY <1>1, <1>6, <2>1, <3>5 DEF PreservedCalls, From
    <3> QED
      BY <1>17, <1>20, <2>1, <3>3, <3>4, <3>6
  <2> QED
    BY <2>6, <2>7
<1>28. ASSUME NEW f \in Indexed, new[f] # NoSource, ~RightCalls(g, f)
       PROVE  \E h \in NewlyMissed : f \in ImporterClosure(g.depends, {h})
  <2> DEFINE from == Resolved(new[f].imports, KnownFiles, newMeaning)
  <2>1. f \in Sources
    BY <1>2
  <2>2. from \in Sources /\ \E h \in Asked(from, KnownFiles, new, newMeaning) : h \in NewlyMissed
    BY <1>17, <1>18, <1>20, <1>28, <2>1
  <2>3. PICK h \in Asked(from, KnownFiles, new, newMeaning) : h \in NewlyMissed
    BY <2>2
  <2>4. \A x \in Sources : new[x] # NoSource =>
           From(g.depends, x) = Depends(x, new[x], KnownFiles, newMeaning)
    BY <1>20, <1>24
  <2>5. f \in ImporterClosure(g.depends, {h})
    BY <1>4, <1>19, <1>28, <2>1, <2>2, <2>4, AskedIsImported
  <2> QED
    BY <2>3, <2>5
<1>29. ASSUME NEW f \in Preserved, new[f] # NoSource
       PROVE  \/ RightCalls(g, f)
              \/ \E h \in NewlyMissed : f \in ImporterClosure(g.depends, {h})
  <2>1. f \in Sources /\ old[f] # NoSource
    BY <1>6, <1>29
  <2>2. CASE RightCalls(graph, f)
    BY <1>27, <1>29, <2>2
  <2>3. CASE \E h \in missed : f \in ImporterClosure(graph.depends, {h})
    BY <1>9, <1>26, <2>3
  <2> QED
    BY <1>16, <2>1, <2>2, <2>3
<1> QED
  BY <1>7, <1>24, <1>28, <1>29

LEMMA PublishKeepsLinks ==
    ASSUME ReadingInv, LinksInv, PublishGraph
    PROVE  LinksInv'
<1>1. /\ build.stage = "linking" /\ missed' = NewlyMissed
      /\ graph'.hash = NewHash
      /\ graph'.depends = PreservedDepends \cup NewLinks.depends
      /\ graph'.calls = PreservedCalls \cup NewLinks.calls
      /\ graph'.configured = Configured
  BY PublishSays
<1>2. EdgesOfParsed(graph')
  BY <1>1, NewEdges
<1>3. ConfiguredIfUsed(graph') /\ PublishedRight(graph')
  BY <1>1, PublishesAll, PublishesPart
<1>4. RightUnlessMissed'
  BY <1>1, <1>3 DEF PublishedRight, RightUnlessMissed
<1> QED
  BY <1>2, <1>3, <1>4 DEF LinksInv

LEMMA LinksStep == ReadingInv /\ LinksInv /\ [GraphNext]_graphVars => LinksInv'
<1> SUFFICES ASSUME ReadingInv, LinksInv, [GraphNext]_graphVars PROVE LinksInv'
  OBVIOUS
<1>1. CASE graph' = graph /\ missed' = missed
  BY <1>1 DEF LinksInv, RightUnlessMissed
<1>2. CASE PublishGraph
  BY <1>2, PublishKeepsLinks
<1>3. \/ graph' = graph /\ missed' = missed
      \/ PublishGraph
  BY DEF GraphNext, graphVars, EditSource, BuildFull, BuildIncremental, Detected, Analyzed, AbortBuild
<1> QED
  BY <1>1, <1>2, <1>3

(* Each file's edges are those of the recorded texts, unless what they     *)
(* depend on was missed: incremental builds lose nothing but what a build  *)
(* read, while it linked, as another text than it recorded.                *)
THEOREM LinksAreRight == GraphSpec => [](ReadingInv /\ LinksInv)
<1>1. GraphInit => ReadingInv /\ LinksInv
  BY ReadingInit DEF GraphInit, LinksInv
<1>2. ReadingInv /\ LinksInv /\ [GraphNext]_graphVars => (ReadingInv /\ LinksInv)'
  BY ReadingStep, LinksStep
<1> QED
  BY <1>1, <1>2, PTL DEF GraphSpec

(* A generation whose files all have their own edges is the graph of its   *)
(* texts.                                                                  *)
LEMMA RightIsExact ==
    ASSUME NEW g, g.hash \in Trees, EdgesOfParsed(g),
           g.depends \in SUBSET (Sources \X Sources \X BOOLEAN),
           g.calls \in SUBSET (Sources \X Sources)
    PROVE  /\ (\A f \in Sources : Parsed(g.hash)[f] # NoSource => RightDepends(g, f))
                => g.depends = Exact(g.hash).depends
           /\ (\A f \in Sources : Parsed(g.hash)[f] # NoSource => RightCalls(g, f))
                => g.calls = Exact(g.hash).calls
<1> DEFINE facts == Parsed(g.hash)
           exact == LinkedFrom(Sources, Existing(g.hash), facts, g.hash[Config])
<1>1. facts \in FactsType /\ g.hash[Config] \in MeaningType
  BY ParsedIs, GraphAssumption DEF Trees, MeaningType
<1>2. LinkedEdges(exact, Sources, Existing(g.hash), facts, g.hash[Config])
  BY <1>1, LinkedIs
<1>3. exact = Exact(g.hash)
  BY DEF Exact
<1> HIDE DEF exact
<1>4. \A f \in Sources : facts[f] # NoSource =>
         /\ RightDepends(g, f) => From(g.depends, f) = From(exact.depends, f)
         /\ RightCalls(g, f) => From(g.calls, f) = From(exact.calls, f)
  BY <1>2 DEF RightDepends, RightCalls, LinkedEdges
<1>5. /\ \A e \in g.depends \cup g.calls : e[1] \in Sources /\ facts[e[1]] # NoSource
      /\ \A e \in exact.depends \cup exact.calls : e[1] \in Sources /\ facts[e[1]] # NoSource
  BY <1>2 DEF EdgesOfParsed, LinkedEdges
<1> HIDE DEF facts
<1>6. \A edges, e : e \in From(edges, e[1]) <=> e \in edges
  BY DEF From
<1>7. ASSUME \A f \in Sources : facts[f] # NoSource => RightDepends(g, f)
      PROVE  \A e : e \in g.depends <=> e \in exact.depends
  BY <1>4, <1>5, <1>6, <1>7
<1>8. ASSUME \A f \in Sources : facts[f] # NoSource => RightCalls(g, f)
      PROVE  \A e : e \in g.calls <=> e \in exact.calls
  BY <1>4, <1>5, <1>6, <1>8
<1>9. (\A f \in Sources : facts[f] # NoSource => RightDepends(g, f)) => g.depends = exact.depends
  BY <1>7
<1>10. (\A f \in Sources : facts[f] # NoSource => RightCalls(g, f)) => g.calls = exact.calls
  BY <1>8
<1> QED
  BY <1>3, <1>9, <1>10 DEF facts

(* The dependencies of a generation that looks fresh are those a full      *)
(* build of the sources would find, whatever files were missed, if the     *)
(* configuration was not: only the calls look into other files.            *)
THEOREM FreshDependsAreExact ==
    GraphSpec => [](LooksFresh /\ Config \notin missed => graph.depends = Exact(tree).depends)
<1>1. ReadingInv /\ LinksInv
        => (LooksFresh /\ Config \notin missed => graph.depends = Exact(tree).depends)
  <2> SUFFICES ASSUME ReadingInv, LinksInv, LooksFresh, Config \notin missed
               PROVE  graph.depends = Exact(tree).depends
    OBVIOUS
  <2>1. graph # NoSource /\ graph.hash = tree /\ graph \in Generations
    BY DEF LooksFresh, ReadingInv, GraphTypeOK
  <2>2. EdgesOfParsed(graph) /\ RightUnlessMissed
    BY <2>1 DEF LinksInv
  <2>3. \A f \in Sources : Parsed(graph.hash)[f] # NoSource => RightDepends(graph, f)
    BY <2>2 DEF RightUnlessMissed
  <2>4. /\ graph.hash \in Trees /\ graph.depends \in SUBSET (Sources \X Sources \X BOOLEAN)
        /\ graph.calls \in SUBSET (Sources \X Sources)
    BY <2>1 DEF Generations
  <2>5. graph.depends = Exact(graph.hash).depends
    BY <2>2, <2>3, <2>4, RightIsExact
  <2> QED
    BY <2>1, <2>5
<1> QED
  BY <1>1, LinksAreRight, PTL

(* FreshGraphIsExact: incremental builds, each over the last, among any    *)
(* edits, yield what a full build of the same sources would, while no file *)
(* is missed: none that a build read as another text than it recorded when *)
(* it linked with it, and that no build has found changed since.           *)
THEOREM FreshIsExact == GraphSpec => []FreshGraphIsExact
<1>1. ReadingInv /\ LinksInv => FreshGraphIsExact
  <2> SUFFICES ASSUME ReadingInv, LinksInv, LooksFresh, missed = {}
               PROVE  graph.depends = Exact(tree).depends /\ graph.calls = Exact(tree).calls
    BY DEF FreshGraphIsExact
  <2>1. graph # NoSource /\ graph.hash = tree /\ graph \in Generations
    BY DEF LooksFresh, ReadingInv, GraphTypeOK
  <2>2. EdgesOfParsed(graph) /\ RightUnlessMissed
    BY <2>1 DEF LinksInv
  <2>3. \A f \in Sources : Parsed(graph.hash)[f] # NoSource =>
           RightDepends(graph, f) /\ RightCalls(graph, f)
    BY <2>2 DEF RightUnlessMissed
  <2>4. /\ graph.hash \in Trees /\ graph.depends \in SUBSET (Sources \X Sources \X BOOLEAN)
        /\ graph.calls \in SUBSET (Sources \X Sources)
    BY <2>1 DEF Generations
  <2>5. graph.depends = Exact(graph.hash).depends /\ graph.calls = Exact(graph.hash).calls
    BY <2>2, <2>3, <2>4, RightIsExact
  <2> QED
    BY <2>1, <2>5
<1> QED
  BY <1>1, LinksAreRight, PTL

=============================================================================
