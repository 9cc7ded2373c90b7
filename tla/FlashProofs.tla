---------------------------- MODULE FlashProofs -----------------------------
(***************************************************************************)
(* Proofs about what a device keeps in flash: the image archive of the      *)
(* master (OtaArchive) and the update of a slave (OtaApply).  Both modules  *)
(* write to flash as a list of storage steps any of which may fail or be    *)
(* cut short, so both invariants say what the steps still to come amount to.*)
(***************************************************************************)
EXTENDS OtaApply, OtaArchive, SequenceTheorems, FiniteSetTheorems, TLAPS

-----------------------------------------------------------------------------
(* The image archive of the master.                                         *)

ArchiveSteps ==
  [op : {"open", "fill", "unlink", "truncate", "write"},
   file : {"bin", "meta", "stage.bin", "stage.meta", "list"},
   entry : ArchiveEntries, entries : SUBSET ArchiveEntries]

CardFiles  == {"bin", "meta"}
StageFiles == {"stage.bin", "stage.meta"}

(* A file of an entry on the card, and what it should hold.                 *)
FileOf(c, F, x) == IF F = "bin" THEN c[x.role][x.id].bin ELSE c[x.role][x.id].meta
Wanted(F, x)    == IF F = "bin" THEN x.image ELSE x.label
Whole(c, x)     == \A F \in CardFiles : FileOf(c, F, x) = Wanted(F, x)

Cards == [Roles -> [ArcIds -> [bin : FileContents, meta : FileContents]]]

(* Storage step s changes file F of entry x.                                *)
Touches(s, F, x) ==
  /\ s.op \in {"open", "fill", "unlink"} /\ s.file = F
  /\ s.entry.role = x.role /\ s.entry.id = x.id

(* A manifest of role r.                                                    *)
WellListed(es, r) ==
  /\ es \subseteq ArchiveEntries /\ IsFiniteSet(es)
  /\ \A e \in es : e.role = r
  /\ \A e, f \in es : e.id = f.id => e = f

(* After the steps p the file F of x holds what it should.                  *)
Coming(p, c, F, x) ==
  \/ \E j \in 1 .. Len(p) :
       /\ p[j].op = "fill" /\ p[j].file = F /\ p[j].entry = x
       /\ \A k \in j + 1 .. Len(p) : ~Touches(p[k], F, x)
  \/ /\ FileOf(c, F, x) = Wanted(F, x)
     /\ \A k \in 1 .. Len(p) : ~Touches(p[k], F, x)

StepKnown(s) ==
  /\ s.op \in {"open", "fill"} => s.file \in CardFiles \cup StageFiles
  /\ s.op = "unlink" => s.file \in CardFiles

Spares(p, l, d) ==
  \A i \in 1 .. Len(p), r \in Roles, F \in CardFiles :
    \A x \in l[r] : Touches(p[i], F, x) => x \in d

Lists(p, c, d) ==
  \A i \in 1 .. Len(p) : p[i].op = "write" =>
    /\ i = Len(p) /\ WellListed(p[i].entries, p[i].entry.role)
    /\ \A x \in p[i].entries \ d, F \in CardFiles : Coming(p, c, F, x)

PlanOK(p, c, l, d) ==
  /\ p \in Seq(ArchiveSteps) /\ \A i \in 1 .. Len(p) : StepKnown(p[i])
  /\ Spares(p, l, d) /\ Lists(p, c, d)

ListsOK ==
  /\ list \in [Roles -> SUBSET ArchiveEntries]
  /\ buffer \in [Roles -> (SUBSET ArchiveEntries) \cup {NoBuffer}]
  /\ \A r \in Roles : WellListed(list[r], r) /\ WellListed(InArchive(r), r)

StoresOK ==
  /\ card \in Cards /\ stage \in [bin : FileContents, meta : FileContents]
  /\ cuts \in 0 .. MaxCuts /\ errors \in 0 .. MaxErrors /\ doomed \subseteq ArchiveEntries

WholeOnCard ==
  \A r \in Roles : \A e \in (list[r] \cup InArchive(r)) \ doomed : Whole(card, e)

ArchiveInv ==
  /\ StoresOK /\ ListsOK /\ WholeOnCard
  /\ ~Free => \A r \in Roles : buffer[r] = NoBuffer
  /\ PlanOK(plan, card, list, doomed)

-----------------------------------------------------------------------------
LEMMA ArchiveConstants ==
  /\ NoEntry \in ArchiveEntries /\ \A r \in Roles : [NoEntry EXCEPT !.role = r] \in ArchiveEntries
  /\ \A r \in Roles : [NoEntry EXCEPT !.role = r].role = r
  /\ Torn \in FileContents /\ 0 \in FileContents /\ Images \subseteq FileContents
  /\ \A e \in ArchiveEntries : e.role \in Roles /\ e.id \in ArcIds /\ e.image \in FileContents
                                 /\ e.label \in FileContents
<1>1. (CHOOSE r \in Roles : TRUE) \in Roles
  BY ArchiveSizes
<1>2. 1 \in ArcIds /\ 1 \in Images
  BY ArchiveSizes DEF ArcIds, Images
<1>3. NoEntry \in ArchiveEntries
  BY <1>1, <1>2 DEF NoEntry, ArchiveEntries
<1>4. \A r \in Roles : [NoEntry EXCEPT !.role = r] \in ArchiveEntries /\ [NoEntry EXCEPT !.role = r].role = r
  BY <1>1, <1>2 DEF NoEntry, ArchiveEntries
<1>5. Torn \in FileContents /\ 0 \in FileContents /\ Images \subseteq FileContents
  BY ArchiveSizes DEF Torn, FileContents, Images
<1>6. \A e \in ArchiveEntries : e.role \in Roles /\ e.id \in ArcIds /\ e.image \in FileContents
                                 /\ e.label \in FileContents
  BY <1>5 DEF ArchiveEntries
<1> QED BY <1>3, <1>4, <1>5, <1>6

LEMMA ArchiveStepMade ==
  ASSUME NEW op \in {"open", "fill", "unlink", "truncate", "write"},
         NEW file \in CardFiles \cup StageFiles \cup {"list"}, NEW e \in ArchiveEntries
  PROVE  /\ Do(op, file, e) \in ArchiveSteps
         /\ Do(op, file, e).op = op /\ Do(op, file, e).file = file /\ Do(op, file, e).entry = e
BY DEF Do, ArchiveSteps, CardFiles, StageFiles

LEMMA ManifestSteps ==
  ASSUME NEW r \in Roles, NEW es \in SUBSET ArchiveEntries
  PROVE  LET m == SaveManifest(r, es)
         IN /\ m \in Seq(ArchiveSteps) /\ Len(m) = 2
            /\ m[1].op = "truncate" /\ m[2].op = "write"
            /\ m[2].entries = es /\ m[2].entry.role = r
<1> DEFINE e == [NoEntry EXCEPT !.role = r]
           t == Do("truncate", "list", e)
           w == [Do("write", "list", e) EXCEPT !.entries = es]
<1>1. e \in ArchiveEntries /\ e.role = r
  BY ArchiveConstants
<1> HIDE DEF e
<1>2. t \in ArchiveSteps /\ t.op = "truncate"
  BY <1>1, ArchiveStepMade
<1>3. w \in ArchiveSteps /\ w.op = "write" /\ w.entries = es /\ w.entry = e
  BY <1>1 DEF Do, ArchiveSteps
<1> HIDE DEF t, w
<1>4. SaveManifest(r, es) = << t, w >>
  BY DEF SaveManifest, t, w, e
<1> QED BY <1>1, <1>2, <1>3, <1>4

(* Two pairs of steps, and three.                                           *)
LEMMA TwoPairs ==
  ASSUME NEW S, NEW a \in S, NEW b \in S, NEW c \in S, NEW d \in S
  PROVE  << a, b >> \o << c, d >> = << a, b, c, d >>
<1> DEFINE s == << a, b >> \o << c, d >>
           u == << a, b, c, d >>
<1>1. Len(s) = 4 /\ s[1] = a /\ s[2] = b /\ s[3] = c /\ s[4] = d
  OBVIOUS
<1>2. u \in Seq(S) /\ Len(u) = 4 /\ u[1] = a /\ u[2] = b /\ u[3] = c /\ u[4] = d
  OBVIOUS
<1>3. s \in Seq(S)
  OBVIOUS
<1>4. \A i \in 1 .. 4 : i = 1 \/ i = 2 \/ i = 3 \/ i = 4
  OBVIOUS
<1> HIDE DEF s, u
<1>5. \A i \in 1 .. Len(s) : s[i] = u[i]
  BY <1>1, <1>2, <1>4
<1>6. s = u
  BY <1>1, <1>2, <1>3, <1>5, SeqEqual
<1> QED BY <1>6 DEF s, u

LEMMA ThreePairs ==
  ASSUME NEW S, NEW a \in S, NEW b \in S, NEW c \in S, NEW d \in S, NEW e \in S, NEW f \in S
  PROVE  << a, b >> \o << c, d >> \o << e, f >> = << a, b, c, d, e, f >>
<1> DEFINE s == << a, b, c, d >> \o << e, f >>
           u == << a, b, c, d, e, f >>
<1>1. Len(s) = 6 /\ s[1] = a /\ s[2] = b /\ s[3] = c /\ s[4] = d /\ s[5] = e /\ s[6] = f
  OBVIOUS
<1>2. /\ u \in Seq(S) /\ Len(u) = 6 /\ u[1] = a /\ u[2] = b /\ u[3] = c /\ u[4] = d
      /\ u[5] = e /\ u[6] = f
  OBVIOUS
<1>3. s \in Seq(S)
  OBVIOUS
<1>4. \A i \in 1 .. 6 : i = 1 \/ i = 2 \/ i = 3 \/ i = 4 \/ i = 5 \/ i = 6
  OBVIOUS
<1> HIDE DEF s, u
<1>5. \A i \in 1 .. Len(s) : s[i] = u[i]
  BY <1>1, <1>2, <1>4
<1>6. s = u
  BY <1>1, <1>2, <1>3, <1>5, SeqEqual
<1>7. << a, b >> \o << c, d >> = << a, b, c, d >>
  BY TwoPairs
<1> QED BY <1>6, <1>7 DEF s, u

(* A sequence followed by a pair.                                           *)
LEMMA Followed ==
  ASSUME NEW S, NEW s \in Seq(S), NEW t \in Seq(S), NEW n \in Nat, Len(s) = n, Len(t) = 2
  PROVE  /\ s \o t \in Seq(S) /\ Len(s \o t) = n + 2
         /\ (s \o t)[n + 1] = t[1] /\ (s \o t)[n + 2] = t[2]
         /\ \A i \in 1 .. n : (s \o t)[i] = s[i]
<1>1. /\ s \o t \in Seq(S) /\ Len(s \o t) = Len(s) + Len(t)
      /\ \A i \in 1 .. Len(s) + Len(t) :
           (s \o t)[i] = IF i <= Len(s) THEN s[i] ELSE t[i - Len(s)]
  BY ConcatProperties
<1>2. Len(s) + Len(t) = n + 2
  OBVIOUS
<1>3. /\ n + 1 \in 1 .. n + 2 /\ n + 2 \in 1 .. n + 2 /\ ~(n + 1 <= n) /\ ~(n + 2 <= n)
      /\ n + 1 - n = 1 /\ n + 2 - n = 2
      /\ \A i \in 1 .. n : i \in 1 .. n + 2 /\ i <= n
  OBVIOUS
<1>4. (s \o t)[n + 1] = t[1] /\ (s \o t)[n + 2] = t[2]
  BY <1>1, <1>2, <1>3
<1>5. \A i \in 1 .. n : (s \o t)[i] = s[i]
  BY <1>1, <1>2, <1>3
<1> QED BY <1>1, <1>2, <1>4, <1>5

(* The steps of a save: the two files of e, then the manifest.              *)
LEMMA SavePlan ==
  ASSUME NEW e \in ArchiveEntries, NEW es, NEW c, NEW l, NEW d,
         WellListed(es, e.role), \A x \in es : x.id # e.id,
         l[e.role] = es, \A r \in Roles : WellListed(l[r], r),
         \A x \in es \ d : Whole(c, x)
  PROVE  PlanOK(SaveSteps(e, es), c, l, d)
<1> DEFINE W == es \cup {e}
           m == SaveManifest(e.role, W)
           p == << Do("open", "bin", e), Do("fill", "bin", e), Do("open", "meta", e),
                   Do("fill", "meta", e), m[1], m[2] >>
<1>1. /\ W \in SUBSET ArchiveEntries /\ e.role \in Roles
      /\ WellListed(W, e.role)
  <2>1. IsFiniteSet(W)
    BY FS_AddElement DEF WellListed
  <2> QED BY <2>1, ArchiveConstants DEF WellListed
<1>2. /\ m \in Seq(ArchiveSteps) /\ Len(m) = 2 /\ m[1].op = "truncate" /\ m[2].op = "write"
      /\ m[2].entries = W /\ m[2].entry.role = e.role
  BY <1>1, ManifestSteps
<1> HIDE DEF m
<1>3. m[1] \in ArchiveSteps /\ m[2] \in ArchiveSteps /\ m = << m[1], m[2] >>
  BY <1>2
<1>4. SaveSteps(e, es) = p
  <2>1. SaveSteps(e, es) = << Do("open", "bin", e), Do("fill", "bin", e) >>
                          \o << Do("open", "meta", e), Do("fill", "meta", e) >> \o << m[1], m[2] >>
    BY <1>3 DEF SaveSteps, Copy, m
  <2>2. /\ Do("open", "bin", e) \in ArchiveSteps /\ Do("fill", "bin", e) \in ArchiveSteps
        /\ Do("open", "meta", e) \in ArchiveSteps /\ Do("fill", "meta", e) \in ArchiveSteps
    BY ArchiveStepMade DEF CardFiles
  <2> DEFINE a == Do("open", "bin", e)
             b == Do("fill", "bin", e)
             f == Do("open", "meta", e)
             g == Do("fill", "meta", e)
  <2>3. SaveSteps(e, es) = << a, b >> \o << f, g >> \o << m[1], m[2] >> /\ p = << a, b, f, g, m[1], m[2] >>
    BY <2>1
  <2>4. a \in ArchiveSteps /\ b \in ArchiveSteps /\ f \in ArchiveSteps /\ g \in ArchiveSteps
    BY <2>2
  <2> HIDE DEF a, b, f, g, p
  <2>5. << a, b >> \o << f, g >> \o << m[1], m[2] >> = << a, b, f, g, m[1], m[2] >>
    BY <1>3, <2>4, ThreePairs
  <2> QED BY <2>3, <2>5
<1>5. /\ p \in Seq(ArchiveSteps) /\ Len(p) = 6
      /\ p[1] = Do("open", "bin", e) /\ p[2] = Do("fill", "bin", e)
      /\ p[3] = Do("open", "meta", e) /\ p[4] = Do("fill", "meta", e)
      /\ p[5] = m[1] /\ p[6] = m[2]
  BY <1>3, ArchiveStepMade DEF CardFiles
<1> HIDE DEF p
<1>6. /\ p[1].op = "open" /\ p[2].op = "fill" /\ p[3].op = "open" /\ p[4].op = "fill"
      /\ p[5].op = "truncate" /\ p[6].op = "write"
      /\ p[1].file = "bin" /\ p[2].file = "bin" /\ p[3].file = "meta" /\ p[4].file = "meta"
      /\ \A i \in 1 .. 4 : p[i].entry = e
      /\ p[6].entries = W /\ p[6].entry.role = e.role
  <2>1. \A i \in 1 .. 4 : i = 1 \/ i = 2 \/ i = 3 \/ i = 4
    OBVIOUS
  <2> QED BY <2>1, <1>5, <1>2, ArchiveStepMade DEF CardFiles
<1>7. \A i \in 1 .. Len(p) : StepKnown(p[i])
  BY <1>5, <1>6 DEF StepKnown, CardFiles, StageFiles
<1>8. ASSUME NEW i \in 1 .. Len(p), NEW F \in CardFiles, NEW x, Touches(p[i], F, x)
      PROVE  x.role = e.role /\ x.id = e.id /\ i \in 1 .. 4
  BY <1>5, <1>6, <1>8 DEF Touches
<1>9. Spares(p, l, d)
  <2> SUFFICES ASSUME NEW i \in 1 .. Len(p), NEW r \in Roles, NEW F \in CardFiles,
                      NEW x \in l[r], Touches(p[i], F, x)
               PROVE  FALSE
    BY DEF Spares
  <2>1. x.role = r
    BY DEF WellListed
  <2> QED BY <2>1, <1>8
<1>10. ASSUME NEW x \in W, x \notin d, NEW F \in CardFiles
       PROVE  Coming(p, c, F, x)
  <2>1. CASE x = e /\ F = "bin"
    BY <2>1, <1>5, <1>6 DEF Coming, Touches
  <2>2. CASE x = e /\ F = "meta"
    BY <2>2, <1>5, <1>6 DEF Coming, Touches
  <2>3. CASE x # e
    <3>1. x \in es /\ x.id # e.id
      BY <2>3
    <3>2. FileOf(c, F, x) = Wanted(F, x)
      BY <3>1, <1>10 DEF Whole
    <3>3. \A k \in 1 .. Len(p) : ~Touches(p[k], F, x)
      BY <3>1, <1>8
    <3> QED BY <3>2, <3>3 DEF Coming
  <2> QED BY <2>1, <2>2, <2>3 DEF CardFiles
<1>11. Lists(p, c, d)
  <2>1. \A i \in 1 .. Len(p) : p[i].op = "write" => i = 6
    BY <1>5, <1>6
  <2> QED BY <2>1, <1>1, <1>5, <1>6, <1>10 DEF Lists
<1> QED BY <1>4, <1>5, <1>7, <1>9, <1>11 DEF PlanOK

(* The steps of a restore do not touch the card.                            *)
LEMMA RestorePlan ==
  ASSUME NEW e \in ArchiveEntries, NEW c, NEW l, NEW d
  PROVE  PlanOK(Copy("stage.bin", e) \o Copy("stage.meta", e), c, l, d)
<1> DEFINE p == << Do("open", "stage.bin", e), Do("fill", "stage.bin", e),
                   Do("open", "stage.meta", e), Do("fill", "stage.meta", e) >>
<1>1. Copy("stage.bin", e) \o Copy("stage.meta", e) = p
  <2>1. /\ Do("open", "stage.bin", e) \in ArchiveSteps /\ Do("fill", "stage.bin", e) \in ArchiveSteps
        /\ Do("open", "stage.meta", e) \in ArchiveSteps /\ Do("fill", "stage.meta", e) \in ArchiveSteps
    BY ArchiveStepMade DEF StageFiles
  <2> QED BY <2>1, TwoPairs DEF Copy
<1>2. p \in Seq(ArchiveSteps) /\ Len(p) = 4
  <2>1. /\ Do("open", "stage.bin", e) \in ArchiveSteps /\ Do("fill", "stage.bin", e) \in ArchiveSteps
        /\ Do("open", "stage.meta", e) \in ArchiveSteps /\ Do("fill", "stage.meta", e) \in ArchiveSteps
    BY ArchiveStepMade DEF StageFiles
  <2> QED BY <2>1
<1>3. \A i \in 1 .. Len(p) : /\ p[i].file \in StageFiles /\ p[i].op \in {"open", "fill"}
  <2>1. \A i \in 1 .. 4 : i = 1 \/ i = 2 \/ i = 3 \/ i = 4
    OBVIOUS
  <2> QED BY <2>1, <1>2, ArchiveStepMade DEF StageFiles
<1> HIDE DEF p
<1> QED
  BY <1>1, <1>2, <1>3 DEF PlanOK, StepKnown, Spares, Lists, Touches, CardFiles, StageFiles

(* The steps that remove the entries D, whose ids no other entry has, and   *)
(* write the manifest of the others.                                        *)
LEMMA RemovalPlan ==
  ASSUME NEW r \in Roles, NEW es, NEW c, NEW l, NEW d, NEW D \in SUBSET es,
         NEW n \in Nat, NEW p,
         p = [i \in 1 .. n |-> p[i]] \o SaveManifest(r, es \ D),
         \A i \in 1 .. n : /\ p[i] \in ArchiveSteps /\ p[i].op = "unlink"
                           /\ p[i].file \in CardFiles /\ p[i].entry \in D,
         WellListed(es, r), l[r] = es, \A s \in Roles : WellListed(l[s], s),
         D \subseteq d, \A x \in es \ d : Whole(c, x)
  PROVE  PlanOK(p, c, l, d)
<1> DEFINE W == es \ D
           m == SaveManifest(r, W)
           u == [i \in 1 .. n |-> p[i]]
<1>1. W \in SUBSET ArchiveEntries /\ WellListed(W, r)
  <2>1. IsFiniteSet(W)
    BY FS_Subset DEF WellListed
  <2> QED BY <2>1 DEF WellListed
<1>2. /\ m \in Seq(ArchiveSteps) /\ Len(m) = 2 /\ m[1].op = "truncate" /\ m[2].op = "write"
      /\ m[2].entries = W /\ m[2].entry.role = r
  BY <1>1, ManifestSteps
<1>3. u \in Seq(ArchiveSteps) /\ Len(u) = n
  OBVIOUS
<1>4. p = u \o m
  OBVIOUS
<1> HIDE DEF m, u
<1>5. /\ p \in Seq(ArchiveSteps) /\ Len(p) = n + 2
      /\ p[n + 1] = m[1] /\ p[n + 2] = m[2]
  <2>1. /\ u \o m \in Seq(ArchiveSteps) /\ Len(u \o m) = n + 2
        /\ (u \o m)[n + 1] = m[1] /\ (u \o m)[n + 2] = m[2]
    BY <1>2, <1>3, Followed
  <2> QED BY <1>4, <2>1
<1>6. \A i \in 1 .. Len(p) : i \in 1 .. n \/ i = n + 1 \/ i = n + 2
  BY <1>5
<1>7. \A i \in 1 .. Len(p) : StepKnown(p[i])
  BY <1>2, <1>5, <1>6 DEF StepKnown
<1>8. ASSUME NEW i \in 1 .. Len(p), NEW F \in CardFiles, NEW x, x \in es, Touches(p[i], F, x)
      PROVE  x \in D
  <2>1. i \in 1 .. n
    BY <1>8, <1>2, <1>5, <1>6 DEF Touches
  <2>2. p[i].entry \in es /\ p[i].entry.id = x.id
    BY <2>1, <1>8 DEF Touches
  <2>3. p[i].entry = x
    BY <2>2, <1>8 DEF WellListed
  <2> QED BY <2>1, <2>3
<1>9. Spares(p, l, d)
  <2> SUFFICES ASSUME NEW i \in 1 .. Len(p), NEW s \in Roles, NEW F \in CardFiles,
                      NEW x \in l[s], Touches(p[i], F, x)
               PROVE  x \in d
    BY DEF Spares
  <2>1. i \in 1 .. n
    BY <1>2, <1>5, <1>6 DEF Touches
  <2>2. p[i].entry.role = r /\ x.role = s
    BY <2>1 DEF WellListed
  <2>3. x \in es
    BY <2>2 DEF Touches
  <2> QED BY <2>3, <1>8
<1>10. ASSUME NEW x \in W, x \notin d, NEW F \in CardFiles
       PROVE  Coming(p, c, F, x)
  BY <1>8, <1>10 DEF Coming, Whole
<1>11. Lists(p, c, d)
  <2>1. \A i \in 1 .. Len(p) : p[i].op = "write" => i = n + 2
    BY <1>2, <1>5, <1>6
  <2> QED BY <2>1, <1>1, <1>2, <1>5, <1>10 DEF Lists
<1> QED BY <1>5, <1>7, <1>9, <1>11 DEF PlanOK

LEMMA DeletePlan ==
  ASSUME NEW r \in Roles, NEW es, NEW c, NEW l, NEW d, NEW e \in es,
         WellListed(es, r), l[r] = es, \A s \in Roles : WellListed(l[s], s),
         e \in d, \A x \in es \ d : Whole(c, x)
  PROVE  PlanOK(Unlink(e) \o SaveManifest(r, es \ {e}), c, l, d)
<1> DEFINE m == SaveManifest(r, es \ {e})
           p == Unlink(e) \o m
<1>1. e \in ArchiveEntries /\ es \ {e} \in SUBSET ArchiveEntries
  BY DEF WellListed
<1>2. m \in Seq(ArchiveSteps) /\ Len(m) = 2
  BY <1>1, ManifestSteps
<1>3. m[1] \in ArchiveSteps /\ m[2] \in ArchiveSteps /\ m = << m[1], m[2] >>
  BY <1>2
<1> HIDE DEF m
<1>4. p = << Do("unlink", "bin", e), Do("unlink", "meta", e), m[1], m[2] >>
  <2>1. Do("unlink", "bin", e) \in ArchiveSteps /\ Do("unlink", "meta", e) \in ArchiveSteps
    BY <1>1, ArchiveStepMade DEF CardFiles
  <2> DEFINE a == Do("unlink", "bin", e)
             b == Do("unlink", "meta", e)
             x == m[1]
             y == m[2]
  <2>2. Unlink(e) = << a, b >> /\ m = << x, y >>
    BY <1>3 DEF Unlink
  <2>3. a \in ArchiveSteps /\ b \in ArchiveSteps /\ x \in ArchiveSteps /\ y \in ArchiveSteps
    BY <1>3, <2>1
  <2> HIDE DEF a, b, x, y
  <2>4. << a, b >> \o << x, y >> = << a, b, x, y >>
    BY <2>3, TwoPairs
  <2>5. p = << a, b, x, y >>
    BY <2>2, <2>4
  <2> QED BY <2>5 DEF a, b, x, y
<1>5. p[1] = Do("unlink", "bin", e) /\ p[2] = Do("unlink", "meta", e)
  BY <1>4
<1> HIDE DEF p
<1>6. [i \in 1 .. 2 |-> p[i]] = Unlink(e)
  BY <1>5 DEF Unlink
<1>7. p = [i \in 1 .. 2 |-> p[i]] \o SaveManifest(r, es \ {e})
  BY <1>6 DEF p, m
<1>8. \A i \in 1 .. 2 : /\ p[i] \in ArchiveSteps /\ p[i].op = "unlink"
                        /\ p[i].file \in CardFiles /\ p[i].entry \in {e}
  <2>1. \A i \in 1 .. 2 : i = 1 \/ i = 2
    OBVIOUS
  <2> QED BY <2>1, <1>1, <1>5, ArchiveStepMade DEF CardFiles
<1>9. PlanOK(p, c, l, d)
  <2> DEFINE D == {e}
  <2>1. D \in SUBSET es /\ D \subseteq d
    OBVIOUS
  <2>2. \A i \in 1 .. 2 : /\ p[i] \in ArchiveSteps /\ p[i].op = "unlink"
                          /\ p[i].file \in CardFiles /\ p[i].entry \in D
    BY <1>8
  <2>3. p = [i \in 1 .. 2 |-> p[i]] \o SaveManifest(r, es \ D)
    BY <1>7
  <2> HIDE DEF D
  <2> QED BY <2>1, <2>2, <2>3, RemovalPlan
<1> QED BY <1>9 DEF p, m

(* SetToSeq(es) is a sequence of entries of es.                             *)
LEMMA Ordered ==
  ASSUME NEW es, IsFiniteSet(es)
  PROVE  SetToSeq(es) \in Seq(es)
<1> DEFINE n == Cardinality(es)
<1>1. n \in Nat /\ ExistsBijection(1 .. n, es)
  BY FS_CardinalityType
<1>2. \E f \in [1 .. n -> es] : IsInjective(f)
  BY <1>1 DEF ExistsBijection, Bijection, Injection
<1>3. SetToSeq(es) \in [1 .. n -> es]
  BY <1>2 DEF SetToSeq
<1> HIDE DEF n
<1> QED BY <1>1, <1>3, SeqDef

LEMMA ClearPlan ==
  ASSUME NEW r \in Roles, NEW es, NEW c, NEW l, NEW d,
         WellListed(es, r), l[r] = es, \A s \in Roles : WellListed(l[s], s),
         es \subseteq d
  PROVE  PlanOK(ClearArchiveSteps(es, r), c, l, d)
<1> DEFINE o == SetToSeq(es)
           n == 2 * Len(o)
           u == [i \in 1 .. n |-> Do("unlink", IF i % 2 = 1 THEN "bin" ELSE "meta",
                                     o[(i + 1) \div 2])]
           m == SaveManifest(r, {})
           p == u \o m
<1>1. o \in Seq(es) /\ es \subseteq ArchiveEntries
  BY Ordered DEF WellListed
<1> HIDE DEF o
<1>2. n \in Nat /\ Len(o) \in Nat
  BY <1>1
<1>3. \A i \in 1 .. n : (i + 1) \div 2 \in 1 .. Len(o)
  BY <1>2
<1> HIDE DEF n
<1>4. ASSUME NEW i \in 1 .. n
      PROVE  /\ u[i] \in ArchiveSteps /\ u[i].op = "unlink"
             /\ u[i].file \in CardFiles /\ u[i].entry \in es
  <2> DEFINE F == IF i % 2 = 1 THEN "bin" ELSE "meta"
             x == o[(i + 1) \div 2]
  <2>1. x \in es
    BY <1>1, <1>3
  <2>2. F \in CardFiles
    BY DEF CardFiles
  <2>3. u[i] = Do("unlink", F, x)
    OBVIOUS
  <2> HIDE DEF F, x
  <2> QED BY <1>1, <2>1, <2>2, <2>3, ArchiveStepMade
<1>5. u = [i \in 1 .. n |-> u[i]]
  OBVIOUS
<1> HIDE DEF u
<1>6. u \in Seq(ArchiveSteps) /\ Len(u) = n
  BY <1>2, <1>4, <1>5
<1>7. m \in Seq(ArchiveSteps) /\ Len(m) = 2
  BY ManifestSteps
<1>8. \A i \in 1 .. n : p[i] = u[i]
  BY <1>2, <1>6, <1>7, Followed
<1>9. [i \in 1 .. n |-> p[i]] = u
  BY <1>5, <1>8
<1>10. PlanOK(p, c, l, d)
  <2> DEFINE D == es
  <2>1. p = [i \in 1 .. n |-> p[i]] \o SaveManifest(r, es \ D)
    <3>1. es \ D = {}
      OBVIOUS
    <3> QED BY <1>9, <3>1
  <2>2. \A i \in 1 .. n : /\ p[i] \in ArchiveSteps /\ p[i].op = "unlink"
                          /\ p[i].file \in CardFiles /\ p[i].entry \in D
    BY <1>4, <1>8
  <2>3. D \in SUBSET es /\ D \subseteq d /\ \A x \in es \ d : Whole(c, x)
    OBVIOUS
  <2> HIDE DEF D, p
  <2> QED BY <1>2, <2>1, <2>2, <2>3, RemovalPlan
<1>11. ClearArchiveSteps(es, r) = p
  BY DEF ClearArchiveSteps, p, u, m, n, o
<1> QED BY <1>10, <1>11

-----------------------------------------------------------------------------
(* One step is done: what is left of the plan.                              *)
LEMMA TailFacts ==
  ASSUME NEW S, NEW p \in Seq(S), p # << >>
  PROVE  /\ Head(p) = p[1] /\ Head(p) \in S /\ Tail(p) \in Seq(S)
         /\ Len(p) \in Nat /\ 1 \in 1 .. Len(p) /\ Len(Tail(p)) = Len(p) - 1
         /\ \A i \in 1 .. Len(Tail(p)) : i + 1 \in 1 .. Len(p) /\ Tail(p)[i] = p[i + 1]
<1>1. Len(p) \in Nat \ {0}
  BY EmptySeq
<1>2. /\ Head(p) \in S /\ Tail(p) \in Seq(S) /\ Len(Tail(p)) = Len(p) - 1
      /\ \A i \in 1 .. Len(Tail(p)) : Tail(p)[i] = p[i + 1]
  BY HeadTailProperties
<1>3. Head(p) = p[1]
  BY <1>1
<1> QED BY <1>1, <1>2, <1>3

LEMMA PlanTail ==
  ASSUME NEW p, NEW c, NEW b, NEW l, NEW k, NEW d, PlanOK(p, c, l, d), p # << >>,
         \A r \in Roles : k[r] \subseteq l[r],
         \A F \in CardFiles, x \in ArchiveEntries :
            ~Touches(Head(p), F, x) => FileOf(b, F, x) = FileOf(c, F, x),
         Head(p).op = "fill" /\ Head(p).file \in CardFiles
            => FileOf(b, Head(p).file, Head(p).entry) = Wanted(Head(p).file, Head(p).entry)
  PROVE  PlanOK(Tail(p), b, k, d)
<1> DEFINE t == Tail(p)
           n == Len(p)
<1>1. /\ p \in Seq(ArchiveSteps) /\ Head(p) = p[1] /\ t \in Seq(ArchiveSteps)
      /\ n \in Nat /\ 1 \in 1 .. n /\ Len(t) = n - 1
      /\ \A i \in 1 .. Len(t) : i + 1 \in 1 .. n /\ t[i] = p[i + 1]
  BY TailFacts DEF PlanOK
<1> HIDE DEF t
<1>2. \A i \in 1 .. Len(t) : StepKnown(t[i])
  BY <1>1 DEF PlanOK
<1>3. Spares(t, k, d)
  BY <1>1 DEF PlanOK, Spares
<1>4. ASSUME NEW i \in 1 .. Len(t), t[i].op = "write"
      PROVE  /\ i = Len(t) /\ WellListed(t[i].entries, t[i].entry.role)
             /\ \A x \in t[i].entries \ d, F \in CardFiles : Coming(t, b, F, x)
  <2>1. i + 1 = n /\ t[i] = p[n] /\ n \in 1 .. n /\ p[n].op = "write"
    <3>1. i + 1 \in 1 .. n /\ t[i] = p[i + 1]
      BY <1>1
    <3>2. i + 1 = n
      BY <3>1, <1>4 DEF PlanOK, Lists
    <3> QED BY <3>1, <3>2, <1>4
  <2>2. WellListed(t[i].entries, t[i].entry.role)
    BY <2>1 DEF PlanOK, Lists
  <2>3. ASSUME NEW x \in t[i].entries \ d, NEW F \in CardFiles
        PROVE  Coming(t, b, F, x)
    <3>1. Coming(p, c, F, x) /\ x \in ArchiveEntries
      BY <2>1, <2>2 DEF PlanOK, Lists, WellListed
    <3>2. CASE \E j \in 1 .. n : /\ p[j].op = "fill" /\ p[j].file = F /\ p[j].entry = x
                                 /\ \A m \in j + 1 .. n : ~Touches(p[m], F, x)
      <4>1. PICK j \in 1 .. n : /\ p[j].op = "fill" /\ p[j].file = F /\ p[j].entry = x
                                /\ \A m \in j + 1 .. n : ~Touches(p[m], F, x)
        BY <3>2
      <4>2. CASE j = 1
        <5>1. FileOf(b, F, x) = Wanted(F, x)
          BY <4>1, <4>2, <1>1
        <5>2. \A m \in 1 .. Len(t) : ~Touches(t[m], F, x)
          <6> TAKE m \in 1 .. Len(t)
          <6>1. m + 1 \in j + 1 .. n /\ t[m] = p[m + 1]
            BY <4>2, <1>1
          <6> QED BY <6>1, <4>1
        <5> QED BY <5>1, <5>2 DEF Coming
      <4>3. CASE j # 1
        <5>1. j - 1 \in 1 .. Len(t) /\ t[j - 1] = p[j]
          <6>1. j - 1 \in 1 .. Len(t) /\ (j - 1) + 1 = j
            BY <4>3, <1>1
          <6> QED BY <6>1, <1>1
        <5>2. \A m \in (j - 1) + 1 .. Len(t) : ~Touches(t[m], F, x)
          <6> TAKE m \in (j - 1) + 1 .. Len(t)
          <6>1. m + 1 \in j + 1 .. n /\ m \in 1 .. Len(t)
            BY <4>3, <1>1
          <6>2. t[m] = p[m + 1]
            BY <6>1, <1>1
          <6> QED BY <6>1, <6>2, <4>1
        <5> QED BY <5>1, <5>2, <4>1 DEF Coming
      <4> QED BY <4>2, <4>3
    <3>3. CASE /\ FileOf(c, F, x) = Wanted(F, x)
               /\ \A m \in 1 .. n : ~Touches(p[m], F, x)
      <4>1. FileOf(b, F, x) = Wanted(F, x)
        BY <3>1, <3>3, <1>1
      <4>2. \A m \in 1 .. Len(t) : ~Touches(t[m], F, x)
        BY <3>3, <1>1
      <4> QED BY <4>1, <4>2 DEF Coming
    <3> QED BY <3>1, <3>2, <3>3 DEF Coming
  <2> QED BY <1>1, <2>1, <2>2, <2>3
<1>5. Lists(t, b, d)
  BY <1>4 DEF Lists
<1> QED BY <1>1, <1>2, <1>3, <1>5 DEF PlanOK, t

LEMMA NoPlan ==
  ASSUME NEW c, NEW l, NEW d
  PROVE  PlanOK(<< >>, c, l, d)
<1>1. << >> \in Seq(ArchiveSteps) /\ Len(<< >>) = 0
  BY EmptySeq
<1> QED BY <1>1 DEF PlanOK, Spares, Lists

(* A file is set: the others stay as they are.                              *)
LEMMA FileSet ==
  ASSUME StoresOK, NEW file \in CardFiles \cup StageFiles, NEW e \in ArchiveEntries,
         NEW v \in FileContents, SetFile(file, e, v)
  PROVE  /\ card' \in Cards /\ stage' \in [bin : FileContents, meta : FileContents]
         /\ \A F \in CardFiles, x \in ArchiveEntries :
              ~(file = F /\ e.role = x.role /\ e.id = x.id)
                => FileOf(card', F, x) = FileOf(card, F, x)
         /\ file \in CardFiles => FileOf(card', file, e) = v
<1>1. e.role \in Roles /\ e.id \in ArcIds /\ \A x \in ArchiveEntries : x.role \in Roles /\ x.id \in ArcIds
  BY ArchiveConstants
<1>2. CASE file = "bin"
  <2>1. card' = [card EXCEPT ![e.role][e.id].bin = v] /\ stage' = stage
    BY <1>2 DEF SetFile
  <2> QED BY <1>1, <1>2, <2>1 DEF StoresOK, Cards, FileOf, CardFiles
<1>3. CASE file = "meta"
  <2>1. card' = [card EXCEPT ![e.role][e.id].meta = v] /\ stage' = stage
    BY <1>3 DEF SetFile
  <2> QED BY <1>1, <1>3, <2>1 DEF StoresOK, Cards, FileOf, CardFiles
<1>4. CASE file \in StageFiles
  <2>1. card' = card /\ stage' \in [bin : FileContents, meta : FileContents]
    BY <1>4 DEF SetFile, StageFiles, StoresOK
  <2> QED BY <1>4, <2>1 DEF StoresOK, CardFiles, StageFiles
<1> QED BY <1>2, <1>3, <1>4 DEF CardFiles

-----------------------------------------------------------------------------
LEMMA ArchiveStarts ==
  ASSUME ArchiveInit
  PROVE  ArchiveInv
<1>1. /\ \A r \in Roles : list[r] = {} /\ buffer[r] = NoBuffer /\ InArchive(r) = {}
      /\ list \in [Roles -> SUBSET ArchiveEntries]
      /\ buffer \in [Roles -> (SUBSET ArchiveEntries) \cup {NoBuffer}]
  BY DEF ArchiveInit, InArchive
<1>2. ListsOK
  <2>1. WellListed({}, "s") /\ \A r \in Roles : WellListed({}, r)
    BY FS_EmptySet DEF WellListed
  <2> QED BY <1>1, <2>1 DEF ListsOK
<1>3. StoresOK
  <2>1. card \in Cards
    BY ArchiveConstants DEF ArchiveInit, Cards
  <2>2. stage \in [bin : FileContents, meta : FileContents]
    BY ArchiveConstants DEF ArchiveInit
  <2> QED BY <2>1, <2>2, ArchiveSizes DEF ArchiveInit, StoresOK
<1>4. PlanOK(plan, card, list, doomed)
  BY NoPlan DEF ArchiveInit
<1> QED BY <1>1, <1>2, <1>3, <1>4 DEF ArchiveInv, WholeOnCard, Free, ArchiveInit

(* A file of the card or of the staging directory is opened, filled or      *)
(* removed.                                                                 *)
LEMMA CardStep ==
  ASSUME ArchiveInv, ~Free, Now.op \in {"open", "fill", "unlink"},
         NEW v \in FileContents, SetFile(Now.file, Now.entry, v),
         \/ plan' = << >>
         \/ plan' = Tail(plan) /\ (Now.op = "fill" /\ Now.file \in CardFiles
                                      => v = Wanted(Now.file, Now.entry)),
         UNCHANGED <<list, buffer, doomed>>, cuts' \in 0 .. MaxCuts, errors' \in 0 .. MaxErrors
  PROVE  ArchiveInv'
<1>1. /\ plan \in Seq(ArchiveSteps) /\ plan # << >> /\ Now = plan[1] /\ Now \in ArchiveSteps
      /\ 1 \in 1 .. Len(plan) /\ StepKnown(Now)
  <2>1. plan \in Seq(ArchiveSteps) /\ plan # << >>
    BY DEF ArchiveInv, PlanOK, Free
  <2> QED BY <2>1, TailFacts DEF Now, ArchiveInv, PlanOK
<1>2. Now.file \in CardFiles \cup StageFiles /\ Now.entry \in ArchiveEntries
  BY <1>1 DEF StepKnown, ArchiveSteps
<1>3. /\ card' \in Cards /\ stage' \in [bin : FileContents, meta : FileContents]
      /\ \A F \in CardFiles, x \in ArchiveEntries :
           ~(Now.file = F /\ Now.entry.role = x.role /\ Now.entry.id = x.id)
             => FileOf(card', F, x) = FileOf(card, F, x)
      /\ Now.file \in CardFiles => FileOf(card', Now.file, Now.entry) = v
  BY <1>2, FileSet DEF ArchiveInv
<1>4. \A F \in CardFiles, x \in ArchiveEntries :
        ~Touches(Now, F, x) => FileOf(card', F, x) = FileOf(card, F, x)
  BY <1>3 DEF Touches
<1>5. \A r \in Roles : InArchive(r)' = InArchive(r)
  BY DEF InArchive
<1>6. \A r \in Roles : buffer[r] = NoBuffer /\ InArchive(r) = list[r] /\ list[r] \subseteq ArchiveEntries
  BY DEF ArchiveInv, InArchive, ListsOK
<1>7. WholeOnCard'
  <2> SUFFICES ASSUME NEW r \in Roles, NEW e \in list[r] \ doomed, NEW F \in CardFiles
               PROVE  FileOf(card', F, e) = Wanted(F, e)
    BY <1>5, <1>6 DEF WholeOnCard, Whole
  <2>1. ~Touches(Now, F, e)
    BY <1>1 DEF ArchiveInv, PlanOK, Spares
  <2>2. FileOf(card, F, e) = Wanted(F, e)
    BY DEF ArchiveInv, WholeOnCard, Whole
  <2> QED BY <1>4, <1>6, <2>1, <2>2
<1>8. PlanOK(plan', card', list', doomed')
  <2>1. CASE plan' = << >>
    BY <2>1, NoPlan
  <2>2. CASE /\ plan' = Tail(plan)
             /\ Now.op = "fill" /\ Now.file \in CardFiles => v = Wanted(Now.file, Now.entry)
    <3> DEFINE b == card'
    <3>1. /\ PlanOK(plan, card, list, doomed)
          /\ \A F \in CardFiles, x \in ArchiveEntries :
               ~Touches(Head(plan), F, x) => FileOf(b, F, x) = FileOf(card, F, x)
          /\ Head(plan).op = "fill" /\ Head(plan).file \in CardFiles
               => FileOf(b, Head(plan).file, Head(plan).entry)
                    = Wanted(Head(plan).file, Head(plan).entry)
      BY <1>3, <1>4, <2>2 DEF ArchiveInv, Now
    <3> HIDE DEF b
    <3>2. PlanOK(Tail(plan), b, list, doomed)
      BY <1>1, <3>1, PlanTail
    <3> QED BY <2>2, <3>2 DEF b
  <2> QED BY <2>1, <2>2
<1>9. StoresOK'
  BY <1>3 DEF ArchiveInv, StoresOK
<1>10. ListsOK'
  BY <1>5 DEF ArchiveInv, ListsOK
<1>11. ~Free' => \A r \in Roles : buffer'[r] = NoBuffer
  BY <1>6
<1> QED BY <1>7, <1>8, <1>9, <1>10, <1>11 DEF ArchiveInv

(* The handler ends, or the power goes, and the files stay as they are.     *)
LEMMA HandlerEnds ==
  ASSUME ArchiveInv, plan' = << >>, UNCHANGED <<card, stage, doomed>>, ListsOK',
         cuts' \in 0 .. MaxCuts, errors' \in 0 .. MaxErrors,
         \A r \in Roles : list'[r] \cup InArchive(r)' \subseteq list[r] \cup InArchive(r)
  PROVE  ArchiveInv'
<1>1. WholeOnCard'
  BY DEF ArchiveInv, WholeOnCard
<1>2. PlanOK(plan', card', list', doomed')
  BY NoPlan
<1>3. StoresOK'
  BY DEF ArchiveInv, StoresOK
<1> QED BY <1>1, <1>2, <1>3 DEF ArchiveInv, Free

LEMMA OpensKeep == ASSUME ArchiveInv, Opens PROVE ArchiveInv'
<1>1. CASE Source = 0
  <2>1. ListsOK'
    BY DEF Opens, ArchiveInv, ListsOK, InArchive
  <2>2. \A r \in Roles : InArchive(r)' = InArchive(r)
    BY DEF Opens, InArchive
  <2>3. plan' = << >> /\ UNCHANGED <<card, stage, doomed, list, cuts, errors>>
    BY <1>1 DEF Opens
  <2> QED BY <2>1, <2>2, <2>3, HandlerEnds DEF ArchiveInv, StoresOK
<1>2. CASE Source # 0
  <2>1. /\ ~Free /\ Now.op = "open" /\ plan' = Tail(plan) /\ SetFile(Now.file, Now.entry, Torn)
        /\ UNCHANGED <<list, buffer, doomed>> /\ UNCHANGED <<cuts, errors>>
    BY <1>2 DEF Opens, Does
  <2>2. Torn \in FileContents
    BY ArchiveConstants
  <2>3. cuts' \in 0 .. MaxCuts /\ errors' \in 0 .. MaxErrors
    BY <2>1 DEF ArchiveInv, StoresOK
  <2> QED BY <2>1, <2>2, <2>3, CardStep
<1> QED BY <1>1, <1>2

LEMMA HeadKnown ==
  ASSUME ArchiveInv, ~Free
  PROVE  Now \in ArchiveSteps /\ StepKnown(Now)
<1>1. plan \in Seq(ArchiveSteps) /\ plan # << >>
  BY DEF ArchiveInv, PlanOK, Free
<1> QED BY <1>1, TailFacts DEF Now, ArchiveInv, PlanOK

LEMMA FillsKeep == ASSUME ArchiveInv, Fills PROVE ArchiveInv'
<1>1. /\ ~Free /\ Now.op = "fill" /\ plan' = Tail(plan) /\ SetFile(Now.file, Now.entry, Source)
      /\ UNCHANGED <<list, buffer, doomed>> /\ UNCHANGED <<cuts, errors>>
  BY DEF Fills, Does
<1>2. Now \in ArchiveSteps /\ Now.file \in CardFiles \cup StageFiles
  BY <1>1, HeadKnown DEF StepKnown
<1>3. Source \in FileContents
  <2>1. Now.entry \in ArchiveEntries /\ card \in Cards
    BY <1>2 DEF ArchiveSteps, ArchiveInv, StoresOK
  <2>2. /\ Now.entry.role \in Roles /\ Now.entry.id \in ArcIds
        /\ Now.entry.image \in FileContents /\ Now.entry.label \in FileContents
    BY <2>1, ArchiveConstants
  <2>3. /\ card[Now.entry.role][Now.entry.id].bin \in FileContents
        /\ card[Now.entry.role][Now.entry.id].meta \in FileContents
    BY <2>1, <2>2 DEF Cards
  <2> QED BY <1>2, <2>2, <2>3 DEF Source, CardFiles, StageFiles
<1>4. Now.file \in CardFiles => Source = Wanted(Now.file, Now.entry)
  BY DEF Source, Wanted, CardFiles
<1>5. cuts' \in 0 .. MaxCuts /\ errors' \in 0 .. MaxErrors
  BY <1>1 DEF ArchiveInv, StoresOK
<1> QED BY <1>1, <1>3, <1>4, <1>5, CardStep

LEMMA UnlinksKeep == ASSUME ArchiveInv, Unlinks PROVE ArchiveInv'
<1>1. /\ ~Free /\ Now.op = "unlink" /\ plan' = Tail(plan) /\ SetFile(Now.file, Now.entry, 0)
      /\ UNCHANGED <<list, buffer, doomed>> /\ UNCHANGED <<cuts, errors>>
  BY DEF Unlinks, Does
<1>2. 0 \in FileContents
  BY ArchiveConstants
<1>3. cuts' \in 0 .. MaxCuts /\ errors' \in 0 .. MaxErrors
  BY <1>1 DEF ArchiveInv, StoresOK
<1> QED BY <1>1, <1>2, <1>3, CardStep

LEMMA StepFailsKeep == ASSUME ArchiveInv, StepFails PROVE ArchiveInv'
<1>1. /\ ~Free /\ plan' = << >> /\ UNCHANGED <<list, buffer, doomed>> /\ cuts' = cuts
      /\ errors' \in 0 .. MaxErrors /\ cuts' \in 0 .. MaxCuts
  BY ArchiveSizes DEF StepFails, ArchiveInv, StoresOK
<1>2. CASE Now.op = "fill"
  <2>1. SetFile(Now.file, Now.entry, 0)
    BY <1>2 DEF StepFails
  <2>2. 0 \in FileContents
    BY ArchiveConstants
  <2> QED BY <1>1, <1>2, <2>1, <2>2, CardStep
<1>3. CASE Now.op # "fill"
  <2>1. UNCHANGED <<card, stage>>
    BY <1>3 DEF StepFails
  <2>2. \A r \in Roles : InArchive(r)' = InArchive(r)
    BY <1>1 DEF InArchive
  <2>3. ListsOK'
    BY <1>1, <2>2 DEF ArchiveInv, ListsOK
  <2> QED BY <1>1, <2>1, <2>2, <2>3, HandlerEnds
<1> QED BY <1>2, <1>3

LEMMA PowerCutKeeps == ASSUME ArchiveInv, PowerCut PROVE ArchiveInv'
<1>1. /\ plan' = << >> /\ UNCHANGED <<card, stage, doomed>> /\ list' = list /\ errors' = errors
      /\ cuts' \in 0 .. MaxCuts /\ errors' \in 0 .. MaxErrors
  BY ArchiveSizes DEF PowerCut, ArchiveInv, StoresOK
<1>2. \A r \in Roles : buffer'[r] = NoBuffer /\ InArchive(r)' = list[r]
  BY <1>1 DEF PowerCut, InArchive
<1>3. ListsOK'
  <2>1. buffer' \in [Roles -> (SUBSET ArchiveEntries) \cup {NoBuffer}]
    BY DEF PowerCut
  <2> QED BY <1>1, <1>2, <2>1 DEF ArchiveInv, ListsOK
<1> QED BY <1>1, <1>2, <1>3, HandlerEnds

LEMMA ClearAllKeeps == ASSUME ArchiveInv, ClearAll PROVE ArchiveInv'
<1>1. /\ plan' = << >> /\ UNCHANGED <<card, stage, doomed>> /\ UNCHANGED <<cuts, errors>>
      /\ cuts' \in 0 .. MaxCuts /\ errors' \in 0 .. MaxErrors
  BY DEF ClearAll, Free, ArchiveInv, StoresOK
<1>2. \A r \in Roles : buffer'[r] = NoBuffer /\ list'[r] = {} /\ InArchive(r)' = {}
  BY DEF ClearAll, InArchive
<1>3. ListsOK'
  <2>1. /\ buffer' \in [Roles -> (SUBSET ArchiveEntries) \cup {NoBuffer}]
        /\ list' \in [Roles -> SUBSET ArchiveEntries]
    BY DEF ClearAll
  <2>2. \A r \in Roles : WellListed({}, r)
    BY FS_EmptySet DEF WellListed
  <2> QED BY <1>2, <2>1, <2>2 DEF ListsOK
<1> QED BY <1>1, <1>2, <1>3, HandlerEnds

LEMMA TruncatesKeep == ASSUME ArchiveInv, Truncates PROVE ArchiveInv'
<1>1. /\ ~Free /\ Now.op = "truncate" /\ plan' = Tail(plan)
      /\ list' = [list EXCEPT ![Now.entry.role] = {}]
      /\ UNCHANGED <<card, buffer, stage, cuts, errors, doomed>>
  BY DEF Truncates, Does
<1>2. \A r \in Roles : /\ buffer[r] = NoBuffer /\ InArchive(r) = list[r]
                       /\ InArchive(r)' = list'[r] /\ list'[r] \in {{}, list[r]}
  BY <1>1 DEF ArchiveInv, ListsOK, InArchive
<1>3. plan \in Seq(ArchiveSteps) /\ plan # << >> /\ Now = Head(plan)
  BY <1>1 DEF ArchiveInv, PlanOK, Free, Now
<1>4. PlanOK(plan', card', list', doomed')
  <2> DEFINE k == list'
  <2>1. \A r \in Roles : k[r] \subseteq list[r]
    BY <1>2
  <2>2. PlanOK(plan, card, list, doomed)
    BY DEF ArchiveInv
  <2> HIDE DEF k
  <2>3. PlanOK(Tail(plan), card, k, doomed)
    BY <1>1, <1>3, <2>1, <2>2, PlanTail
  <2> QED BY <1>1, <2>3 DEF k
<1>5. ListsOK'
  <2>1. \A r \in Roles : WellListed({}, r)
    BY FS_EmptySet DEF WellListed
  <2>2. list' \in [Roles -> SUBSET ArchiveEntries]
    BY <1>1 DEF ArchiveInv, ListsOK
  <2> QED BY <1>1, <1>2, <2>1, <2>2 DEF ArchiveInv, ListsOK
<1>6. WholeOnCard'
  BY <1>1, <1>2 DEF ArchiveInv, WholeOnCard
<1> QED BY <1>1, <1>2, <1>4, <1>5, <1>6 DEF ArchiveInv, StoresOK

LEMMA WritesKeep == ASSUME ArchiveInv, Writes PROVE ArchiveInv'
<1> DEFINE r == Now.entry.role
           W == Now.entries
<1>1. /\ ~Free /\ Now.op = "write" /\ plan' = Tail(plan)
      /\ UNCHANGED <<card, stage, cuts, errors, doomed>>
      /\ \/ list' = [list EXCEPT ![r] = W] /\ UNCHANGED buffer
         \/ buffer' = [buffer EXCEPT ![r] = W] /\ UNCHANGED list
  BY DEF Writes, Does
<1>2. /\ plan \in Seq(ArchiveSteps) /\ Now = plan[1] /\ 1 \in 1 .. Len(plan)
      /\ Tail(plan) \in Seq(ArchiveSteps) /\ Len(Tail(plan)) = Len(plan) - 1
  <2>1. plan \in Seq(ArchiveSteps) /\ plan # << >>
    BY <1>1 DEF ArchiveInv, PlanOK, Free
  <2> QED BY <2>1, TailFacts DEF Now
<1>3. /\ 1 = Len(plan) /\ WellListed(W, r)
      /\ \A x \in W \ doomed, F \in CardFiles : Coming(plan, card, F, x)
  BY <1>1, <1>2 DEF ArchiveInv, PlanOK, Lists
<1>4. plan' = << >>
  BY <1>1, <1>2, <1>3, EmptySeq
<1>5. r \in Roles
  BY <1>1, HeadKnown, ArchiveConstants DEF ArchiveSteps
<1>6. \A x \in W \ doomed : Whole(card, x)
  <2> SUFFICES ASSUME NEW x \in W \ doomed, NEW F \in CardFiles
               PROVE  FileOf(card, F, x) = Wanted(F, x)
    BY DEF Whole
  <2>1. ~\E j \in 1 .. Len(plan) : plan[j].op = "fill"
    BY <1>1, <1>2, <1>3
  <2> QED BY <1>3, <2>1 DEF Coming
<1> HIDE DEF r, W
<1>7. \A s \in Roles : /\ buffer[s] = NoBuffer /\ InArchive(s) = list[s]
                       /\ list'[s] \in {list[s]} \cup (IF s = r THEN {W} ELSE {})
                       /\ InArchive(s)' \in {list[s]} \cup (IF s = r THEN {W} ELSE {})
  BY <1>1, <1>5 DEF ArchiveInv, ListsOK, InArchive
<1>8. ListsOK'
  <2>1. W \in SUBSET ArchiveEntries
    BY <1>3 DEF WellListed
  <2>2. /\ list' \in [Roles -> SUBSET ArchiveEntries]
        /\ buffer' \in [Roles -> (SUBSET ArchiveEntries) \cup {NoBuffer}]
    BY <1>1, <1>5, <2>1 DEF ArchiveInv, ListsOK
  <2>3. \A s \in Roles : WellListed(list'[s], s) /\ WellListed(InArchive(s)', s)
    BY <1>3, <1>7 DEF ArchiveInv, ListsOK
  <2> QED BY <2>2, <2>3 DEF ListsOK
<1>9. WholeOnCard'
  BY <1>1, <1>6, <1>7 DEF ArchiveInv, WholeOnCard
<1>10. PlanOK(plan', card', list', doomed')
  BY <1>4, NoPlan
<1> QED BY <1>1, <1>4, <1>8, <1>9, <1>10 DEF ArchiveInv, StoresOK, Free

(* A command begins.                                                        *)
LEMMA CommandBegins ==
  ASSUME ArchiveInv, NEW steps, Begins(steps), UNCHANGED <<card, stage, cuts, errors>>,
         doomed' \subseteq ArchiveEntries,
         \A r \in Roles : \A x \in InArchive(r) \ doomed' : Whole(card, x),
         PlanOK(steps, card, AfterFlush, doomed')
  PROVE  ArchiveInv'
<1>1. plan' = steps /\ list' = AfterFlush /\ buffer' = [r \in Roles |-> NoBuffer]
  BY DEF Begins
<1>2. \A r \in Roles : /\ list'[r] = InArchive(r) /\ InArchive(r)' = InArchive(r)
                       /\ buffer'[r] = NoBuffer
  BY <1>1 DEF AfterFlush, InArchive
<1>3. ListsOK'
  <2>1. list' \in [Roles -> SUBSET ArchiveEntries]
    BY <1>1 DEF ArchiveInv, ListsOK, AfterFlush, WellListed
  <2>2. buffer' \in [Roles -> (SUBSET ArchiveEntries) \cup {NoBuffer}]
    BY <1>1
  <2> QED BY <1>2, <2>1, <2>2 DEF ArchiveInv, ListsOK
<1>4. WholeOnCard'
  BY <1>2 DEF WholeOnCard
<1>5. PlanOK(plan', card', list', doomed')
  BY <1>1
<1> QED BY <1>2, <1>3, <1>4, <1>5 DEF ArchiveInv, StoresOK

LEMMA FlushedLists ==
  ASSUME ArchiveInv
  PROVE  /\ \A r \in Roles : AfterFlush[r] = InArchive(r) /\ WellListed(AfterFlush[r], r)
         /\ \A r \in Roles : \A x \in InArchive(r) \ doomed : Whole(card, x)
         /\ \A r \in Roles : InArchive(r) \subseteq ArchiveEntries
BY DEF AfterFlush, ArchiveInv, ListsOK, WholeOnCard, WellListed

LEMMA SavesKeeps ==
  ASSUME ArchiveInv, NEW role \in Roles, NEW image \in Images \cup {Torn}, NEW label \in Images,
         Saves(role, image, label)
  PROVE  ArchiveInv'
<1>1. PICK id \in FreshIds(role) :
        /\ Begins(SaveSteps([role |-> role, id |-> id, image |-> image, label |-> label],
                            InArchive(role)))
        /\ doomed' = {e \in doomed : ~(e.role = role /\ e.id = id)}
  BY DEF Saves
<1> DEFINE e == [role |-> role, id |-> id, image |-> image, label |-> label]
           es == InArchive(role)
<1>2. e \in ArchiveEntries /\ e.role = role /\ e.id = id
  BY DEF FreshIds, ArchiveEntries
<1>3. /\ WellListed(es, e.role) /\ \A x \in es : x.id # e.id
      /\ AfterFlush[e.role] = es /\ \A r \in Roles : WellListed(AfterFlush[r], r)
  BY <1>2, FlushedLists DEF FreshIds, UsedIds
<1>4. \A r \in Roles : \A x \in InArchive(r) \ doomed' : Whole(card, x)
  <2> SUFFICES ASSUME NEW r \in Roles, NEW x \in InArchive(r) \ doomed'
               PROVE  x \notin doomed
    BY FlushedLists
  <2>1. x.role = r
    BY DEF ArchiveInv, ListsOK, WellListed
  <2>2. ~(x.role = role /\ x.id = id)
    BY <1>2, <1>3, <2>1
  <2> QED BY <1>1, <2>2
<1>5. \A x \in es \ doomed' : Whole(card, x)
  BY <1>4
<1> DEFINE d == doomed'
           steps == SaveSteps(e, es)
<1>6. PlanOK(steps, card, AfterFlush, d)
  <2> HIDE DEF e, d, es
  <2> QED BY <1>2, <1>3, <1>5, SavePlan DEF d
<1>7. Begins(steps)
  BY <1>1
<1>8. doomed' \subseteq ArchiveEntries /\ UNCHANGED <<card, stage, cuts, errors>>
  BY <1>1 DEF ArchiveInv, StoresOK, Saves
<1> HIDE DEF steps
<1> QED BY <1>4, <1>6, <1>7, <1>8, CommandBegins

LEMMA SaveStagedKeeps ==
  ASSUME ArchiveInv, NEW role \in Roles, SaveStaged(role)
  PROVE  ArchiveInv'
<1>1. stage.bin \in Images \cup {Torn} /\ stage.meta \in Images /\ Saves(role, stage.bin, stage.meta)
  BY ArchiveSizes DEF SaveStaged, ArchiveInv, StoresOK, FileContents, Images, Torn
<1> QED BY <1>1, SavesKeeps

LEMMA SaveRunningKeeps == ASSUME ArchiveInv, SaveRunning PROVE ArchiveInv'
<1>1. "s" \in Roles /\ 1 \in Images /\ Saves("s", 1, 1)
  BY ArchiveSizes DEF SaveRunning, Images
<1> QED BY <1>1, SavesKeeps

LEMMA RestoreKeeps ==
  ASSUME ArchiveInv, NEW role \in Roles, NEW e \in InArchive(role), Restore(e)
  PROVE  ArchiveInv'
<1> DEFINE d == doomed'
           steps == Copy("stage.bin", e) \o Copy("stage.meta", e)
<1>1. Begins(steps) /\ UNCHANGED <<card, stage, cuts, errors, doomed>>
  BY DEF Restore
<1>2. e \in ArchiveEntries /\ doomed' \subseteq ArchiveEntries
  BY <1>1, FlushedLists DEF ArchiveInv, StoresOK
<1>3. PlanOK(steps, card, AfterFlush, d)
  <2> HIDE DEF d
  <2> QED BY <1>2, RestorePlan
<1>4. \A r \in Roles : \A x \in InArchive(r) \ doomed' : Whole(card, x)
  BY <1>1, FlushedLists
<1> HIDE DEF steps
<1> QED BY <1>1, <1>2, <1>3, <1>4, CommandBegins

LEMMA DeleteKeeps ==
  ASSUME ArchiveInv, NEW role \in Roles, NEW e \in InArchive(role), Delete(e)
  PROVE  ArchiveInv'
<1> DEFINE d == doomed'
           es == InArchive(role)
           steps == Unlink(e) \o SaveManifest(role, es \ {e})
<1>1. e.role = role
  BY DEF ArchiveInv, ListsOK, WellListed
<1>2. Begins(steps) /\ UNCHANGED <<card, stage, cuts, errors>> /\ doomed' = doomed \cup {e}
  BY <1>1 DEF Delete
<1>3. doomed' \subseteq ArchiveEntries
  BY <1>2, FlushedLists DEF ArchiveInv, StoresOK
<1>4. \A r \in Roles : \A x \in InArchive(r) \ doomed' : Whole(card, x)
  BY <1>2, FlushedLists
<1>5. PlanOK(steps, card, AfterFlush, d)
  <2>1. /\ WellListed(es, role) /\ AfterFlush[role] = es
        /\ \A r \in Roles : WellListed(AfterFlush[r], r)
    BY FlushedLists
  <2>2. e \in d /\ e \in es /\ \A x \in es \ d : Whole(card, x)
    BY <1>2, <1>4
  <2> HIDE DEF d, es
  <2> QED BY <2>1, <2>2, DeletePlan
<1> HIDE DEF steps
<1> QED BY <1>2, <1>3, <1>4, <1>5, CommandBegins

LEMMA ClearArchiveKeeps ==
  ASSUME ArchiveInv, NEW role \in Roles, ClearArchive(role)
  PROVE  ArchiveInv'
<1> DEFINE d == doomed'
           es == InArchive(role)
           steps == ClearArchiveSteps(es, role)
<1>1. Begins(steps) /\ UNCHANGED <<card, stage, cuts, errors>> /\ doomed' = doomed \cup es
  BY DEF ClearArchive
<1>2. doomed' \subseteq ArchiveEntries
  BY <1>1, FlushedLists DEF ArchiveInv, StoresOK
<1>3. \A r \in Roles : \A x \in InArchive(r) \ doomed' : Whole(card, x)
  BY <1>1, FlushedLists
<1>4. PlanOK(steps, card, AfterFlush, d)
  <2>1. /\ WellListed(es, role) /\ AfterFlush[role] = es
        /\ \A r \in Roles : WellListed(AfterFlush[r], r)
    BY FlushedLists
  <2>2. es \subseteq d
    BY <1>1
  <2> HIDE DEF d, es
  <2> QED BY <2>1, <2>2, ClearPlan
<1> HIDE DEF steps
<1> QED BY <1>1, <1>2, <1>3, <1>4, CommandBegins

LEMMA ArchiveStep == ASSUME ArchiveInv, [ArchiveNext]_archiveVars PROVE ArchiveInv'
<1>1. CASE UNCHANGED archiveVars
  BY <1>1 DEF ArchiveInv, archiveVars, StoresOK, ListsOK, WholeOnCard, Free, InArchive
<1>2. CASE ArchiveNext
  <2>1. CASE \E r \in Roles : SaveStaged(r) \/ ClearArchive(r)
    BY <2>1, SaveStagedKeeps, ClearArchiveKeeps
  <2>2. CASE SaveRunning
    BY <2>2, SaveRunningKeeps
  <2>3. CASE \E r \in Roles : \E e \in InArchive(r) : Restore(e) \/ Delete(e)
    BY <2>3, RestoreKeeps, DeleteKeeps
  <2>4. CASE ClearAll
    BY <2>4, ClearAllKeeps
  <2>5. CASE Opens \/ Fills \/ Unlinks \/ Truncates \/ Writes
    BY <2>5, OpensKeep, FillsKeep, UnlinksKeep, TruncatesKeep, WritesKeep
  <2>6. CASE StepFails \/ PowerCut
    BY <2>6, StepFailsKeep, PowerCutKeeps
  <2> QED BY <1>2, <2>1, <2>2, <2>3, <2>4, <2>5, <2>6 DEF ArchiveNext
<1> QED BY <1>1, <1>2

LEMMA ArchiveInvHolds == ArchiveSpec => []ArchiveInv
<1>1. ArchiveInit => ArchiveInv
  BY ArchiveStarts
<1>2. ArchiveInv /\ [ArchiveNext]_archiveVars => ArchiveInv'
  BY ArchiveStep
<1> QED BY <1>1, <1>2, PTL DEF ArchiveSpec

(* Every image the manifest lists is on the card with both its files whole  *)
(* until its own removal begins: saveToArchive writes the files before the  *)
(* manifest, a clear empties the manifest after the files are gone, and the *)
(* plan of a handler says which files its remaining steps touch.            *)
THEOREM ListedAreWhole == ArchiveSpec => []ListedIsWhole
<1>1. ArchiveInv => ListedIsWhole
  BY DEF ArchiveInv, WholeOnCard, ListedIsWhole, Whole, FileOf, Wanted, CardFiles, ListsOK, WellListed
<1> QED BY <1>1, ArchiveInvHolds, PTL

(* The card, the manifests, the staged files and the storage steps of the   *)
(* archive handlers keep their types.                                       *)
THEOREM ArchiveTypeCorrect == ArchiveSpec => []ArchiveTypeOK
<1>1. ArchiveInv => ArchiveTypeOK
  <2> SUFFICES ASSUME ArchiveInv PROVE ArchiveTypeOK
    OBVIOUS
  <2>1. \A i \in DOMAIN plan : plan[i] \in ArchiveSteps
    BY DEF ArchiveInv, PlanOK
  <2>2. \A i \in DOMAIN plan : plan[i].entry \in ArchiveEntries /\ plan[i].entries \subseteq ArchiveEntries
    BY <2>1 DEF ArchiveSteps
  <2>3. \A r \in Roles : list[r] \subseteq ArchiveEntries /\ InArchive(r) \subseteq ArchiveEntries
    BY DEF ArchiveInv, ListsOK, WellListed
  <2> QED BY <2>2, <2>3 DEF ArchiveTypeOK, ArchiveInv, StoresOK, Cards
<1> QED BY <1>1, ArchiveInvHolds, PTL

-----------------------------------------------------------------------------
(* The update of a slave.                                                   *)

SavesRecord(s) == s.op = "write" /\ s.file = "rec"

HasFlash(q) == \E i \in 1 .. Len(q) : q[i].op = "flash"
HasSave(q)  == \E i \in 1 .. Len(q) : SavesRecord(q[i])
SavesBoot(q) == \E i \in 1 .. Len(q) : SavesRecord(q[i]) /\ q[i].rec.state = "boot_ok"
HasPop(q)   == \E i \in 1 .. Len(q) : q[i].op = "pop"

(* A storage step makes sense.                                              *)
StepOK(s) ==
  /\ s.op = "remove" => s.file \in {"bin", "man", "rec"}
  /\ s.op = "promote" => s.file = "bin"
  /\ s.op \in {"truncate", "write"} => s.file \in {"rec", "man"}
  /\ s.op \in {"erase", "flash"} => s.file = "app"
  /\ s.op = "flash" => s.v \in Versions
  /\ s.op \in {"load", "confirm"} => s.file = "rec"
  /\ s.op = "pop" => s.file = "queue"
  /\ SavesRecord(s) => s.rec.state # "none"

(* The steps of an agenda come in the order of its handler.                 *)
ShapeAt(q, i) ==
  /\ StepOK(q[i])
  /\ SavesRecord(q[i]) => \A k \in 1 .. Len(q) : SavesRecord(q[k]) => k = i
  /\ q[i].op = "truncate" =>
       i < Len(q) /\ q[i + 1].op = "write" /\ q[i + 1].file = q[i].file
  /\ q[i].op = "erase" => i = 1 /\ i < Len(q) /\ q[i + 1].op = "flash"
  /\ q[i].op = "flash" =>
       /\ i = 1 \/ (i = 2 /\ q[1].op = "erase")
       /\ \E k \in i + 1 .. Len(q) : SavesRecord(q[k]) /\ q[k].rec = Pending(q[i].v)
  /\ q[i].op = "confirm" =>
       i = Len(q) /\ \A k \in 1 .. Len(q) : q[k].op \in {"remove", "load", "confirm"}
  /\ q[i].op = "pop" =>
       /\ i = Len(q)
       /\ \A k \in 1 .. Len(q) : k < i => q[k].file = "rec" /\ q[k].op \in {"truncate", "write"}

Shape(q) == q \in Seq(Steps) /\ Len(q) <= 8 /\ \A i \in 1 .. Len(q) : ShapeAt(q, i)

(* What an agenda will save, and confirm; s says whether the device strayed,*)
(* g whether the gate of the application looks.                             *)
Trusted(q, A, s, g) ==
  /\ \A i \in 1 .. Len(q) : SavesRecord(q[i]) /\ q[i].rec.state = "pending_boot" =>
        HasFlash(q) \/ (A.next = "other" /\ A.other = q[i].rec.image)
  /\ \A i \in 1 .. Len(q) : SavesRecord(q[i]) /\ q[i].rec.state = "boot_ok" =>
        (q[i].rec.sw # q[i].rec.image => s /\ ~g)
  /\ \A i \in 1 .. Len(q) : q[i].op = "confirm" => A.next = "run"

(* The applied image is the one that runs or will boot.                     *)
Applied(D, A, s) ==
  D.state = "pending_boot" =>
    s \/ A.run = D.image \/ (A.next = "other" /\ A.other = D.image)

(* An image is about to replace the other one.                              *)
Replaces(q, D, A, s) ==
  Len(q) > 0 /\ q[1].op = "flash" /\ D.state = "pending_boot" => s \/ A.run = D.image

(* A confirmation is of the applied image.                                  *)
Sound(D, s, g) == D.state = "boot_ok" /\ D.sw # D.image => s /\ ~g

(* The device was updated.                                                  *)
Updated(A) == A.run # 1 \/ A.other \notin {0, 1}

Recorded(q, D, A, e) ==
  Updated(A) /\ ~e => D.state # "none" \/ (HasSave(q) /\ ~HasFlash(q))

(* The notice is gone from the queue, or about to go.                       *)
NoticeGoes(q, ev) == \A i \in 1 .. Len(ev) : ev[i].id = "Boot" => i = 1 /\ HasPop(q)

Quiet(R) == ~(R.ready /\ R.rec.state = "boot_ok" /\ R.rec.report)

(* t counts the notices the radio took since the last confirmation.         *)
TellsOnce(q, D, R, ev, e, t) ==
  /\ D.state = "boot_ok" /\ ~D.report => t >= 1
  /\ D.state = "boot_ok" /\ ~e /\ t # 0 =>
       t = 1 /\ (SavesBoot(q) \/ (~D.report /\ Quiet(R) /\ NoticeGoes(q, ev)))
  /\ \A i \in 1 .. Len(q) : SavesRecord(q[i]) /\ q[i].rec.state = "boot_ok" /\ ~q[i].rec.report =>
       t >= 1 /\ (~e => t = 1 /\ NoticeGoes(q, ev))
  /\ HasPop(q) => Len(ev) > 0 /\ ev[1].id = "Boot"

OneNotice(ev) == \A i, j \in 1 .. Len(ev) : ev[i].id = "Boot" /\ ev[j].id = "Boot" => i = j

OtaInv ==
  /\ OtaTypeOK /\ Shape(agenda)
  /\ Trusted(agenda, apps, strayed, strict)
  /\ Applied(disk.rec, apps, strayed)
  /\ Replaces(agenda, disk.rec, apps, strayed)
  /\ Sound(disk.rec, strayed, strict)
  /\ Recorded(agenda, disk.rec, apps, eroded)
  /\ TellsOnce(agenda, disk.rec, ram, events, eroded, told)
  /\ OneNotice(events)

-----------------------------------------------------------------------------
(* Steps.                                                                   *)
StepOps   == {"truncate", "write", "remove", "promote", "erase", "flash", "load", "confirm", "pop"}
StepFiles == {"rec", "man", "bin", "app", "in", "queue"}

LEMMA OtaConstants ==
  /\ MaxVersion \in Nat /\ MaxVersion >= 1 /\ 1 \in Versions /\ Versions \subseteq 0 .. MaxVersion
  /\ NoRecord \in Records /\ NoRecord.state = "none"
  /\ \A v \in 0 .. MaxVersion : Pending(v) \in Records /\ Pending(v).state = "pending_boot"
                                 /\ Pending(v).image = v /\ Pending(v).report = FALSE
<1>1. MaxVersion \in Nat /\ MaxVersion >= 1
  BY OtaSizes
<1> QED BY <1>1 DEF Versions, NoRecord, Records, Pending, NoImage

LEMMA RecordChanges ==
  ASSUME NEW r \in Records, NEW v \in Versions
  PROVE  /\ Confirmed(r, v) \in Records /\ Confirmed(r, v).state = "boot_ok"
         /\ Confirmed(r, v).report = TRUE /\ Confirmed(r, v).sw = v /\ Confirmed(r, v).image = r.image
         /\ Told(r) \in Records /\ Told(r).state = r.state /\ Told(r).report = FALSE
         /\ Told(r).image = r.image /\ Told(r).sw = r.sw
BY OtaConstants DEF Confirmed, Told, Records, Versions

LEMMA StepMade ==
  ASSUME NEW op \in StepOps, NEW file \in StepFiles, NEW v \in 0 .. MaxVersion
  PROVE  /\ Step(op, file, v) \in Steps
         /\ Step(op, file, v).op = op /\ Step(op, file, v).file = file /\ Step(op, file, v).v = v
BY OtaConstants DEF Step, Steps, StepOps, StepFiles

LEMMA SaveMade ==
  ASSUME NEW r \in Records
  PROVE  \E a \in Steps, b \in Steps :
           /\ Save(r) = << a, b >>
           /\ a.op = "truncate" /\ a.file = "rec"
           /\ b.op = "write" /\ b.file = "rec" /\ b.rec = r
<1> DEFINE a == Step("truncate", "rec", 0)
           b == [Step("write", "rec", 0) EXCEPT !.rec = r]
<1>1. 0 \in 0 .. MaxVersion
  BY OtaConstants
<1>2. a \in Steps /\ a.op = "truncate" /\ a.file = "rec"
  BY <1>1, StepMade DEF StepOps, StepFiles
<1>3. b \in Steps /\ b.op = "write" /\ b.file = "rec" /\ b.rec = r
  BY <1>1, OtaConstants DEF Step, Steps
<1>4. Save(r) = << a, b >>
  BY DEF Save
<1> HIDE DEF a, b
<1> QED BY <1>2, <1>3, <1>4

LEMMA ManifestMade ==
  ASSUME NEW v \in 0 .. MaxVersion
  PROVE  \E a \in Steps, b \in Steps :
           /\ WriteManifest(v) = << a, b >>
           /\ a.op = "truncate" /\ a.file = "man"
           /\ b.op = "write" /\ b.file = "man" /\ b.v = v
<1> DEFINE a == Step("truncate", "man", 0)
           b == Step("write", "man", v)
<1>1. 0 \in 0 .. MaxVersion
  BY OtaConstants
<1>2. a \in Steps /\ a.op = "truncate" /\ a.file = "man"
  BY <1>1, StepMade DEF StepOps, StepFiles
<1>3. b \in Steps /\ b.op = "write" /\ b.file = "man" /\ b.v = v
  BY StepMade DEF StepOps, StepFiles
<1>4. WriteManifest(v) = << a, b >>
  BY DEF WriteManifest
<1> HIDE DEF a, b
<1> QED BY <1>2, <1>3, <1>4

(* Agendas with nothing but removals, a promotion, manifest writes, a load  *)
(* and, last, a confirmation.                                               *)
Harmless(q) ==
  /\ q \in Seq(Steps) /\ Len(q) <= 8
  /\ \A i \in 1 .. Len(q) :
       /\ StepOK(q[i])
       /\ q[i].op \in {"remove", "promote", "truncate", "write", "load", "confirm"}
       /\ q[i].op \in {"truncate", "write"} => q[i].file = "man"
       /\ q[i].op = "truncate" =>
            i < Len(q) /\ q[i + 1].op = "write" /\ q[i + 1].file = "man"
       /\ q[i].op = "confirm" =>
            i = Len(q) /\ \A k \in 1 .. Len(q) : q[k].op \in {"remove", "load", "confirm"}

LEMMA HarmlessShape ==
  ASSUME NEW q, Harmless(q)
  PROVE  Shape(q) /\ ~HasFlash(q) /\ ~HasSave(q) /\ ~HasPop(q) /\ ~SavesBoot(q)
BY DEF Harmless, Shape, ShapeAt, SavesRecord, HasFlash, HasSave, HasPop, SavesBoot

LEMMA SomeAgenda ==
  ASSUME NEW q \in Seq(Steps), Len(q) # 0
  PROVE  q # << >>
BY EmptySeq

LEMMA EmptyHarmless == Harmless(<< >>)
<1>1. << >> \in Seq(Steps) /\ Len(<< >>) = 0
  BY EmptySeq
<1> QED BY <1>1 DEF Harmless

LEMMA BootHarmless == Harmless(BootSteps)
<1> DEFINE a == Step("remove", "bin", 0)
           b == Step("remove", "man", 0)
           c == Step("load", "rec", 0)
           d == Step("confirm", "rec", 0)
<1>1. 0 \in 0 .. MaxVersion
  BY OtaConstants
<1>2. /\ a \in Steps /\ a.op = "remove" /\ a.file = "bin"
      /\ b \in Steps /\ b.op = "remove" /\ b.file = "man"
      /\ c \in Steps /\ c.op = "load" /\ c.file = "rec"
      /\ d \in Steps /\ d.op = "confirm" /\ d.file = "rec"
  BY <1>1, StepMade DEF StepOps, StepFiles
<1>3. BootSteps = << a, b, c, d >>
  BY DEF BootSteps
<1> HIDE DEF a, b, c, d
<1>4. << a, b, c, d >> \in Seq(Steps) /\ Len(<< a, b, c, d >>) = 4
  BY <1>2
<1>5. \A i \in 1 .. 4 : i = 1 \/ i = 2 \/ i = 3 \/ i = 4
  OBVIOUS
<1> QED BY <1>2, <1>3, <1>4, <1>5 DEF Harmless, StepOK, SavesRecord

Unconfirming(q) == \A i \in 1 .. Len(q) : q[i].op # "confirm"

LEMMA ClearHarmless ==
  ASSUME NEW scope \in {"img", "man", "all"}
  PROVE  Harmless(ClearSteps(scope)) /\ Unconfirming(ClearSteps(scope))
<1> DEFINE a == Step("remove", "bin", 0)
           b == Step("remove", "man", 0)
           c == Step("remove", "rec", 0)
<1>1. 0 \in 0 .. MaxVersion
  BY OtaConstants
<1>2. /\ a \in Steps /\ a.op = "remove" /\ a.file = "bin"
      /\ b \in Steps /\ b.op = "remove" /\ b.file = "man"
      /\ c \in Steps /\ c.op = "remove" /\ c.file = "rec"
  BY <1>1, StepMade DEF StepOps, StepFiles
<1>3. ClearSteps(scope) \in {<< a, b >>, << b >>, << a, b, c >>}
  BY DEF ClearSteps
<1> HIDE DEF a, b, c
<1>4. Harmless(<< a, b >>) /\ Unconfirming(<< a, b >>)
  <2>1. << a, b >> \in Seq(Steps) /\ Len(<< a, b >>) = 2 /\ \A i \in 1 .. 2 : i = 1 \/ i = 2
    BY <1>2
  <2> QED BY <1>2, <2>1 DEF Harmless, StepOK, SavesRecord, Unconfirming
<1>5. Harmless(<< b >>) /\ Unconfirming(<< b >>)
  <2>1. << b >> \in Seq(Steps) /\ Len(<< b >>) = 1 /\ \A i \in 1 .. 1 : i = 1
    BY <1>2
  <2> QED BY <1>2, <2>1 DEF Harmless, StepOK, SavesRecord, Unconfirming
<1>6. Harmless(<< a, b, c >>) /\ Unconfirming(<< a, b, c >>)
  <2>1. /\ << a, b, c >> \in Seq(Steps) /\ Len(<< a, b, c >>) = 3
        /\ \A i \in 1 .. 3 : i = 1 \/ i = 2 \/ i = 3
    BY <1>2
  <2> QED BY <1>2, <2>1 DEF Harmless, StepOK, SavesRecord, Unconfirming
<1> QED BY <1>3, <1>4, <1>5, <1>6

LEMMA ReceiveHarmless ==
  ASSUME NEW v \in Versions
  PROVE  Harmless(ReceiveSteps(v)) /\ Unconfirming(ReceiveSteps(v))
<1> DEFINE a == Step("remove", "bin", 0)
           b == Step("remove", "man", 0)
           c == Step("promote", "bin", v)
<1>1. 0 \in 0 .. MaxVersion /\ v \in 0 .. MaxVersion
  BY OtaConstants
<1>2. /\ a \in Steps /\ a.op = "remove" /\ a.file = "bin"
      /\ b \in Steps /\ b.op = "remove" /\ b.file = "man"
      /\ c \in Steps /\ c.op = "promote" /\ c.file = "bin"
  BY <1>1, StepMade DEF StepOps, StepFiles
<1>3. PICK d \in Steps, e \in Steps :
         /\ WriteManifest(v) = << d, e >> /\ d.op = "truncate" /\ d.file = "man"
         /\ e.op = "write" /\ e.file = "man"
  BY <1>1, ManifestMade
<1>4. ReceiveSteps(v) = << a, b, c >> \o << d, e >>
  BY <1>3 DEF ReceiveSteps
<1> HIDE DEF a, b, c
<1> DEFINE q == << a, b, c >> \o << d, e >>
<1>5. /\ q \in Seq(Steps) /\ Len(q) = 5
      /\ q[1] = a /\ q[2] = b /\ q[3] = c /\ q[4] = d /\ q[5] = e
  BY <1>2
<1> HIDE DEF q
<1>6. \A i \in 1 .. 5 : i = 1 \/ i = 2 \/ i = 3 \/ i = 4 \/ i = 5
  OBVIOUS
<1>7. Harmless(q) /\ Unconfirming(q)
  BY <1>2, <1>3, <1>5, <1>6 DEF Harmless, StepOK, SavesRecord, Unconfirming
<1> QED BY <1>4, <1>7 DEF q

(* What applying an image does, and what saving a record does.              *)
LEMMA ApplyShape ==
  ASSUME NEW v \in Versions
  PROVE  /\ Shape(ApplySteps(v)) /\ HasFlash(ApplySteps(v)) /\ ~HasPop(ApplySteps(v))
         /\ \A i \in 1 .. Len(ApplySteps(v)) :
              /\ ApplySteps(v)[i].op # "confirm"
              /\ SavesRecord(ApplySteps(v)[i]) => ApplySteps(v)[i].rec = Pending(v)
         /\ ApplySteps(v) # << >> /\ ApplySteps(v)[1].op = "erase"
<1> DEFINE a == Step("erase", "app", 0)
           b == Step("flash", "app", v)
<1>1. 0 \in 0 .. MaxVersion /\ v \in 0 .. MaxVersion /\ Pending(v) \in Records
      /\ Pending(v).state = "pending_boot"
  BY OtaConstants
<1>2. /\ a \in Steps /\ a.op = "erase" /\ a.file = "app"
      /\ b \in Steps /\ b.op = "flash" /\ b.file = "app" /\ b.v = v
  BY <1>1, StepMade DEF StepOps, StepFiles
<1>3. PICK c \in Steps, d \in Steps :
         /\ Save(Pending(v)) = << c, d >> /\ c.op = "truncate" /\ c.file = "rec"
         /\ d.op = "write" /\ d.file = "rec" /\ d.rec = Pending(v)
  BY <1>1, SaveMade
<1>4. PICK e \in Steps, f \in Steps :
         /\ WriteManifest(v) = << e, f >> /\ e.op = "truncate" /\ e.file = "man"
         /\ f.op = "write" /\ f.file = "man"
  BY <1>1, ManifestMade
<1>5. ApplySteps(v) = << a, b >> \o << c, d >> \o << e, f >>
  BY <1>3, <1>4 DEF ApplySteps
<1> HIDE DEF a, b
<1> DEFINE q == << a, b >> \o << c, d >> \o << e, f >>
<1>6. /\ q \in Seq(Steps) /\ Len(q) = 6
      /\ q[1] = a /\ q[2] = b /\ q[3] = c /\ q[4] = d /\ q[5] = e /\ q[6] = f
  BY <1>2
<1> HIDE DEF q
<1>7. \A i \in 1 .. 6 : i = 1 \/ i = 2 \/ i = 3 \/ i = 4 \/ i = 5 \/ i = 6
  OBVIOUS
<1>8. \A i \in 1 .. 6 : SavesRecord(q[i]) <=> i = 4
  BY <1>2, <1>3, <1>4, <1>6, <1>7 DEF SavesRecord
<1>9. \A i \in 1 .. 6 : ShapeAt(q, i)
  <2>1. ShapeAt(q, 1)
    BY <1>2, <1>6, <1>8 DEF ShapeAt, StepOK
  <2>2. ShapeAt(q, 2)
    <3>1. 4 \in 2 + 1 .. Len(q) /\ SavesRecord(q[4]) /\ q[4].rec = Pending(q[2].v)
      BY <1>2, <1>3, <1>6, <1>8
    <3> QED BY <3>1, <1>2, <1>6, <1>8 DEF ShapeAt, StepOK
  <2>3. ShapeAt(q, 3)
    BY <1>3, <1>6, <1>8 DEF ShapeAt, StepOK
  <2>4. ShapeAt(q, 4)
    BY <1>1, <1>3, <1>6, <1>8 DEF ShapeAt, StepOK
  <2>5. ShapeAt(q, 5)
    BY <1>4, <1>6, <1>8 DEF ShapeAt, StepOK
  <2>6. ShapeAt(q, 6)
    BY <1>4, <1>6, <1>8 DEF ShapeAt, StepOK
  <2> QED BY <1>7, <2>1, <2>2, <2>3, <2>4, <2>5, <2>6
<1>10. Shape(q)
  BY <1>6, <1>9 DEF Shape
<1>11. HasFlash(q)
  BY <1>2, <1>6 DEF HasFlash
<1>12. /\ \A i \in 1 .. 6 : q[i].op # "confirm" /\ q[i].op # "pop"
       /\ \A i \in 1 .. 6 : SavesRecord(q[i]) => q[i].rec = Pending(v)
  BY <1>2, <1>3, <1>4, <1>6, <1>7, <1>8
<1>13. q # << >> /\ q[1].op = "erase"
  <2>1. q # << >>
    BY <1>6, SomeAgenda
  <2> QED BY <2>1, <1>2, <1>6
<1>14. ApplySteps(v) = q
  BY <1>5 DEF q
<1> QED BY <1>6, <1>10, <1>11, <1>12, <1>13, <1>14 DEF HasPop

LEMMA SaveShape ==
  ASSUME NEW r \in Records, r.state = "boot_ok"
  PROVE  /\ Shape(Save(r)) /\ ~HasFlash(Save(r)) /\ ~HasPop(Save(r)) /\ SavesBoot(Save(r))
         /\ \A i \in 1 .. Len(Save(r)) : Save(r)[i].op # "confirm"
                                         /\ (SavesRecord(Save(r)[i]) => Save(r)[i].rec = r)
         /\ Save(r) # << >> /\ Save(r)[1].op = "truncate"
<1>1. PICK c \in Steps, d \in Steps :
         /\ Save(r) = << c, d >> /\ c.op = "truncate" /\ c.file = "rec"
         /\ d.op = "write" /\ d.file = "rec" /\ d.rec = r
  BY SaveMade
<1> DEFINE q == << c, d >>
<1>2. q \in Seq(Steps) /\ Len(q) = 2 /\ q[1] = c /\ q[2] = d
  OBVIOUS
<1> HIDE DEF q
<1>3. \A i \in 1 .. 2 : i = 1 \/ i = 2
  OBVIOUS
<1>4. \A i \in 1 .. 2 : SavesRecord(q[i]) <=> i = 2
  BY <1>1, <1>2, <1>3 DEF SavesRecord
<1>5. ShapeAt(q, 1) /\ ShapeAt(q, 2)
  BY <1>1, <1>2, <1>4 DEF ShapeAt, StepOK
<1>6. Shape(q)
  BY <1>2, <1>3, <1>5 DEF Shape
<1>7. ~HasFlash(q) /\ ~HasPop(q) /\ SavesBoot(q)
  BY <1>1, <1>2, <1>3, <1>4 DEF HasFlash, HasPop, SavesBoot
<1>8. \A i \in 1 .. 2 : q[i].op # "confirm" /\ (SavesRecord(q[i]) => q[i].rec = r)
  BY <1>1, <1>2, <1>3, <1>4
<1>9. q # << >> /\ q[1].op = "truncate"
  <2>1. q # << >>
    <3>1. q \in Seq(Steps) /\ Len(q) # 0
      BY <1>2
    <3> QED BY <3>1, SomeAgenda
  <2> QED BY <2>1, <1>1, <1>2
<1>10. Save(r) = q
  BY <1>1 DEF q
<1> QED BY <1>2, <1>6, <1>7, <1>8, <1>9, <1>10

(* The record is told, and the notice leaves the queue.                     *)
LEMMA TellShape ==
  ASSUME NEW r \in Records, r.state = "boot_ok"
  PROVE  LET q == Save(r) \o << Step("pop", "queue", 0) >>
         IN /\ Shape(q) /\ ~HasFlash(q) /\ HasPop(q) /\ SavesBoot(q)
            /\ \A i \in 1 .. Len(q) : q[i].op # "confirm" /\ (SavesRecord(q[i]) => q[i].rec = r)
            /\ q # << >> /\ q[1].op = "truncate"
<1>1. PICK c \in Steps, d \in Steps :
         /\ Save(r) = << c, d >> /\ c.op = "truncate" /\ c.file = "rec"
         /\ d.op = "write" /\ d.file = "rec" /\ d.rec = r
  BY SaveMade
<1> DEFINE e == Step("pop", "queue", 0)
           q == << c, d >> \o << e >>
<1>2. e \in Steps /\ e.op = "pop" /\ e.file = "queue"
  BY StepMade, OtaConstants DEF StepOps, StepFiles
<1>3. Save(r) \o << Step("pop", "queue", 0) >> = q
  BY <1>1
<1> HIDE DEF e
<1>4. q \in Seq(Steps) /\ Len(q) = 3 /\ q[1] = c /\ q[2] = d /\ q[3] = e
  BY <1>2
<1> HIDE DEF q
<1>5. \A i \in 1 .. 3 : i = 1 \/ i = 2 \/ i = 3
  OBVIOUS
<1>6. \A i \in 1 .. 3 : SavesRecord(q[i]) <=> i = 2
  BY <1>1, <1>2, <1>4, <1>5 DEF SavesRecord
<1>7. ShapeAt(q, 1) /\ ShapeAt(q, 2)
  BY <1>1, <1>4, <1>6 DEF ShapeAt, StepOK
<1>8. ShapeAt(q, 3)
  BY <1>1, <1>2, <1>4, <1>5, <1>6 DEF ShapeAt, StepOK
<1>9. Shape(q)
  BY <1>4, <1>5, <1>7, <1>8 DEF Shape
<1>10. ~HasFlash(q) /\ HasPop(q) /\ SavesBoot(q)
  BY <1>1, <1>2, <1>4, <1>5, <1>6 DEF HasFlash, HasPop, SavesBoot
<1>11. \A i \in 1 .. 3 : q[i].op # "confirm" /\ (SavesRecord(q[i]) => q[i].rec = r)
  BY <1>1, <1>2, <1>4, <1>5, <1>6
<1>12. q # << >> /\ q[1].op = "truncate"
  <2>1. q # << >>
    <3>1. q \in Seq(Steps) /\ Len(q) # 0
      BY <1>4
    <3> QED BY <3>1, SomeAgenda
  <2> QED BY <2>1, <1>1, <1>4
<1> HIDE DEF q
<1>13. /\ Shape(q) /\ ~HasFlash(q) /\ HasPop(q) /\ SavesBoot(q)
       /\ \A i \in 1 .. Len(q) : q[i].op # "confirm" /\ (SavesRecord(q[i]) => q[i].rec = r)
       /\ q # << >> /\ q[1].op = "truncate"
  BY <1>4, <1>9, <1>10, <1>11, <1>12
<1> QED BY <1>3, <1>13

LEMMA PopShape ==
  LET q == << >> \o << Step("pop", "queue", 0) >>
  IN /\ Shape(q) /\ ~HasFlash(q) /\ HasPop(q) /\ ~SavesBoot(q) /\ ~HasSave(q)
     /\ \A i \in 1 .. Len(q) : q[i].op # "confirm"
     /\ q # << >> /\ q[1].op = "pop"
<1> DEFINE e == Step("pop", "queue", 0)
           q == << e >>
<1>1. e \in Steps /\ e.op = "pop" /\ e.file = "queue"
  BY StepMade, OtaConstants DEF StepOps, StepFiles
<1> HIDE DEF e
<1>2. q \in Seq(Steps) /\ Len(q) = 1 /\ q[1] = e /\ << >> \o << e >> = q
  <2>1. q \in Seq(Steps) /\ Len(q) = 1 /\ q[1] = e
    BY <1>1
  <2> QED BY <2>1, ConcatEmptySeq
<1> HIDE DEF q
<1>3. \A i \in 1 .. 1 : i = 1
  OBVIOUS
<1>4. Shape(q) /\ ~HasFlash(q) /\ HasPop(q) /\ ~SavesBoot(q) /\ ~HasSave(q)
  BY <1>1, <1>2, <1>3
     DEF Shape, ShapeAt, StepOK, SavesRecord, HasFlash, HasPop, SavesBoot, HasSave
<1>5. /\ \A i \in 1 .. Len(q) : q[i].op # "confirm"
      /\ q # << >> /\ q[1].op = "pop"
  BY <1>1, <1>2, <1>3, SomeAgenda
<1> QED BY <1>2, <1>4, <1>5 DEF e

-----------------------------------------------------------------------------
(* The first step of an agenda is done.                                     *)
LEMMA AgendaTail ==
  ASSUME NEW q, Shape(q), q # << >>
  PROVE  /\ Head(q) = q[1] /\ q[1] \in Steps /\ StepOK(q[1]) /\ Shape(Tail(q))
         /\ Len(q) \in Nat /\ 1 \in 1 .. Len(q) /\ Len(Tail(q)) = Len(q) - 1
         /\ \A i \in 1 .. Len(Tail(q)) : i + 1 \in 1 .. Len(q) /\ Tail(q)[i] = q[i + 1]
         /\ \A i \in 1 .. Len(q) : i = 1 \/ (i - 1 \in 1 .. Len(Tail(q)) /\ Tail(q)[i - 1] = q[i])
<1> DEFINE t == Tail(q)
           n == Len(q)
<1>1. q \in Seq(Steps) /\ n <= 8 /\ \A i \in 1 .. n : ShapeAt(q, i)
  BY DEF Shape
<1>2. n \in Nat \ {0}
  BY <1>1, EmptySeq
<1>3. /\ Head(q) \in Steps /\ t \in Seq(Steps) /\ Len(t) = n - 1
      /\ \A i \in 1 .. Len(t) : t[i] = q[i + 1]
  BY <1>1, HeadTailProperties
<1>4. Head(q) = q[1]
  BY <1>2
<1> HIDE DEF t
<1>5. \A i \in 1 .. Len(t) : i + 1 \in 1 .. n /\ t[i] = q[i + 1]
  BY <1>2, <1>3
<1>6. ASSUME NEW i \in 1 .. n
      PROVE  i = 1 \/ (i - 1 \in 1 .. Len(t) /\ t[i - 1] = q[i])
  <2>1. CASE i # 1
    <3>1. i - 1 \in 1 .. Len(t) /\ (i - 1) + 1 = i
      BY <2>1, <1>2, <1>3
    <3> QED BY <3>1, <1>5
  <2> QED BY <2>1
<1>7. ASSUME NEW i \in 1 .. Len(t)
      PROVE  ShapeAt(t, i)
  <2> DEFINE j == i + 1
  <2>1. j \in 1 .. n /\ t[i] = q[j] /\ j - 1 = i /\ j # 1 /\ ShapeAt(q, j)
    BY <1>1, <1>5
  <2>2. StepOK(t[i])
    BY <2>1 DEF ShapeAt
  <2>3. ASSUME SavesRecord(t[i]), NEW k \in 1 .. Len(t), SavesRecord(t[k])
        PROVE  k = i
    <3>1. k + 1 \in 1 .. n /\ SavesRecord(q[k + 1]) /\ SavesRecord(q[j])
      BY <2>1, <2>3, <1>5
    <3>2. k + 1 = j
      BY <3>1, <2>1 DEF ShapeAt
    <3> QED BY <3>2
  <2>4. ASSUME t[i].op = "truncate"
        PROVE  i < Len(t) /\ t[i + 1].op = "write" /\ t[i + 1].file = t[i].file
    <3>1. j < n /\ q[j + 1].op = "write" /\ q[j + 1].file = q[j].file
      BY <2>1, <2>4 DEF ShapeAt
    <3>2. i < Len(t) /\ i + 1 \in 1 .. Len(t)
      BY <3>1, <1>2, <1>3
    <3>3. t[i + 1] = q[j + 1]
      BY <3>2, <1>5
    <3> QED BY <3>1, <3>2, <3>3, <2>1
  <2>5. t[i].op # "erase"
    BY <2>1 DEF ShapeAt
  <2>6. ASSUME t[i].op = "flash"
        PROVE  i = 1 /\ \E k \in i + 1 .. Len(t) : SavesRecord(t[k]) /\ t[k].rec = Pending(t[i].v)
    <3>1. /\ j = 2
          /\ \E k \in j + 1 .. n : SavesRecord(q[k]) /\ q[k].rec = Pending(q[j].v)
      BY <2>1, <2>6 DEF ShapeAt
    <3>2. PICK k \in j + 1 .. n : SavesRecord(q[k]) /\ q[k].rec = Pending(q[j].v)
      BY <3>1
    <3>3. k - 1 \in i + 1 .. Len(t) /\ k \in 1 .. n /\ k # 1
      BY <3>2, <1>2, <1>3
    <3>4. t[k - 1] = q[k]
      BY <3>3, <1>6
    <3>5. SavesRecord(t[k - 1]) /\ t[k - 1].rec = Pending(t[i].v)
      BY <3>2, <3>4, <2>1
    <3> QED BY <3>1, <3>3, <3>5
  <2>7. ASSUME t[i].op = "confirm"
        PROVE  i = Len(t) /\ \A k \in 1 .. Len(t) : t[k].op \in {"remove", "load", "confirm"}
    <3>1. j = n /\ \A k \in 1 .. n : q[k].op \in {"remove", "load", "confirm"}
      BY <2>1, <2>7 DEF ShapeAt
    <3> QED BY <3>1, <1>2, <1>3, <1>5
  <2>8. ASSUME t[i].op = "pop"
        PROVE  /\ i = Len(t)
               /\ \A k \in 1 .. Len(t) : k < i => t[k].file = "rec" /\ t[k].op \in {"truncate", "write"}
    <3>1. j = n /\ \A k \in 1 .. n : k < j => q[k].file = "rec" /\ q[k].op \in {"truncate", "write"}
      BY <2>1, <2>8 DEF ShapeAt
    <3>2. \A k \in 1 .. Len(t) : k < i => k + 1 < j
      BY <1>2, <1>3
    <3> QED BY <3>1, <3>2, <1>2, <1>3, <1>5
  <2> QED BY <2>2, <2>3, <2>4, <2>5, <2>6, <2>7, <2>8 DEF ShapeAt
<1>8. Shape(t)
  BY <1>1, <1>2, <1>3, <1>7 DEF Shape
<1>9. 1 \in 1 .. n /\ ShapeAt(q, 1)
  BY <1>1, <1>2
<1> QED BY <1>2, <1>3, <1>4, <1>5, <1>6, <1>8, <1>9 DEF t, ShapeAt

(* What is left of an agenda does what the agenda was to do.                *)
LEMMA TailDoes ==
  ASSUME NEW q, Shape(q), q # << >>
  PROVE  /\ HasFlash(Tail(q)) => HasFlash(q)
         /\ HasSave(Tail(q)) => HasSave(q)
         /\ SavesBoot(Tail(q)) => SavesBoot(q)
         /\ HasPop(Tail(q)) => HasPop(q)
         /\ q[1].op # "flash" => (HasFlash(q) => HasFlash(Tail(q)))
         /\ ~SavesRecord(q[1]) => (HasSave(q) => HasSave(Tail(q))) /\ (SavesBoot(q) => SavesBoot(Tail(q)))
         /\ q[1].op # "pop" => (HasPop(q) => HasPop(Tail(q)))
         /\ q[1].op = "flash" => ~HasFlash(Tail(q))
         /\ q[1].op \in {"truncate", "write", "remove", "promote", "load", "confirm", "pop"} => ~HasFlash(q)
         /\ q[1].op = "pop" => Tail(q) = << >>
         /\ q[1].op = "confirm" => Tail(q) = << >>
         /\ SavesRecord(q[1]) => ~HasSave(Tail(q))
         /\ HasPop(q) => q[1].op = "pop" \/ (q[1].file = "rec" /\ q[1].op \in {"truncate", "write"})
         /\ q[1].op = "truncate" => Tail(q) # << >> /\ Tail(q)[1].op = "write" /\ Tail(q)[1].file = q[1].file
         /\ q[1].op = "truncate" /\ q[1].file = "rec" => HasSave(q)
         /\ Len(Tail(q)) > 0 /\ Tail(q)[1].op = "flash" => q[1].op = "erase"
         /\ q[1].op = "erase" => HasFlash(q)
<1>1. /\ Shape(Tail(q)) /\ q \in Seq(Steps)
      /\ Len(q) \in Nat /\ 1 \in 1 .. Len(q) /\ Len(Tail(q)) = Len(q) - 1
      /\ \A i \in 1 .. Len(Tail(q)) : i + 1 \in 1 .. Len(q) /\ Tail(q)[i] = q[i + 1]
      /\ \A i \in 1 .. Len(q) : i = 1 \/ (i - 1 \in 1 .. Len(Tail(q)) /\ Tail(q)[i - 1] = q[i])
      /\ \A i \in 1 .. Len(q) : ShapeAt(q, i)
  BY AgendaTail DEF Shape
<1> DEFINE t == Tail(q)
<1> HIDE DEF t
<1>2. /\ HasFlash(t) => HasFlash(q)
      /\ HasSave(t) => HasSave(q)
      /\ SavesBoot(t) => SavesBoot(q)
      /\ HasPop(t) => HasPop(q)
  BY <1>1 DEF HasFlash, HasSave, SavesBoot, HasPop, t
<1>3. /\ q[1].op # "flash" => (HasFlash(q) => HasFlash(t))
      /\ ~SavesRecord(q[1]) => (HasSave(q) => HasSave(t)) /\ (SavesBoot(q) => SavesBoot(t))
      /\ q[1].op # "pop" => (HasPop(q) => HasPop(t))
  BY <1>1 DEF HasFlash, HasSave, SavesBoot, HasPop, t
<1>4. /\ q[1].op = "flash" => ~HasFlash(t)
      /\ q[1].op \in {"truncate", "write", "remove", "promote", "load", "confirm", "pop"} => ~HasFlash(q)
  <2>1. ASSUME NEW i \in 1 .. Len(q), q[i].op = "flash"
        PROVE  i = 1 \/ q[1].op = "erase"
    BY <1>1, <2>1 DEF ShapeAt
  <2>2. q[1].op = "flash" => ~HasFlash(t)
    <3> SUFFICES ASSUME q[1].op = "flash", NEW i \in 1 .. Len(t), t[i].op = "flash"
                 PROVE  FALSE
      BY DEF HasFlash
    <3>1. i + 1 \in 1 .. Len(q) /\ q[i + 1].op = "flash" /\ i + 1 # 1
      BY <1>1 DEF t
    <3> QED BY <3>1, <2>1
  <2> QED BY <2>1, <2>2 DEF HasFlash
<1>5. /\ q[1].op = "pop" => t = << >>
      /\ q[1].op = "confirm" => t = << >>
  <2>1. q[1].op \in {"pop", "confirm"} => Len(q) = 1
    BY <1>1 DEF ShapeAt
  <2>2. q[1].op \in {"pop", "confirm"} => Len(t) = 0
    BY <2>1, <1>1 DEF t
  <2> QED BY <2>2, <1>1, EmptySeq DEF t, Shape
<1>6. SavesRecord(q[1]) => ~HasSave(t)
  <2> SUFFICES ASSUME SavesRecord(q[1]), NEW i \in 1 .. Len(t), SavesRecord(t[i])
               PROVE  FALSE
    BY DEF HasSave
  <2>1. i + 1 \in 1 .. Len(q) /\ SavesRecord(q[i + 1]) /\ i + 1 # 1
    BY <1>1 DEF t
  <2> QED BY <1>1, <2>1 DEF ShapeAt
<1>7. HasPop(q) => q[1].op = "pop" \/ (q[1].file = "rec" /\ q[1].op \in {"truncate", "write"})
  <2> SUFFICES ASSUME NEW i \in 1 .. Len(q), q[i].op = "pop", q[1].op # "pop"
               PROVE  q[1].file = "rec" /\ q[1].op \in {"truncate", "write"}
    BY DEF HasPop
  <2>1. 1 < i
    BY <1>1
  <2> QED BY <1>1, <2>1 DEF ShapeAt
<1>8. ASSUME q[1].op = "truncate"
      PROVE  /\ t # << >> /\ t[1].op = "write" /\ t[1].file = q[1].file
             /\ q[1].file = "rec" => HasSave(q)
  <2>1. 1 < Len(q) /\ q[1 + 1].op = "write" /\ q[1 + 1].file = q[1].file
    BY <1>1, <1>8 DEF ShapeAt
  <2>2. 1 \in 1 .. Len(t) /\ t[1] = q[1 + 1] /\ 1 + 1 \in 1 .. Len(q)
    BY <1>1, <2>1 DEF t
  <2>3. t # << >>
    BY <2>2, EmptySeq
  <2>4. q[1].file = "rec" => HasSave(q)
    BY <2>1, <2>2 DEF HasSave, SavesRecord
  <2> QED BY <2>1, <2>2, <2>3, <2>4
<1>9. Len(t) > 0 /\ t[1].op = "flash" => q[1].op = "erase"
  <2> SUFFICES ASSUME Len(t) > 0, t[1].op = "flash"
               PROVE  q[1].op = "erase"
    OBVIOUS
  <2>1. 1 \in 1 .. Len(t)
    BY <1>1 DEF t
  <2>2. 1 + 1 \in 1 .. Len(q) /\ q[1 + 1].op = "flash" /\ 1 + 1 # 1
    BY <1>1, <2>1 DEF t
  <2> QED BY <1>1, <2>2 DEF ShapeAt
<1>10. ASSUME q[1].op = "erase"
       PROVE  HasFlash(q)
  <2>1. 1 < Len(q) /\ q[1 + 1].op = "flash"
    BY <1>1, <1>10 DEF ShapeAt
  <2>2. 1 + 1 \in 1 .. Len(q)
    BY <1>1, <2>1
  <2> QED BY <2>1, <2>2 DEF HasFlash
<1> QED BY <1>2, <1>3, <1>4, <1>5, <1>6, <1>7, <1>8, <1>9, <1>10 DEF t


-----------------------------------------------------------------------------
(* The claims of an agenda pass to what is left of it.                      *)
LEMMA TailTrusted ==
  ASSUME NEW q, Shape(q), q # << >>, NEW A, NEW s, NEW g, Trusted(q, A, s, g), q[1].op # "flash"
  PROVE  Trusted(Tail(q), A, s, g)
<1>1. /\ \A i \in 1 .. Len(Tail(q)) : i + 1 \in 1 .. Len(q) /\ Tail(q)[i] = q[i + 1]
      /\ HasFlash(q) => HasFlash(Tail(q))
  BY AgendaTail, TailDoes
<1> QED BY <1>1 DEF Trusted

LEMMA TailTells ==
  ASSUME NEW q, Shape(q), q # << >>, NEW D, NEW R, NEW ev, NEW e, NEW t,
         TellsOnce(q, D, R, ev, e, t), ~SavesRecord(q[1]), q[1].op # "pop"
  PROVE  TellsOnce(Tail(q), D, R, ev, e, t)
<1>1. /\ \A i \in 1 .. Len(Tail(q)) : i + 1 \in 1 .. Len(q) /\ Tail(q)[i] = q[i + 1]
      /\ SavesBoot(q) => SavesBoot(Tail(q))
      /\ HasPop(q) <=> HasPop(Tail(q))
  BY AgendaTail, TailDoes
<1> QED BY <1>1 DEF TellsOnce, NoticeGoes

LEMMA TailRecorded ==
  ASSUME NEW q, Shape(q), q # << >>, NEW D, NEW A, NEW e,
         Recorded(q, D, A, e), ~SavesRecord(q[1])
  PROVE  Recorded(Tail(q), D, A, e)
BY TailDoes DEF Recorded

(* An agenda that saves no record and confirms nothing new.                 *)
LEMMA HarmlessTrusted ==
  ASSUME NEW q, Harmless(q), NEW A, NEW s, NEW g, A.next = "run" \/ Unconfirming(q)
  PROVE  Trusted(q, A, s, g)
BY HarmlessShape DEF Trusted, HasSave, Unconfirming

(* The first step of the running handler.                                   *)
LEMMA AgendaHead ==
  ASSUME OtaInv, ~OtaIdle
  PROVE  /\ agenda # << >> /\ Shape(agenda) /\ Head(agenda) = agenda[1] /\ agenda[1] \in Steps
         /\ StepOK(agenda[1]) /\ Shape(Tail(agenda)) /\ Len(agenda) \in Nat /\ Len(agenda) > 0
         /\ 1 \in 1 .. Len(agenda) /\ Tail(agenda) \in Seq(Steps) /\ Len(Tail(agenda)) <= 8
BY AgendaTail DEF OtaInv, OtaIdle, Shape

LEMMA IdleAgenda ==
  ASSUME OtaInv, OtaIdle
  PROVE  /\ Len(agenda) = 0 /\ ~HasFlash(agenda) /\ ~HasSave(agenda) /\ ~SavesBoot(agenda)
         /\ ~HasPop(agenda)
         /\ \A i \in 1 .. Len(events) : events[i].id # "Boot" \/ ~NoticeGoes(agenda, events)
<1>1. Len(agenda) = 0
  BY EmptySeq DEF OtaIdle
<1> QED BY <1>1 DEF HasFlash, HasSave, SavesBoot, HasPop, NoticeGoes

-----------------------------------------------------------------------------
(* The handlers.                                                            *)
LEMMA OtaStarts == OtaInit => OtaInv
<1> SUFFICES ASSUME OtaInit PROVE OtaInv
  OBVIOUS
<1> USE DEF OtaInit
<1>1. Harmless(agenda) /\ Shape(agenda) /\ ~HasPop(agenda) /\ ~HasSave(agenda)
  BY BootHarmless, HarmlessShape
<1>2. apps.next = "run" /\ apps.run = 1 /\ apps.other = 0 /\ disk.rec = NoRecord /\ disk.rec.state = "none"
  BY OtaConstants DEF NoImage
<1>3. Trusted(agenda, apps, strayed, strict)
  BY <1>1, <1>2, HarmlessTrusted
<1>4. Len(events) = 0 /\ events \in Seq([id : Ids, tries : 0 .. RetryMax])
  BY EmptySeq
<1>5. OtaTypeOK
  <2>1. disk \in [bin : 0 .. MaxVersion, man : 0 .. MaxVersion, rec : Records]
    BY OtaConstants DEF NoImage, NoManifest
  <2>2. apps \in [run : Versions, other : 0 .. MaxVersion, next : {"run", "other"}]
    BY OtaConstants DEF NoImage
  <2>3. ram \in [ready : BOOLEAN, rec : Records]
    BY OtaConstants DEF Down
  <2>4. agenda \in Seq(Steps) /\ Len(agenda) <= 8 /\ Len(events) <= QMax
    BY <1>1, <1>4, OtaSizes DEF Shape
  <2>5. strayed \in BOOLEAN /\ eroded \in BOOLEAN
    BY ZenonT(10)
  <2>7. told \in 0 .. 2
    OBVIOUS
  <2>6. strict \in BOOLEAN
    OBVIOUS
  <2> QED BY <1>4, <2>1, <2>2, <2>3, <2>4, <2>5, <2>6, <2>7 DEF OtaTypeOK
<1>6. Replaces(agenda, disk.rec, apps, strayed) /\ Applied(disk.rec, apps, strayed)
      /\ Sound(disk.rec, strayed, strict) /\ Recorded(agenda, disk.rec, apps, eroded)
  BY <1>2 DEF Replaces, Applied, Sound, Recorded, Updated
<1>7. TellsOnce(agenda, disk.rec, ram, events, eroded, told) /\ OneNotice(events)
  BY <1>1, <1>2, <1>4 DEF TellsOnce, OneNotice, HasSave
<1> QED BY <1>1, <1>3, <1>5, <1>6, <1>7 DEF OtaInv

(* A handler that touches no record starts.                                 *)
LEMMA HarmlessStarts ==
  ASSUME OtaInv, OtaIdle, Harmless(agenda'), Unconfirming(agenda'),
         UNCHANGED <<disk, apps, ram, events, strict, history>>
  PROVE  OtaInv'
<1>1. /\ Shape(agenda') /\ ~HasFlash(agenda') /\ ~HasSave(agenda') /\ ~HasPop(agenda')
      /\ ~SavesBoot(agenda')
  BY HarmlessShape
<1>2. ~HasFlash(agenda) /\ ~HasSave(agenda) /\ ~SavesBoot(agenda) /\ ~HasPop(agenda)
  BY IdleAgenda
<1>3. OtaTypeOK'
  BY <1>1 DEF OtaInv, OtaTypeOK, Shape, history
<1>4. Trusted(agenda', apps, strayed, strict)
  BY HarmlessTrusted
<1>5. Replaces(agenda', disk.rec, apps, strayed)
  BY <1>1 DEF Replaces, HasFlash, Shape
<1>6. Recorded(agenda', disk.rec, apps, eroded)
  BY <1>1, <1>2 DEF OtaInv, Recorded
<1>7. TellsOnce(agenda', disk.rec, ram, events, eroded, told)
  BY <1>1, <1>2 DEF OtaInv, TellsOnce, NoticeGoes, HasSave
<1> QED BY <1>1, <1>3, <1>4, <1>5, <1>6, <1>7 DEF OtaInv, history

LEMMA ReceiveKeeps == ASSUME OtaInv, NEW v \in Versions, Receive(v) PROVE OtaInv'
BY ReceiveHarmless, HarmlessStarts DEF Receive

LEMMA ClearKeeps == ASSUME OtaInv, NEW scope \in {"img", "man", "all"}, Clear(scope) PROVE OtaInv'
BY ClearHarmless, HarmlessStarts DEF Clear

LEMMA ApplyKeeps == ASSUME OtaInv, Apply PROVE OtaInv'
<1> DEFINE q == ApplySteps(disk.man)
<1>1. /\ Shape(q) /\ HasFlash(q) /\ ~HasPop(q) /\ q[1].op = "erase"
      /\ \A i \in 1 .. Len(q) : q[i].op # "confirm"
      /\ \A i \in 1 .. Len(q) : SavesRecord(q[i]) => q[i].rec = Pending(disk.man)
  BY ApplyShape DEF Apply
<1>2. agenda' = q /\ UNCHANGED <<disk, apps, ram, events, strict, history>> /\ OtaIdle
      /\ disk.man \in Versions
  BY DEF Apply
<1> HIDE DEF q
<1>3. ~HasFlash(agenda) /\ ~HasSave(agenda) /\ ~SavesBoot(agenda) /\ ~HasPop(agenda)
  BY <1>2, IdleAgenda
<1>4. OtaTypeOK'
  BY <1>1, <1>2 DEF OtaInv, OtaTypeOK, Shape, history
<1>5. /\ \A i \in 1 .. Len(q) : SavesRecord(q[i]) => q[i].rec.state = "pending_boot"
      /\ \A i \in 1 .. Len(q) : q[i].op # "confirm"
  <2>1. Pending(disk.man).state = "pending_boot"
    BY <1>2, OtaConstants
  <2>2. ASSUME NEW i \in 1 .. Len(q), SavesRecord(q[i])
        PROVE  q[i].rec.state = "pending_boot"
    <3>1. q[i].rec = Pending(disk.man)
      BY <1>1, <2>2
    <3> QED BY <2>1, <3>1
  <2>3. \A i \in 1 .. Len(q) : q[i].op # "confirm"
    BY <1>1
  <2> QED BY <2>2, <2>3
<1>6. Trusted(q, apps, strayed, strict)
  <2>1. \A i \in 1 .. Len(q) : SavesRecord(q[i]) => q[i].rec.state # "boot_ok"
    BY <1>5
  <2> QED BY <1>1, <1>5, <2>1 DEF Trusted
<1>7. Replaces(q, disk.rec, apps, strayed)
  BY <1>1 DEF Replaces
<1>8. Recorded(q, disk.rec, apps, eroded)
  BY <1>3 DEF OtaInv, Recorded
<1>9. TellsOnce(q, disk.rec, ram, events, eroded, told)
  <2>1. \A i \in 1 .. Len(q) : SavesRecord(q[i]) => q[i].rec.state # "boot_ok"
    BY <1>5
  <2> QED BY <1>1, <1>3, <2>1 DEF OtaInv, TellsOnce, NoticeGoes
<1> QED BY <1>1, <1>2, <1>4, <1>6, <1>7, <1>8, <1>9 DEF OtaInv, history

(* A restart.                                                               *)
LEMMA RebootKeeps ==
  ASSUME OtaInv, NEW f, Reboot(f), f \in [run : Versions, other : 0 .. MaxVersion, next : {"run", "other"}],
         f.next = "run", disk' = disk, strict' = strict, told' = told,
         strayed' = (strayed \/ Strays(f)), eroded' \in BOOLEAN, eroded \/ HasSave(agenda) => eroded',
         ~eroded' => (Updated(f) => Updated(apps))
  PROVE  OtaInv'
<1>1. /\ Shape(agenda') /\ ~HasFlash(agenda') /\ ~HasSave(agenda') /\ ~HasPop(agenda')
      /\ ~SavesBoot(agenda') /\ Harmless(agenda')
  BY BootHarmless, HarmlessShape DEF Reboot
<1>2. ram' = Down /\ events' = << >> /\ apps' = f /\ Len(events') = 0
      /\ events' \in Seq([id : Ids, tries : 0 .. RetryMax])
  BY EmptySeq DEF Reboot
<1>3. OtaTypeOK'
  <2>1. ram' \in [ready : BOOLEAN, rec : Records] /\ Len(events') <= QMax
    BY <1>2, OtaConstants, OtaSizes DEF Down
  <2>2. strayed' \in BOOLEAN
    BY DEF OtaInv, OtaTypeOK, Strays
  <2> QED BY <1>1, <1>2, <2>1, <2>2 DEF OtaInv, OtaTypeOK, Shape
<1>4. Trusted(agenda', f, strayed', strict')
  BY <1>1, HarmlessTrusted
<1>5. Applied(disk.rec, f, strayed')
  BY DEF OtaInv, Applied, Strays
<1>6. Replaces(agenda', disk.rec, f, strayed')
  BY <1>1 DEF Replaces, HasFlash, Shape
<1>7. Sound(disk.rec, strayed', strict)
  BY DEF OtaInv, Sound
<1>8. Recorded(agenda', disk.rec, f, eroded')
  BY DEF OtaInv, Recorded
<1>9. ~Down.ready /\ Quiet(ram')
  BY <1>2 DEF Down, Quiet
<1>10. SavesBoot(agenda) => HasSave(agenda)
  BY DEF SavesBoot, HasSave
<1>11. TellsOnce(agenda', disk.rec, ram', events', eroded', told)
  BY <1>1, <1>2, <1>9, <1>10 DEF OtaInv, TellsOnce, NoticeGoes, HasSave
<1>12. OneNotice(events')
  BY <1>2 DEF OneNotice
<1> QED BY <1>1, <1>2, <1>3, <1>4, <1>5, <1>6, <1>7, <1>8, <1>11, <1>12 DEF OtaInv

LEMMA SavingCovers == ASSUME OtaInv, HasSave(agenda) PROVE Saving
BY LenProperties DEF OtaInv, Shape, HasSave, SavesRecord, Saving

LEMMA BootsAre ==
  ASSUME OtaInv
  PROVE  /\ Kept \in [run : Versions, other : 0 .. MaxVersion, next : {"run", "other"}]
         /\ Kept.next = "run" /\ (Updated(Kept) => Updated(apps))
         /\ apps.other # NoImage =>
              /\ Swapped \in [run : Versions, other : 0 .. MaxVersion, next : {"run", "other"}]
              /\ Swapped.next = "run" /\ (Updated(Swapped) => Updated(apps))
BY OtaConstants DEF OtaInv, OtaTypeOK, Kept, Swapped, Updated, NoImage, Versions

LEMMA RestartKeeps == ASSUME OtaInv, OtaRestart PROVE OtaInv'
<1>1. PICK f \in Boots : Reboot(f) /\ strayed' = (strayed \/ Strays(f))
  BY DEF OtaRestart
<1>2. /\ f \in [run : Versions, other : 0 .. MaxVersion, next : {"run", "other"}]
      /\ f.next = "run" /\ (Updated(f) => Updated(apps))
  BY BootsAre DEF Boots
<1>3. eroded' \in BOOLEAN /\ (eroded \/ HasSave(agenda) => eroded')
  BY SavingCovers DEF OtaRestart, OtaInv, OtaTypeOK, Saving
<1>4. disk' = disk /\ strict' = strict /\ told' = told
  BY DEF OtaRestart
<1> QED BY <1>1, <1>2, <1>3, <1>4, RebootKeeps

LEMMA RollbackKeeps == ASSUME OtaInv, Rollback PROVE OtaInv'
<1>1. /\ Reboot(Swapped) /\ strayed' = (strayed \/ Strays(Swapped))
      /\ disk' = disk /\ strict' = strict /\ told' = told /\ eroded' = eroded
      /\ OtaIdle /\ apps.other # NoImage
  BY DEF Rollback
<1>2. ~HasSave(agenda) /\ eroded' \in BOOLEAN
  BY <1>1, IdleAgenda DEF OtaInv, OtaTypeOK
<1> QED BY <1>1, <1>2, BootsAre, RebootKeeps

-----------------------------------------------------------------------------
(* The storage steps.  Most of them leave the record and the images alone.  *)
LEMMA Advances ==
  ASSUME OtaInv, ~OtaIdle, agenda' = Tail(agenda),
         agenda[1].op \notin {"erase", "flash", "pop"}, ~SavesRecord(agenda[1]),
         disk' \in [bin : 0 .. MaxVersion, man : 0 .. MaxVersion, rec : Records],
         disk'.rec = disk.rec, ram' \in [ready : BOOLEAN, rec : Records],
         Quiet(ram) /\ ~disk.rec.report => Quiet(ram'),
         UNCHANGED <<apps, events, strict, history>>
  PROVE  OtaInv'
<1> DEFINE q == agenda
           p == Tail(agenda)
<1>1. q # << >> /\ Shape(q) /\ Shape(p) /\ p \in Seq(Steps) /\ Len(p) <= 8
  BY AgendaHead
<1>2. OtaTypeOK'
  BY <1>1 DEF OtaInv, OtaTypeOK, history
<1> HIDE DEF q, p
<1>3. Trusted(p, apps, strayed, strict)
  BY <1>1, TailTrusted DEF OtaInv, q, p
<1>4. TellsOnce(p, disk.rec, ram, events, eroded, told)
  BY <1>1, TailTells DEF OtaInv, q, p
<1>5. TellsOnce(p, disk.rec, ram', events, eroded, told)
  BY <1>4 DEF TellsOnce
<1>6. Recorded(p, disk.rec, apps, eroded)
  BY <1>1, TailRecorded DEF OtaInv, q, p
<1>7. Replaces(p, disk.rec, apps, strayed)
  BY <1>1, TailDoes DEF Replaces, q, p
<1> QED BY <1>1, <1>2, <1>3, <1>5, <1>6, <1>7 DEF OtaInv, history, q, p

(* The record goes.                                                         *)
LEMMA Forgets ==
  ASSUME OtaInv, ~OtaIdle, agenda' = Tail(agenda), agenda[1].op \in {"remove", "truncate"},
         disk' \in [bin : 0 .. MaxVersion, man : 0 .. MaxVersion, rec : Records],
         disk'.rec.state = "none", eroded' \in BOOLEAN, eroded => eroded',
         ~eroded' => HasSave(Tail(agenda)),
         UNCHANGED <<apps, ram, events, strict, strayed, told>>
  PROVE  OtaInv'
<1> DEFINE q == agenda
           p == Tail(agenda)
<1>1. q # << >> /\ Shape(q) /\ Shape(p) /\ p \in Seq(Steps) /\ Len(p) <= 8
  BY AgendaHead
<1>2. OtaTypeOK'
  BY <1>1 DEF OtaInv, OtaTypeOK
<1>3. ~SavesRecord(q[1]) /\ q[1].op \notin {"flash", "pop", "erase"}
  BY DEF SavesRecord
<1> HIDE DEF q, p
<1>4. Trusted(p, apps, strayed, strict)
  BY <1>1, <1>3, TailTrusted DEF OtaInv, q, p
<1>5. TellsOnce(p, disk.rec, ram, events, eroded, told)
  BY <1>1, <1>3, TailTells DEF OtaInv, q, p
<1>6. TellsOnce(p, disk'.rec, ram, events, eroded', told)
  BY <1>5 DEF TellsOnce
<1>7. /\ ~HasFlash(q) /\ (HasFlash(p) => HasFlash(q))
      /\ Len(p) > 0 /\ p[1].op = "flash" => q[1].op = "erase"
  BY <1>1, TailDoes DEF q, p
<1>8. Recorded(p, disk'.rec, apps, eroded')
  BY <1>7 DEF Recorded, p
<1>9. Replaces(p, disk'.rec, apps, strayed) /\ Applied(disk'.rec, apps, strayed)
      /\ Sound(disk'.rec, strayed, strict)
  BY DEF Replaces, Applied, Sound
<1> QED BY <1>1, <1>2, <1>4, <1>6, <1>8, <1>9 DEF OtaInv, q, p

LEMMA RemovesKeeps == ASSUME OtaInv, Removes PROVE OtaInv'
<1>1. /\ ~OtaIdle /\ agenda[1].op = "remove" /\ Head(agenda) = agenda[1]
      /\ agenda[1].file \in {"bin", "man", "rec"} /\ agenda' = Tail(agenda)
  BY AgendaHead DEF Removes, Rest, StepOK
<1>2. disk \in [bin : 0 .. MaxVersion, man : 0 .. MaxVersion, rec : Records]
  BY DEF OtaInv, OtaTypeOK
<1>3. CASE agenda[1].file # "rec"
  <2>1. disk' \in [bin : 0 .. MaxVersion, man : 0 .. MaxVersion, rec : Records] /\ disk'.rec = disk.rec
    BY <1>1, <1>2, <1>3, OtaConstants DEF Removes, NoImage, NoManifest
  <2>2. eroded' = eroded
    BY <1>1, <1>3 DEF Removes, OtaInv, OtaTypeOK
  <2>3. ram' \in [ready : BOOLEAN, rec : Records] /\ UNCHANGED <<apps, ram, events, strict, history>>
    BY <2>2 DEF Removes, history, OtaInv, OtaTypeOK
  <2> QED BY <1>1, <2>1, <2>3, Advances DEF SavesRecord
<1>4. CASE agenda[1].file = "rec"
  <2>1. disk' \in [bin : 0 .. MaxVersion, man : 0 .. MaxVersion, rec : Records]
        /\ disk'.rec.state = "none"
    BY <1>1, <1>2, <1>4, OtaConstants DEF Removes
  <2>2. eroded'
    BY <1>1, <1>4 DEF Removes
  <2>3. eroded' \in BOOLEAN /\ UNCHANGED <<apps, ram, events, strict, strayed, told>>
    BY <1>1 DEF Removes, OtaInv, OtaTypeOK
  <2> QED BY <1>1, <2>1, <2>2, <2>3, Forgets
<1> QED BY <1>3, <1>4

LEMMA PromotesKeeps == ASSUME OtaInv, Promotes PROVE OtaInv'
<1>1. /\ ~OtaIdle /\ agenda[1].op = "promote" /\ Head(agenda) = agenda[1]
      /\ agenda' = Tail(agenda) /\ agenda[1].v \in 0 .. MaxVersion
  BY AgendaHead DEF Promotes, Runs, Rest, Steps
<1>2. disk' \in [bin : 0 .. MaxVersion, man : 0 .. MaxVersion, rec : Records] /\ disk'.rec = disk.rec
  BY <1>1 DEF Promotes, OtaInv, OtaTypeOK
<1>3. ram' \in [ready : BOOLEAN, rec : Records] /\ UNCHANGED <<apps, ram, events, strict, history>>
  BY DEF Promotes, OtaInv, OtaTypeOK
<1> QED BY <1>1, <1>2, <1>3, Advances DEF SavesRecord

LEMMA WritesManifestKeeps == ASSUME OtaInv, WritesManifest PROVE OtaInv'
<1>1. /\ ~OtaIdle /\ agenda[1].op \in {"truncate", "write"} /\ agenda[1].file = "man"
      /\ Head(agenda) = agenda[1]
      /\ agenda' = Tail(agenda) /\ agenda[1].v \in 0 .. MaxVersion
  BY AgendaHead DEF WritesManifest, Runs, Rest, Steps
<1>2. disk' \in [bin : 0 .. MaxVersion, man : 0 .. MaxVersion, rec : Records] /\ disk'.rec = disk.rec
  <2> DEFINE m == IF agenda[1].op = "write" THEN agenda[1].v ELSE NoManifest
  <2>1. m \in 0 .. MaxVersion
    BY <1>1, OtaConstants DEF NoManifest
  <2>2. disk' = [disk EXCEPT !.man = m]
    BY <1>1 DEF WritesManifest
  <2> HIDE DEF m
  <2> QED BY <2>1, <2>2 DEF OtaInv, OtaTypeOK
<1>3. ram' \in [ready : BOOLEAN, rec : Records] /\ UNCHANGED <<apps, ram, events, strict, history>>
  BY DEF WritesManifest, OtaInv, OtaTypeOK
<1> QED BY <1>1, <1>2, <1>3, Advances DEF SavesRecord

LEMMA LoadsKeeps == ASSUME OtaInv, Loads PROVE OtaInv'
<1>1. /\ ~OtaIdle /\ agenda[1].op = "load" /\ agenda' = Tail(agenda)
  BY AgendaHead DEF Loads, Runs, Rest
<1>2. disk' \in [bin : 0 .. MaxVersion, man : 0 .. MaxVersion, rec : Records] /\ disk'.rec = disk.rec
  BY DEF Loads, OtaInv, OtaTypeOK
<1>3. ram' \in [ready : BOOLEAN, rec : Records] /\ UNCHANGED <<apps, events, strict, history>>
  BY DEF Loads, OtaInv, OtaTypeOK
<1>4. ~disk.rec.report => Quiet(ram')
  BY DEF Loads, Quiet
<1> QED BY <1>1, <1>2, <1>3, <1>4, Advances DEF SavesRecord

LEMMA TruncatesRecordKeeps == ASSUME OtaInv, TruncatesRecord PROVE OtaInv'
<1>1. /\ ~OtaIdle /\ agenda[1].op = "truncate" /\ agenda[1].file = "rec" /\ agenda' = Tail(agenda)
      /\ agenda # << >> /\ Shape(agenda) /\ ~SavesRecord(agenda[1])
  BY AgendaHead DEF TruncatesRecord, Runs, Rest, SavesRecord
<1>2. disk' \in [bin : 0 .. MaxVersion, man : 0 .. MaxVersion, rec : Records] /\ disk'.rec.state = "none"
  BY OtaConstants DEF TruncatesRecord, OtaInv, OtaTypeOK
<1>3. HasSave(Tail(agenda))
  BY <1>1, TailDoes
<1>4. eroded' \in BOOLEAN /\ eroded' = eroded /\ UNCHANGED <<apps, ram, events, strict, strayed, told>>
  BY DEF TruncatesRecord, history, OtaInv, OtaTypeOK
<1> QED BY <1>1, <1>2, <1>3, <1>4, Forgets

LEMMA ErasesKeeps == ASSUME OtaInv, Erases PROVE OtaInv'
<1> DEFINE q == agenda
           p == Tail(agenda)
<1>1. /\ ~OtaIdle /\ q[1].op = "erase" /\ agenda' = p /\ ~SavesRecord(q[1])
      /\ q # << >> /\ Shape(q) /\ Shape(p) /\ p \in Seq(Steps) /\ Len(p) <= 8
  BY AgendaHead DEF Erases, Runs, Rest, SavesRecord
<1>2. /\ apps' = [apps EXCEPT !.other = NoImage] /\ strayed' = (strayed \/ apps.next = "other")
      /\ UNCHANGED <<disk, ram, events, strict, eroded, told>>
  BY DEF Erases
<1>3. apps \in [run : Versions, other : 0 .. MaxVersion, next : {"run", "other"}]
  BY DEF OtaInv, OtaTypeOK
<1>4. apps' \in [run : Versions, other : 0 .. MaxVersion, next : {"run", "other"}]
      /\ apps'.run = apps.run /\ apps'.other = 0 /\ apps'.next = apps.next
  BY <1>2, <1>3, OtaConstants DEF NoImage
<1>5. strayed' \in BOOLEAN
  BY <1>2 DEF OtaInv, OtaTypeOK
<1>6. OtaTypeOK'
  BY <1>1, <1>2, <1>4, <1>5 DEF OtaInv, OtaTypeOK
<1>7. HasFlash(p) /\ HasFlash(q)
  BY <1>1, TailDoes
<1> HIDE DEF q, p
<1>8. Trusted(p, apps, strayed, strict)
  BY <1>1, TailTrusted DEF OtaInv, q, p
<1>9. Trusted(p, apps', strayed', strict)
  BY <1>2, <1>4, <1>7, <1>8 DEF Trusted
<1>10. TellsOnce(p, disk.rec, ram, events, eroded, told)
  BY <1>1, TailTells DEF OtaInv, q, p
<1>11. Applied(disk.rec, apps', strayed') /\ Replaces(p, disk.rec, apps', strayed')
       /\ Sound(disk.rec, strayed', strict)
  BY <1>2, <1>4 DEF OtaInv, Applied, Replaces, Sound
<1>12. Recorded(p, disk.rec, apps', eroded)
  BY <1>4, <1>7 DEF OtaInv, Recorded, Updated, q
<1> QED BY <1>1, <1>2, <1>6, <1>9, <1>10, <1>11, <1>12 DEF OtaInv

(* The record of an applied image is saved after its flash.                 *)
LEMMA FlashAgenda ==
  ASSUME NEW q, Shape(q), q # << >>, q[1].op = "flash"
  PROVE  /\ HasFlash(q) /\ ~HasFlash(Tail(q)) /\ HasSave(Tail(q)) /\ ~HasPop(q)
         /\ ~SavesBoot(q) /\ Unconfirming(q)
         /\ \A i \in 1 .. Len(q) : SavesRecord(q[i]) => q[i].rec = Pending(q[1].v)
<1>1. /\ 1 \in 1 .. Len(q) /\ StepOK(q[1]) /\ Len(q) \in Nat /\ \A i \in 1 .. Len(q) : ShapeAt(q, i)
  BY AgendaTail DEF Shape
<1>2. ~SavesRecord(q[1])
  BY DEF SavesRecord
<1>3. PICK k \in 1 + 1 .. Len(q) : SavesRecord(q[k]) /\ q[k].rec = Pending(q[1].v)
  BY <1>1 DEF ShapeAt
<1>4. k \in 1 .. Len(q)
  BY <1>1, <1>3
<1>5. \A i \in 1 .. Len(q) : SavesRecord(q[i]) => i = k
  BY <1>1, <1>3, <1>4 DEF ShapeAt
<1>6. \A i \in 1 .. Len(q) : SavesRecord(q[i]) => q[i].rec = Pending(q[1].v)
  BY <1>3, <1>5
<1>7. Pending(q[1].v).state = "pending_boot"
  BY <1>1, OtaConstants DEF StepOK
<1>8. ~SavesBoot(q)
  BY <1>6, <1>7 DEF SavesBoot
<1>9. HasSave(q)
  BY <1>3, <1>4 DEF HasSave
<1>10. Unconfirming(q)
  BY <1>1 DEF Unconfirming, ShapeAt
<1>11. HasFlash(q)
  BY <1>1 DEF HasFlash
<1>12. ~HasPop(q) /\ ~HasFlash(Tail(q)) /\ HasSave(Tail(q))
  BY <1>2, <1>9, TailDoes
<1> QED BY <1>6, <1>8, <1>10, <1>11, <1>12

LEMMA FlashesKeeps == ASSUME OtaInv, Flashes PROVE OtaInv'
<1> DEFINE q == agenda
           p == Tail(agenda)
<1>1. /\ ~OtaIdle /\ q[1].op = "flash" /\ Head(q) = q[1] /\ StepOK(q[1]) /\ Len(q) > 0
      /\ q # << >> /\ Shape(q) /\ Shape(p) /\ p \in Seq(Steps) /\ Len(p) <= 8
  BY AgendaHead DEF Flashes, Runs
<1>2. /\ UNCHANGED <<disk, ram, events, strict, history>>
      /\ IF q[1].v = disk.bin THEN apps' = Flashed /\ agenda' = p
         ELSE agenda' = << >> /\ UNCHANGED apps
  BY <1>1 DEF Flashes, Rest
<1>3. /\ HasFlash(q) /\ ~HasFlash(p) /\ HasSave(p) /\ ~HasPop(q) /\ ~SavesBoot(q) /\ Unconfirming(q)
      /\ \A i \in 1 .. Len(q) : SavesRecord(q[i]) => q[i].rec = Pending(q[1].v)
  BY <1>1, FlashAgenda
<1>4. q[1].v \in Versions
  BY <1>1 DEF StepOK
<1>5. /\ \A i \in 1 .. Len(p) : i + 1 \in 1 .. Len(q) /\ p[i] = q[i + 1]
      /\ (HasPop(p) => HasPop(q)) /\ (SavesBoot(p) => SavesBoot(q))
      /\ ~(Len(p) > 0 /\ p[1].op = "flash")
  BY <1>1, AgendaTail, TailDoes
<1>6. CASE q[1].v = disk.bin
  <2>1. apps' = Flashed /\ agenda' = p
    BY <1>2, <1>6
  <2>2. /\ apps' \in [run : Versions, other : 0 .. MaxVersion, next : {"run", "other"}]
        /\ apps'.run = apps.run /\ apps'.other = q[1].v /\ apps'.next = "other"
    BY <2>1, <1>4, <1>6, OtaConstants DEF Flashed, OtaInv, OtaTypeOK
  <2>3. OtaTypeOK'
    BY <1>1, <1>2, <2>1, <2>2 DEF OtaInv, OtaTypeOK, history
  <2>4. Pending(q[1].v).image = q[1].v /\ Pending(q[1].v).state = "pending_boot"
    BY <1>4, OtaConstants
  <2> HIDE DEF q, p
  <2>5. \A i \in 1 .. Len(p) : /\ SavesRecord(p[i]) => p[i].rec = Pending(q[1].v)
                              /\ p[i].op # "confirm"
    BY <1>3, <1>5 DEF Unconfirming
  <2>6. Trusted(p, apps', strayed, strict)
    <3>1. \A i \in 1 .. Len(p) : SavesRecord(p[i]) => p[i].rec.state = "pending_boot"
                                                      /\ p[i].rec.image = apps'.other
      BY <2>2, <2>4, <2>5
    <3>2. \A i \in 1 .. Len(p) : SavesRecord(p[i]) => p[i].rec.state # "boot_ok"
      BY <3>1
    <3> QED BY <2>2, <2>5, <3>1, <3>2 DEF Trusted
  <2>7. Applied(disk.rec, apps', strayed)
    BY <1>1, <2>2 DEF OtaInv, Applied, Replaces, q
  <2>8. Replaces(p, disk.rec, apps', strayed)
    BY <1>5 DEF Replaces
  <2>9. Recorded(p, disk.rec, apps', eroded)
    BY <1>3 DEF Recorded
  <2>10. TellsOnce(p, disk.rec, ram, events, eroded, told)
    <3>1. ~SavesRecord(q[1]) /\ q[1].op # "pop"
      BY <1>1 DEF SavesRecord
    <3> QED BY <1>1, <3>1, TailTells DEF OtaInv, q, p
  <2> QED BY <1>1, <1>2, <2>1, <2>3, <2>6, <2>7, <2>8, <2>9, <2>10 DEF OtaInv, history
<1>7. CASE q[1].v # disk.bin
  <2>1. agenda' = << >> /\ apps' = apps
    BY <1>2, <1>7
  <2>2. /\ Shape(<< >>) /\ ~HasFlash(<< >>) /\ ~HasSave(<< >>) /\ ~HasPop(<< >>) /\ ~SavesBoot(<< >>)
        /\ Harmless(<< >>) /\ Unconfirming(<< >>) /\ Len(<< >>) = 0 /\ << >> \in Seq(Steps)
    BY EmptyHarmless, HarmlessShape, EmptySeq DEF Unconfirming
  <2>3. OtaTypeOK'
    BY <1>2, <2>1, <2>2 DEF OtaInv, OtaTypeOK, history
  <2>4. Trusted(<< >>, apps, strayed, strict)
    BY <2>2, HarmlessTrusted
  <2>5. Recorded(<< >>, disk.rec, apps, eroded)
    BY <1>3 DEF OtaInv, Recorded
  <2>6. TellsOnce(<< >>, disk.rec, ram, events, eroded, told)
    BY <1>3, <2>2 DEF OtaInv, TellsOnce, NoticeGoes
  <2>7. Replaces(<< >>, disk.rec, apps, strayed)
    BY <2>2 DEF Replaces
  <2> QED BY <1>2, <2>1, <2>2, <2>3, <2>4, <2>5, <2>6, <2>7 DEF OtaInv, history
<1> QED BY <1>6, <1>7

LEMMA FlashesAndRestartsKeeps == ASSUME OtaInv, FlashesAndRestarts PROVE OtaInv'
<1> DEFINE f == [run |-> Flashed.other, other |-> Flashed.run, next |-> "run"]
<1>1. agenda[1].op = "flash" /\ Head(agenda) = agenda[1] /\ StepOK(agenda[1]) /\ agenda[1].v = disk.bin
  BY AgendaHead DEF FlashesAndRestarts, Runs
<1>2. disk.bin \in Versions
  BY <1>1 DEF StepOK
<1>3. f \in [run : Versions, other : 0 .. MaxVersion, next : {"run", "other"}] /\ f.next = "run"
  BY <1>2, OtaConstants DEF Flashed, OtaInv, OtaTypeOK
<1>4. Strays([run |-> Flashed.other]) <=> Strays(f)
  BY DEF Strays
<1>5. Reboot(f) /\ eroded' /\ UNCHANGED <<disk, strict, told>>
      /\ strayed' = (strayed \/ Strays([run |-> Flashed.other]))
  BY DEF FlashesAndRestarts
<1>6. eroded' = TRUE
  BY DEF FlashesAndRestarts
<1> HIDE DEF f
<1>7. strayed' = (strayed \/ Strays(f)) /\ eroded' \in BOOLEAN
  BY <1>4, <1>5, <1>6
<1> QED BY <1>3, <1>5, <1>6, <1>7, RebootKeeps

LEMMA WritesRecordKeeps == ASSUME OtaInv, WritesRecord PROVE OtaInv'
<1> DEFINE q == agenda
           p == Tail(agenda)
           r == agenda[1].rec
<1>1. /\ ~OtaIdle /\ q[1].op = "write" /\ q[1].file = "rec" /\ Head(q) = q[1] /\ StepOK(q[1])
      /\ SavesRecord(q[1]) /\ q[1] \in Steps /\ 1 \in 1 .. Len(q) /\ Len(q) \in Nat
      /\ q # << >> /\ Shape(q) /\ Shape(p) /\ p \in Seq(Steps) /\ Len(p) <= 8
  BY AgendaHead DEF WritesRecord, Runs, SavesRecord
<1>2. /\ disk' = [disk EXCEPT !.rec = r] /\ ram' = [ram EXCEPT !.rec = r] /\ agenda' = p
      /\ strayed' = (strayed /\ r.state # "pending_boot")
      /\ eroded' = (eroded /\ r.state # "pending_boot")
      /\ told' = IF r.report THEN 0 ELSE told
      /\ UNCHANGED <<apps, events, strict>>
  BY <1>1 DEF WritesRecord, Rest
<1>3. r \in Records /\ r.state # "none"
  BY <1>1 DEF Steps, StepOK
<1>4. disk'.rec = r /\ ram'.rec = r
      /\ disk' \in [bin : 0 .. MaxVersion, man : 0 .. MaxVersion, rec : Records]
      /\ ram' \in [ready : BOOLEAN, rec : Records]
  BY <1>2, <1>3 DEF OtaInv, OtaTypeOK
<1>5. strayed' \in BOOLEAN /\ eroded' \in BOOLEAN
  BY <1>2 DEF OtaInv, OtaTypeOK
<1>6. told' \in 0 .. 2
  BY <1>2 DEF OtaInv, OtaTypeOK
<1>7. OtaTypeOK'
  BY <1>1, <1>2, <1>4, <1>5, <1>6 DEF OtaInv, OtaTypeOK
<1>8. /\ ~HasFlash(q) /\ ~HasSave(p) /\ (HasPop(p) <=> HasPop(q))
      /\ (SavesBoot(p) => HasSave(p)) /\ ~(Len(p) > 0 /\ p[1].op = "flash")
  BY <1>1, TailDoes DEF SavesBoot, HasSave
<1>9. Unconfirming(p)
  <2> SUFFICES ASSUME NEW i \in 1 .. Len(p), p[i].op = "confirm"
               PROVE  FALSE
    BY DEF Unconfirming
  <2>1. i + 1 \in 1 .. Len(q) /\ q[i + 1].op = "confirm" /\ ShapeAt(q, i + 1)
    BY <1>1, AgendaTail DEF Shape
  <2>2. \A k \in 1 .. Len(q) : q[k].op \in {"remove", "load", "confirm"}
    BY <2>1 DEF ShapeAt
  <2> QED BY <1>1, <2>2
<1> HIDE DEF p, q
<1>10. Trusted(p, apps, strayed', strict)
  BY <1>8, <1>9 DEF Trusted, HasSave, Unconfirming
<1>11. r.state = "pending_boot" => apps.next = "other" /\ apps.other = r.image
  <2>1. Trusted(q, apps, strayed, strict)
    BY DEF OtaInv, q
  <2>2. SavesRecord(q[1]) /\ q[1].rec = r
    BY <1>1 DEF q
  <2> QED BY <1>1, <1>8, <2>1, <2>2 DEF Trusted
<1>12. r.state = "boot_ok" /\ r.sw # r.image => strayed /\ ~strict
  <2>1. Trusted(q, apps, strayed, strict)
    BY DEF OtaInv, q
  <2>2. SavesRecord(q[1]) /\ q[1].rec = r
    BY <1>1 DEF q
  <2> QED BY <1>1, <2>1, <2>2 DEF Trusted
<1>13. r.state = "boot_ok" /\ ~r.report => told >= 1 /\ (~eroded => told = 1 /\ NoticeGoes(q, events))
  <2>1. TellsOnce(q, disk.rec, ram, events, eroded, told)
    BY DEF OtaInv, q
  <2>2. SavesRecord(q[1]) /\ q[1].rec = r
    BY <1>1 DEF q
  <2> QED BY <1>1, <2>1, <2>2 DEF TellsOnce
<1>14. HasPop(q) => Len(events) > 0 /\ events[1].id = "Boot"
  BY DEF OtaInv, TellsOnce, q
<1> HIDE DEF r
<1>15. Applied(r, apps, strayed') /\ Replaces(p, r, apps, strayed') /\ Recorded(p, r, apps, eroded')
  BY <1>3, <1>8, <1>11 DEF Applied, Replaces, Recorded
<1>16. Sound(r, strayed', strict)
  BY <1>2, <1>12 DEF Sound
<1>17. ~r.report => Quiet(ram')
  BY <1>4 DEF Quiet
<1>18. TellsOnce(p, r, ram', events, eroded', told')
  <2>1. ASSUME r.state = "boot_ok", ~r.report
        PROVE  told' = told /\ told >= 1
    BY <2>1, <1>2, <1>13
  <2>2. ASSUME r.state = "boot_ok", ~eroded', told' # 0
        PROVE  told' = 1 /\ ~r.report /\ Quiet(ram') /\ NoticeGoes(p, events)
    <3>1. ~r.report /\ ~eroded
      BY <2>2, <1>2
    <3>2. told' = 1 /\ NoticeGoes(q, events)
      BY <3>1, <2>1, <2>2, <1>13
    <3> QED BY <3>1, <3>2, <1>8, <1>17 DEF NoticeGoes
  <2> QED BY <2>1, <2>2, <1>8, <1>14 DEF TellsOnce, HasSave
<1> QED BY <1>1, <1>2, <1>4, <1>7, <1>10, <1>15, <1>16, <1>18 DEF OtaInv, p

(* What is confirmed is what runs.                                          *)
LEMMA ConfirmsKeeps == ASSUME OtaInv, Confirms PROVE OtaInv'
<1> DEFINE q == agenda
           r == Confirmed(disk.rec, apps.run)
<1>1. /\ ~OtaIdle /\ q[1].op = "confirm" /\ 1 \in 1 .. Len(q)
      /\ q # << >> /\ Shape(q)
      /\ UNCHANGED <<disk, apps, ram, events, strict, history>>
  BY AgendaHead DEF Confirms, Runs
<1>2. /\ ~HasFlash(q) /\ ~HasPop(q) /\ ~HasSave(q) /\ ~SavesBoot(q)
  <2>1. \A k \in 1 .. Len(q) : q[k].op \in {"remove", "load", "confirm"}
    BY <1>1 DEF Shape, ShapeAt
  <2> QED BY <2>1 DEF HasFlash, HasPop, HasSave, SavesBoot, SavesRecord
<1>3. apps.next = "run"
  BY <1>1 DEF OtaInv, Trusted
<1>4. CASE disk.rec.state = "pending_boot" /\ (strict => apps.run = disk.rec.image)
  <2>1. agenda' = Save(r)
    BY <1>4 DEF Confirms
  <2>2. disk.rec \in Records /\ apps.run \in Versions
    BY DEF OtaInv, OtaTypeOK
  <2>3. /\ r \in Records /\ r.state = "boot_ok" /\ r.report = TRUE
        /\ r.sw = apps.run /\ r.image = disk.rec.image
    BY <2>2, RecordChanges
  <2> HIDE DEF r, q
  <2>4. DEFINE p == Save(r)
  <2>5. /\ Shape(p) /\ ~HasFlash(p) /\ ~HasPop(p) /\ p[1].op = "truncate"
        /\ \A i \in 1 .. Len(p) : p[i].op # "confirm"
        /\ \A i \in 1 .. Len(p) : SavesRecord(p[i]) => p[i].rec = r
    BY <2>3, SaveShape
  <2> HIDE DEF p
  <2>6. OtaTypeOK'
    BY <1>1, <2>1, <2>5 DEF OtaInv, OtaTypeOK, Shape, history, p
  <2>7. r.sw # r.image => strayed /\ ~strict
    BY <1>3, <1>4, <2>3 DEF OtaInv, Applied
  <2>8. Trusted(p, apps, strayed, strict)
    <3>1. \A i \in 1 .. Len(p) : SavesRecord(p[i]) => p[i].rec.state # "pending_boot"
      BY <2>3, <2>5
    <3>2. \A i \in 1 .. Len(p) : SavesRecord(p[i]) /\ p[i].rec.sw # p[i].rec.image => strayed /\ ~strict
      BY <2>5, <2>7
    <3> QED BY <2>5, <3>1, <3>2 DEF Trusted
  <2>9. TellsOnce(p, disk.rec, ram, events, eroded, told)
    <3>1. \A i \in 1 .. Len(p) : SavesRecord(p[i]) => p[i].rec.report
      BY <2>3, <2>5
    <3> QED BY <1>4, <2>5, <3>1 DEF TellsOnce
  <2>10. Recorded(p, disk.rec, apps, eroded) /\ Replaces(p, disk.rec, apps, strayed)
    BY <1>4, <2>5 DEF Recorded, Replaces
  <2> QED BY <1>1, <2>1, <2>5, <2>6, <2>8, <2>9, <2>10 DEF OtaInv, history, p
<1>5. CASE ~(disk.rec.state = "pending_boot" /\ (strict => apps.run = disk.rec.image))
  <2>1. agenda' = << >>
    BY <1>5 DEF Confirms
  <2>2. /\ Shape(<< >>) /\ ~HasFlash(<< >>) /\ ~HasSave(<< >>) /\ ~HasPop(<< >>) /\ ~SavesBoot(<< >>)
        /\ Harmless(<< >>) /\ Unconfirming(<< >>) /\ Len(<< >>) = 0 /\ << >> \in Seq(Steps)
    BY EmptyHarmless, HarmlessShape, EmptySeq DEF Unconfirming
  <2>3. OtaTypeOK'
    BY <1>1, <2>1, <2>2 DEF OtaInv, OtaTypeOK, history
  <2>4. Trusted(<< >>, apps, strayed, strict)
    BY <2>2, HarmlessTrusted
  <2>5. Recorded(<< >>, disk.rec, apps, eroded)
    BY <1>2 DEF OtaInv, Recorded
  <2>6. TellsOnce(<< >>, disk.rec, ram, events, eroded, told)
    BY <1>2, <2>2 DEF OtaInv, TellsOnce, NoticeGoes
  <2>7. Replaces(<< >>, disk.rec, apps, strayed)
    BY <2>2 DEF Replaces
  <2> QED BY <1>1, <2>1, <2>2, <2>3, <2>4, <2>5, <2>6, <2>7 DEF OtaInv, history
<1> QED BY <1>4, <1>5

(* A step fails: the handler gives up some of the steps it has left.        *)
LEMMA GivesUp ==
  ASSUME OtaInv, ~OtaIdle, agenda[1].op # "pop", NEW p, Shape(p), agenda' = p,
         \A i \in 1 .. Len(p) : \E k \in 1 .. Len(agenda) : p[i] = agenda[k],
         Len(p) = 0 \/ ~HasFlash(agenda),
         eroded' = (eroded \/ Saving),
         UNCHANGED <<disk, apps, ram, events, strict, strayed, told>>
  PROVE  OtaInv'
<1> DEFINE q == agenda
<1>1. q # << >> /\ Shape(q) /\ 1 \in 1 .. Len(q) /\ Len(q) \in Nat
  BY AgendaHead
<1>2. eroded' \in BOOLEAN
  BY DEF OtaInv, OtaTypeOK, Saving
<1>3. OtaTypeOK'
  BY <1>2 DEF OtaInv, OtaTypeOK, Shape
<1>4. HasSave(q) => eroded'
  BY SavingCovers
<1>5. HasPop(q) => eroded'
  <2> SUFFICES ASSUME HasPop(q)
               PROVE  Saving
    OBVIOUS
  <2>1. q[1].file = "rec" /\ q[1].op \in {"truncate", "write"}
    BY <1>1, TailDoes
  <2> QED BY <1>1, <2>1, LenProperties DEF Saving, Shape
<1>6. SavesBoot(q) => HasSave(q)
  BY DEF SavesBoot, HasSave
<1> HIDE DEF q
<1>7. /\ HasFlash(p) => HasFlash(q)
      /\ HasSave(p) => HasSave(q)
      /\ SavesBoot(p) => SavesBoot(q)
      /\ HasPop(p) => HasPop(q)
  BY DEF HasFlash, HasSave, SavesBoot, HasPop, q
<1>8. Trusted(p, apps, strayed, strict)
  <2>1. Trusted(q, apps, strayed, strict)
    BY DEF OtaInv, q
  <2>2. \A i \in 1 .. Len(p) : ~HasFlash(q) /\ \E k \in 1 .. Len(q) : p[i] = q[k]
    BY DEF q
  <2> QED BY <2>1, <2>2 DEF Trusted
<1>9. Replaces(p, disk.rec, apps, strayed)
  <2>1. Len(p) \in Nat
    BY DEF Shape
  <2>2. Len(p) > 0 => ~HasFlash(p)
    BY <1>7 DEF q
  <2> QED BY <2>1, <2>2 DEF Replaces, HasFlash
<1>10. Recorded(p, disk.rec, apps, eroded')
  BY <1>4, <1>6 DEF OtaInv, Recorded, q
<1>11. TellsOnce(p, disk.rec, ram, events, eroded', told)
  <2>1. TellsOnce(q, disk.rec, ram, events, eroded, told)
    BY DEF OtaInv, q
  <2>2. ~eroded' => ~eroded /\ ~HasSave(q) /\ ~HasPop(q) /\ ~SavesBoot(q) /\ ~HasSave(p)
    BY <1>4, <1>5, <1>6, <1>7
  <2>3. ASSUME NEW i \in 1 .. Len(p), SavesRecord(p[i]), p[i].rec.state = "boot_ok", ~p[i].rec.report
        PROVE  told >= 1 /\ eroded'
    <3>1. PICK k \in 1 .. Len(q) : p[i] = q[k]
      BY DEF q
    <3>2. told >= 1
      BY <2>1, <2>3, <3>1 DEF TellsOnce
    <3>3. HasSave(q)
      BY <2>3, <3>1 DEF HasSave
    <3> QED BY <3>2, <3>3, <1>4
  <2>4. HasPop(p) => Len(events) > 0 /\ events[1].id = "Boot"
    BY <1>7, <2>1 DEF TellsOnce
  <2>5. disk.rec.state = "boot_ok" /\ ~disk.rec.report => told >= 1
    BY <2>1 DEF TellsOnce
  <2>6. ASSUME disk.rec.state = "boot_ok", ~eroded', told # 0
        PROVE  told = 1 /\ ~disk.rec.report /\ Quiet(ram) /\ NoticeGoes(p, events)
    <3>1. ~eroded /\ ~HasSave(q) /\ ~HasPop(q) /\ ~SavesBoot(q)
      BY <2>2, <2>6
    <3> QED BY <2>1, <2>6, <3>1 DEF TellsOnce, NoticeGoes
  <2> QED BY <2>3, <2>4, <2>5, <2>6 DEF TellsOnce
<1> QED BY <1>3, <1>8, <1>9, <1>10, <1>11 DEF OtaInv

LEMMA FailsKeeps == ASSUME OtaInv, Fails PROVE OtaInv'
<1> DEFINE q == agenda
<1>1. /\ ~OtaIdle /\ q[1].op # "pop" /\ Head(q) = q[1] /\ StepOK(q[1]) /\ Shape(q) /\ q # << >>
      /\ q[1] \in Steps
      /\ agenda' = AfterFault /\ eroded' = (eroded \/ Saving)
      /\ UNCHANGED <<disk, apps, ram, events, strict, strayed, told>>
  BY AgendaHead DEF Fails
<1>2. /\ Shape(Tail(q)) /\ \A i \in 1 .. Len(Tail(q)) : i + 1 \in 1 .. Len(q) /\ Tail(q)[i] = q[i + 1]
  BY <1>1, AgendaTail
<1>3. CASE agenda' = << >>
  <2>1. Shape(<< >>) /\ Len(<< >>) = 0
    BY EmptyHarmless, HarmlessShape, EmptySeq
  <2> QED BY <1>1, <1>3, <2>1, GivesUp
<1>4. CASE agenda' = Tail(q) /\ q[1].op \in {"truncate", "write", "remove"}
  <2>1. ~HasFlash(q)
    BY <1>1, <1>4, TailDoes
  <2>2. \A i \in 1 .. Len(Tail(q)) : \E k \in 1 .. Len(q) : Tail(q)[i] = q[k]
    BY <1>2
  <2> QED BY <1>1, <1>2, <1>4, <2>1, <2>2, GivesUp
<1>5. CASE agenda' = Tail(Tail(q)) /\ q[1].op = "truncate"
  <2> DEFINE p == Tail(Tail(q))
  <2>1. ~HasFlash(q) /\ Tail(q) # << >>
    BY <1>1, <1>5, TailDoes
  <2>2. /\ Shape(p)
        /\ \A i \in 1 .. Len(p) : i + 1 \in 1 .. Len(Tail(q)) /\ p[i] = Tail(q)[i + 1]
    BY <1>2, <2>1, AgendaTail
  <2> HIDE DEF p
  <2>3. ASSUME NEW i \in 1 .. Len(p)
        PROVE  \E k \in 1 .. Len(q) : p[i] = q[k]
    <3>1. i + 1 \in 1 .. Len(Tail(q)) /\ p[i] = Tail(q)[i + 1]
      BY <2>2
    <3>2. (i + 1) + 1 \in 1 .. Len(q) /\ Tail(q)[i + 1] = q[(i + 1) + 1]
      BY <1>2, <3>1
    <3> QED BY <3>1, <3>2
  <2> QED BY <1>1, <1>5, <2>1, <2>2, <2>3, GivesUp DEF p
<1>6. \/ agenda' = << >>
      \/ agenda' = Tail(q) /\ q[1].op \in {"truncate", "write", "remove"}
      \/ agenda' = Tail(Tail(q)) /\ q[1].op = "truncate"
  BY <1>1 DEF AfterFault, Rest
<1> QED BY <1>3, <1>4, <1>5, <1>6

-----------------------------------------------------------------------------
(* The queue of events.                                                     *)
Events == [id : Ids, tries : 0 .. RetryMax]

LEMMA TailEvents ==
  ASSUME NEW ev \in Seq(Events), Len(ev) > 0, OneNotice(ev)
  PROVE  /\ Tail(ev) \in Seq(Events) /\ Len(Tail(ev)) = Len(ev) - 1 /\ Len(ev) \in Nat
         /\ \A i \in 1 .. Len(Tail(ev)) : i + 1 \in 1 .. Len(ev) /\ Tail(ev)[i] = ev[i + 1]
         /\ Head(ev) = ev[1] /\ ev[1] \in Events /\ OneNotice(Tail(ev))
         /\ ev[1].id = "Boot" => \A i \in 1 .. Len(Tail(ev)) : Tail(ev)[i].id # "Boot"
<1>1. ev # << >> /\ Len(ev) \in Nat
  BY EmptySeq
<1>2. /\ Head(ev) \in Events /\ Tail(ev) \in Seq(Events) /\ Len(Tail(ev)) = Len(ev) - 1
      /\ \A i \in 1 .. Len(Tail(ev)) : Tail(ev)[i] = ev[i + 1]
  BY <1>1, HeadTailProperties
<1>3. Head(ev) = ev[1] /\ 1 \in 1 .. Len(ev)
  BY <1>1
<1> DEFINE t == Tail(ev)
<1> HIDE DEF t
<1>4. \A i \in 1 .. Len(t) : i + 1 \in 1 .. Len(ev) /\ t[i] = ev[i + 1]
  BY <1>1, <1>2 DEF t
<1>5. OneNotice(t)
  <2> SUFFICES ASSUME NEW i \in 1 .. Len(t), NEW j \in 1 .. Len(t), t[i].id = "Boot", t[j].id = "Boot"
               PROVE  i = j
    BY DEF OneNotice
  <2>1. i + 1 = j + 1
    BY <1>4 DEF OneNotice
  <2> QED BY <2>1
<1>6. ev[1].id = "Boot" => \A i \in 1 .. Len(t) : t[i].id # "Boot"
  <2> SUFFICES ASSUME ev[1].id = "Boot", NEW i \in 1 .. Len(t), t[i].id = "Boot"
               PROVE  FALSE
    OBVIOUS
  <2>1. i + 1 = 1
    BY <1>3, <1>4 DEF OneNotice
  <2> QED BY <2>1
<1> QED BY <1>1, <1>2, <1>3, <1>4, <1>5, <1>6 DEF t

LEMMA PublishedEvents ==
  ASSUME NEW ev \in Seq(Events), ev = events, Len(ev) <= QMax, OneNotice(ev), NEW id \in Ids
  PROVE  LET new == Published(ev, id)
         IN /\ new \in Seq(Events) /\ Len(new) <= QMax /\ OneNotice(new)
            /\ \A i \in 1 .. Len(new) :
                 new[i].id = "Boot" => id = "Boot" \/ \E j \in 1 .. Len(ev) : ev[j].id = "Boot"
<1> DEFINE e == [id |-> id, tries |-> 0]
           new == Published(ev, id)
<1>1. e \in Events /\ e.id = id
  BY OtaSizes DEF Events
<1>2. DOMAIN ev = 1 .. Len(ev) /\ Len(ev) \in Nat /\ ev \in [1 .. Len(ev) -> Events]
  BY LenProperties
<1>3. CASE Queued(id)
  <2> DEFINE f == [i \in 1 .. Len(ev) |-> IF ev[i].id = id THEN e ELSE ev[i]]
  <2>1. new = f
    BY <1>2, <1>3 DEF Published
  <2>2. f \in [1 .. Len(ev) -> Events]
    BY <1>1, <1>2
  <2>3. \A i \in 1 .. Len(ev) : f[i].id = ev[i].id
    BY <1>1
  <2> HIDE DEF f
  <2>4. f \in Seq(Events)
    BY <1>2, <2>2, SeqDef
  <2>5. Len(f) = Len(ev)
    BY <1>2, <2>2, <2>4, LenProperties
  <2>6. OneNotice(f)
    BY <2>3, <2>5 DEF OneNotice
  <2>7. f \in Seq(Events) /\ Len(f) <= QMax /\ OneNotice(f)
        /\ \A i \in 1 .. Len(f) :
              f[i].id = "Boot" => id = "Boot" \/ \E j \in 1 .. Len(ev) : ev[j].id = "Boot"
    BY <2>3, <2>4, <2>5, <2>6
  <2> HIDE DEF new
  <2>8. new \in Seq(Events) /\ Len(new) <= QMax /\ OneNotice(new)
        /\ \A i \in 1 .. Len(new) :
              new[i].id = "Boot" => id = "Boot" \/ \E j \in 1 .. Len(ev) : ev[j].id = "Boot"
    BY <2>1, <2>7
  <2> QED BY <2>8 DEF new
<1>4. CASE ~Queued(id)
  <2> DEFINE b == IF Len(ev) >= QMax THEN Tail(ev) ELSE ev
  <2>1. \A j \in 1 .. Len(ev) : ev[j].id # id
    BY <1>2, <1>4 DEF Queued
  <2>2. QMax \in Nat /\ QMax > 0
    BY OtaSizes
  <2>3. /\ b \in Seq(Events) /\ Len(b) < QMax /\ OneNotice(b) /\ Len(b) \in Nat
        /\ \A i \in 1 .. Len(b) : \E j \in 1 .. Len(ev) : b[i] = ev[j]
    <3>1. CASE Len(ev) >= QMax
      <4>1. Len(ev) > 0 /\ b = Tail(ev)
        BY <1>2, <2>2, <3>1
      <4>2. /\ Tail(ev) \in Seq(Events) /\ Len(Tail(ev)) = Len(ev) - 1 /\ OneNotice(Tail(ev))
            /\ \A i \in 1 .. Len(Tail(ev)) : i + 1 \in 1 .. Len(ev) /\ Tail(ev)[i] = ev[i + 1]
        BY <4>1, TailEvents
      <4> HIDE DEF b
      <4>3. \A i \in 1 .. Len(b) : \E j \in 1 .. Len(ev) : b[i] = ev[j]
        BY <4>1, <4>2
      <4>4. Len(Tail(ev)) < QMax /\ Len(Tail(ev)) \in Nat
        <5> DEFINE m == Len(Tail(ev))
                   n == Len(ev)
        <5>1. n \in Nat /\ n > 0 /\ n <= QMax /\ m = n - 1
          BY <1>2, <4>1, <4>2
        <5> HIDE DEF m, n
        <5> QED BY <2>2, <5>1 DEF m
      <4> QED BY <4>1, <4>2, <4>3, <4>4
    <3>2. CASE ~(Len(ev) >= QMax)
      BY <1>2, <2>2, <3>2
    <3> QED BY <3>1, <3>2
  <2>4. new = Append(b, e)
    BY <1>4 DEF Published
  <2> HIDE DEF b, e, new
  <2>5. /\ new \in Seq(Events) /\ Len(new) = Len(b) + 1 /\ new[Len(b) + 1] = e
        /\ \A i \in 1 .. Len(b) : new[i] = b[i]
    BY <1>1, <2>3, <2>4, AppendProperties
  <2>6. \A i \in 1 .. Len(b) : new[i].id # id
    BY <2>1, <2>3, <2>5
  <2>7. \A i \in 1 .. Len(new) : i \in 1 .. Len(b) \/ (i = Len(b) + 1 /\ new[i].id = id)
    BY <1>1, <2>3, <2>5
  <2>8. OneNotice(new)
    <3> SUFFICES ASSUME NEW i \in 1 .. Len(new), NEW j \in 1 .. Len(new),
                        new[i].id = "Boot", new[j].id = "Boot"
                 PROVE  i = j
      BY DEF OneNotice
    <3>1. CASE i \in 1 .. Len(b) /\ j \in 1 .. Len(b)
      BY <3>1, <2>3, <2>5 DEF OneNotice
    <3>2. CASE ~(i \in 1 .. Len(b) /\ j \in 1 .. Len(b))
      BY <3>2, <2>6, <2>7
    <3> QED BY <3>1, <3>2
  <2>9. \A i \in 1 .. Len(new) :
          new[i].id = "Boot" => id = "Boot" \/ \E j \in 1 .. Len(ev) : ev[j].id = "Boot"
    BY <2>3, <2>5, <2>7
  <2>10. new \in Seq(Events) /\ Len(new) <= QMax
    BY <2>2, <2>3, <2>5
  <2> QED BY <2>8, <2>9, <2>10 DEF new
<1> QED BY <1>3, <1>4

LEMMA EventsTyped ==
  ASSUME OtaInv
  PROVE  events \in Seq(Events) /\ Len(events) <= QMax /\ OneNotice(events)
BY DEF OtaInv, OtaTypeOK, Events

LEMMA PublishKeeps == ASSUME OtaInv, NEW id \in EventIds, Publish(id) PROVE OtaInv'
<1> DEFINE ev == Published(events, id)
<1>1. /\ events' = ev /\ OtaIdle /\ UNCHANGED <<disk, apps, ram, agenda, strict, history>>
  BY DEF Publish
<1>2. id \in Ids /\ id # "Boot"
  BY OtaSizes DEF Ids
<1>3. /\ ev \in Seq(Events) /\ Len(ev) <= QMax /\ OneNotice(ev)
      /\ \A i \in 1 .. Len(ev) : ev[i].id = "Boot" => \E j \in 1 .. Len(events) : events[j].id = "Boot"
  BY <1>2, EventsTyped, PublishedEvents
<1> HIDE DEF ev
<1>4. Len(agenda) = 0 /\ ~HasSave(agenda) /\ ~SavesBoot(agenda) /\ ~HasPop(agenda)
  BY <1>1, IdleAgenda
<1>5. TellsOnce(agenda, disk.rec, ram, ev, eroded, told)
  BY <1>3, <1>4 DEF OtaInv, TellsOnce, NoticeGoes, HasSave
<1>6. OtaTypeOK'
  BY <1>1, <1>3 DEF OtaInv, OtaTypeOK, history, Events
<1> QED BY <1>1, <1>3, <1>5, <1>6 DEF OtaInv, history

LEMMA NoticeTickKeeps == ASSUME OtaInv, NoticeTick PROVE OtaInv'
<1> DEFINE ev == Published(events, "Boot")
<1>1. /\ events' = ev /\ OtaIdle /\ UNCHANGED <<disk, apps, ram, agenda, strict, history>> /\ ~Quiet(ram)
  BY DEF NoticeTick, NoticePending, Quiet
<1>2. ev \in Seq(Events) /\ Len(ev) <= QMax /\ OneNotice(ev)
  BY EventsTyped, PublishedEvents DEF Ids
<1> HIDE DEF ev
<1>3. Len(agenda) = 0 /\ ~HasSave(agenda) /\ ~SavesBoot(agenda) /\ ~HasPop(agenda)
  BY <1>1, IdleAgenda
<1>4. TellsOnce(agenda, disk.rec, ram, ev, eroded, told)
  BY <1>1, <1>3 DEF OtaInv, TellsOnce, HasSave
<1>5. OtaTypeOK'
  BY <1>1, <1>2 DEF OtaInv, OtaTypeOK, history, Events
<1> QED BY <1>1, <1>2, <1>4, <1>5 DEF OtaInv, history

LEMMA SendRefusedKeeps == ASSUME OtaInv, SendRefused PROVE OtaInv'
<1> DEFINE ev == [events EXCEPT ![1].tries = @ + 1]
<1>1. /\ OtaIdle /\ events # << >> /\ UNCHANGED <<disk, apps, ram, agenda, strict, history>>
      /\ events' = IF Head(events).tries >= RetryMax THEN Tail(events) ELSE ev
  BY DEF SendRefused
<1>2. events \in Seq(Events) /\ Len(events) <= QMax /\ OneNotice(events) /\ Len(events) > 0
      /\ Len(events) \in Nat /\ QMax \in Nat
  BY <1>1, EventsTyped, EmptySeq, OtaSizes
<1>3. Len(agenda) = 0 /\ ~HasSave(agenda) /\ ~SavesBoot(agenda) /\ ~HasPop(agenda)
  BY <1>1, IdleAgenda
<1>4. /\ events' \in Seq(Events) /\ Len(events') <= QMax /\ OneNotice(events')
      /\ \A i \in 1 .. Len(events') :
            events'[i].id = "Boot" => \E j \in 1 .. Len(events) : events[j].id = "Boot"
  <2>1. CASE Head(events).tries >= RetryMax
    <3>1. events' = Tail(events)
      BY <1>1, <2>1
    <3>2. /\ Tail(events) \in Seq(Events) /\ Len(Tail(events)) = Len(events) - 1 /\ OneNotice(Tail(events))
          /\ \A i \in 1 .. Len(Tail(events)) : i + 1 \in 1 .. Len(events)
                                              /\ Tail(events)[i] = events[i + 1]
      BY <1>2, TailEvents
    <3>3. Len(events') <= QMax
      BY <1>2, <3>1, <3>2
    <3>4. \A i \in 1 .. Len(events') :
            events'[i].id = "Boot" => \E j \in 1 .. Len(events) : events[j].id = "Boot"
      BY <3>1, <3>2
    <3> QED BY <3>1, <3>2, <3>3, <3>4
  <2>2. CASE ~(Head(events).tries >= RetryMax)
    <3>1. events' = ev /\ Head(events) = events[1] /\ events[1] \in Events
      BY <1>1, <1>2, <2>2, TailEvents
    <3>2. RetryMax \in Nat /\ ~(events[1].tries >= RetryMax) /\ events[1].tries \in 0 .. RetryMax
      BY <2>2, <3>1, OtaSizes DEF Events
    <3>3. events[1].tries + 1 \in 0 .. RetryMax
      BY <3>2
    <3>4. DOMAIN events = 1 .. Len(events) /\ events \in [1 .. Len(events) -> Events]
      BY <1>2, LenProperties
    <3>5. ev \in [1 .. Len(events) -> Events] /\ \A i \in 1 .. Len(events) : ev[i].id = events[i].id
      BY <3>1, <3>3, <3>4 DEF Events
    <3> HIDE DEF ev
    <3>6. ev \in Seq(Events)
      BY <1>2, <3>5, SeqDef
    <3>7. Len(ev) = Len(events)
      BY <1>2, <3>5, <3>6, LenProperties
    <3>8. OneNotice(ev)
      BY <1>2, <3>5, <3>7 DEF OneNotice
    <3> QED BY <1>2, <3>1, <3>5, <3>6, <3>7, <3>8
  <2> QED BY <2>1, <2>2
<1>5. TellsOnce(agenda, disk.rec, ram, events', eroded, told)
  BY <1>3, <1>4 DEF OtaInv, TellsOnce, NoticeGoes, HasSave
<1>6. OtaTypeOK'
  BY <1>1, <1>4 DEF OtaInv, OtaTypeOK, history, Events
<1> QED BY <1>1, <1>4, <1>5, <1>6 DEF OtaInv, history

LEMMA PopsKeeps == ASSUME OtaInv, Pops PROVE OtaInv'
<1> DEFINE q == agenda
<1>1. /\ ~OtaIdle /\ q[1].op = "pop" /\ 1 \in 1 .. Len(q) /\ q # << >> /\ Shape(q)
      /\ events' = Tail(events) /\ agenda' = Tail(q)
      /\ UNCHANGED <<disk, apps, ram, strict, history>>
  BY AgendaHead DEF Pops, Runs, Rest
<1>2. /\ Tail(q) = << >> /\ ~HasFlash(q) /\ HasPop(q)
      /\ (SavesBoot(q) => SavesBoot(Tail(q))) /\ (HasSave(q) => HasSave(Tail(q)))
  <2>1. ~SavesRecord(q[1])
    BY <1>1 DEF SavesRecord
  <2>2. HasPop(q)
    BY <1>1 DEF HasPop
  <2> QED BY <1>1, <2>1, <2>2, TailDoes
<1>3. /\ Shape(<< >>) /\ ~HasFlash(<< >>) /\ ~HasSave(<< >>) /\ ~HasPop(<< >>) /\ ~SavesBoot(<< >>)
      /\ Harmless(<< >>) /\ Unconfirming(<< >>) /\ Len(<< >>) = 0 /\ << >> \in Seq(Steps)
  BY EmptyHarmless, HarmlessShape, EmptySeq DEF Unconfirming
<1>4. agenda' = << >> /\ ~SavesBoot(q) /\ ~HasSave(q)
  BY <1>1, <1>2, <1>3
<1> HIDE DEF q
<1>5. Len(events) > 0 /\ events[1].id = "Boot"
  BY <1>2 DEF OtaInv, TellsOnce, q
<1>6. /\ Tail(events) \in Seq(Events) /\ Len(Tail(events)) = Len(events) - 1 /\ OneNotice(Tail(events))
      /\ \A i \in 1 .. Len(Tail(events)) : Tail(events)[i].id # "Boot"
      /\ Len(events) \in Nat /\ Len(events) <= QMax /\ QMax \in Nat
  BY <1>5, EventsTyped, TailEvents, OtaSizes
<1>7. Len(Tail(events)) <= QMax
  BY <1>6
<1>8. OtaTypeOK'
  <2>1. events' \in Seq(Events) /\ Len(events') <= QMax
    BY <1>1, <1>6, <1>7
  <2>2. agenda' \in Seq(Steps) /\ Len(agenda') <= 8
    BY <1>3, <1>4
  <2> QED BY <1>1, <2>1, <2>2 DEF OtaInv, OtaTypeOK, history, Events
<1>9. Trusted(<< >>, apps, strayed, strict)
  BY <1>3, HarmlessTrusted
<1>10. Recorded(<< >>, disk.rec, apps, eroded)
  BY <1>4 DEF OtaInv, Recorded, q
<1>11. TellsOnce(<< >>, disk.rec, ram, Tail(events), eroded, told)
  BY <1>3, <1>4, <1>6 DEF OtaInv, TellsOnce, NoticeGoes, q
<1>12. Replaces(<< >>, disk.rec, apps, strayed)
  BY <1>3 DEF Replaces
<1> QED BY <1>1, <1>3, <1>4, <1>6, <1>8, <1>9, <1>10, <1>11, <1>12 DEF OtaInv, history

(* The radio takes an event; the flag of the notice is cleared after that.  *)
LEMMA SendOkKeeps == ASSUME OtaInv, SendOk PROVE OtaInv'
<1>1. /\ OtaIdle /\ UNCHANGED <<disk, apps, ram, strict, spent, strayed, eroded>>
      /\ Len(events) > 0 /\ Len(events) \in Nat /\ events \in Seq(Events) /\ OneNotice(events)
      /\ Len(events) <= QMax /\ QMax \in Nat
  BY EventsTyped, EmptySeq, OtaSizes DEF SendOk
<1>2. Head(events) = events[1]
  BY <1>1, TailEvents
<1>3. Len(agenda) = 0 /\ ~HasSave(agenda) /\ ~SavesBoot(agenda) /\ ~HasPop(agenda)
  BY <1>1, IdleAgenda
<1>4. CASE events[1].id # "Boot"
  <2>1. events' = Tail(events) /\ agenda' = agenda /\ told' = told
    BY <1>2, <1>4 DEF SendOk
  <2>2. /\ Tail(events) \in Seq(Events) /\ Len(Tail(events)) = Len(events) - 1 /\ OneNotice(Tail(events))
        /\ \A i \in 1 .. Len(Tail(events)) : i + 1 \in 1 .. Len(events) /\ Tail(events)[i] = events[i + 1]
    BY <1>1, TailEvents
  <2>3. Len(Tail(events)) <= QMax
    BY <1>1, <2>2
  <2>4. TellsOnce(agenda, disk.rec, ram, Tail(events), eroded, told)
    BY <1>3, <2>2 DEF OtaInv, TellsOnce, NoticeGoes, HasSave
  <2>5. OtaTypeOK'
    <3>1. events' \in Seq(Events) /\ Len(events') <= QMax
      BY <2>1, <2>2, <2>3
    <3> QED BY <1>1, <2>1, <3>1 DEF OtaInv, OtaTypeOK, Events
  <2> QED BY <1>1, <2>1, <2>2, <2>4, <2>5 DEF OtaInv
<1>5. CASE events[1].id = "Boot"
  <2> DEFINE p == ClearNotice \o << Step("pop", "queue", 0) >>
             u == IF told = 2 THEN 2 ELSE told + 1
  <2>1. events' = events /\ agenda' = p /\ told' = u
    BY <1>2, <1>5 DEF SendOk
  <2>2. told \in 0 .. 2 /\ u \in 0 .. 2 /\ u >= 1 /\ (told = 0 => u = 1)
    BY DEF OtaInv, OtaTypeOK
  <2>3. disk.rec \in Records
    BY DEF OtaInv, OtaTypeOK
  <2> HIDE DEF p, u
  <2>4. disk.rec.state = "boot_ok" /\ ~eroded => told = 0
    <3>1. ~NoticeGoes(agenda, events)
      BY <1>1, <1>3, <1>5 DEF NoticeGoes
    <3> QED BY <1>3, <3>1 DEF OtaInv, TellsOnce
  <2>5. \A i \in 1 .. Len(events) : events[i].id = "Boot" => i = 1
    BY <1>1, <1>5 DEF OneNotice
  <2>6. CASE disk.rec.state = "boot_ok" /\ disk.rec.report
    <3> DEFINE r == Told(disk.rec)
    <3>1. 1 \in Versions
      BY OtaConstants
    <3>2. /\ r \in Records /\ r.state = "boot_ok" /\ r.report = FALSE
          /\ r.image = disk.rec.image /\ r.sw = disk.rec.sw
      BY <2>3, <2>6, <3>1, RecordChanges
    <3>3. p = Save(r) \o << Step("pop", "queue", 0) >>
      BY <2>6 DEF p, ClearNotice
    <3> HIDE DEF r
    <3>4. /\ Shape(p) /\ ~HasFlash(p) /\ HasPop(p) /\ SavesBoot(p)
          /\ \A i \in 1 .. Len(p) : p[i].op # "confirm" /\ (SavesRecord(p[i]) => p[i].rec = r)
          /\ p[1].op = "truncate"
      BY <3>2, <3>3, TellShape
    <3>5. OtaTypeOK'
      BY <1>1, <2>1, <2>2, <3>4 DEF OtaInv, OtaTypeOK, Shape, Events
    <3>6. Trusted(p, apps, strayed, strict)
      <4>1. \A i \in 1 .. Len(p) : SavesRecord(p[i]) => p[i].rec.state # "pending_boot"
        BY <3>2, <3>4
      <4>2. r.sw # r.image => strayed /\ ~strict
        BY <2>6, <3>2 DEF OtaInv, Sound
      <4>3. \A i \in 1 .. Len(p) : SavesRecord(p[i]) /\ p[i].rec.sw # p[i].rec.image => strayed /\ ~strict
        BY <3>4, <4>2
      <4> QED BY <3>4, <4>1, <4>3 DEF Trusted
    <3>7. Replaces(p, disk.rec, apps, strayed) /\ Recorded(p, disk.rec, apps, eroded)
      BY <2>6, <3>4 DEF Replaces, Recorded
    <3>8. TellsOnce(p, disk.rec, ram, events, eroded, u)
      <4>1. NoticeGoes(p, events)
        BY <2>5, <3>4 DEF NoticeGoes
      <4>2. ~eroded => u = 1
        BY <2>2, <2>4, <2>6
      <4> QED BY <1>1, <1>5, <2>2, <2>6, <3>4, <4>1, <4>2 DEF TellsOnce
    <3> QED BY <1>1, <2>1, <3>4, <3>5, <3>6, <3>7, <3>8 DEF OtaInv
  <2>7. CASE ~(disk.rec.state = "boot_ok" /\ disk.rec.report)
    <3>1. p = << >> \o << Step("pop", "queue", 0) >>
      BY <2>7 DEF p, ClearNotice
    <3>2. /\ Shape(p) /\ ~HasFlash(p) /\ HasPop(p) /\ ~HasSave(p)
          /\ \A i \in 1 .. Len(p) : p[i].op # "confirm"
          /\ p[1].op = "pop"
      BY <3>1, PopShape
    <3>3. OtaTypeOK'
      BY <1>1, <2>1, <2>2, <3>2 DEF OtaInv, OtaTypeOK, Shape, Events
    <3>4. Trusted(p, apps, strayed, strict)
      BY <3>2 DEF Trusted, HasSave
    <3>5. Replaces(p, disk.rec, apps, strayed)
      BY <3>2 DEF Replaces
    <3>6. Recorded(p, disk.rec, apps, eroded)
      BY <1>3 DEF OtaInv, Recorded
    <3>7. ~(disk.rec.state = "boot_ok" /\ ~eroded)
      <4>1. disk.rec.state = "boot_ok" => told >= 1
        BY <2>7 DEF OtaInv, TellsOnce
      <4> QED BY <2>2, <2>4, <4>1
    <3>8. TellsOnce(p, disk.rec, ram, events, eroded, u)
      BY <1>1, <1>5, <2>2, <3>2, <3>7 DEF TellsOnce, HasSave
    <3> QED BY <1>1, <2>1, <3>2, <3>3, <3>4, <3>5, <3>6, <3>8 DEF OtaInv
  <2> QED BY <2>6, <2>7
<1> QED BY <1>4, <1>5

-----------------------------------------------------------------------------
LEMMA OtaStep == OtaInv /\ [OtaNext]_otaVars => OtaInv'
<1> SUFFICES ASSUME OtaInv, [OtaNext]_otaVars PROVE OtaInv'
  OBVIOUS
<1>1. CASE UNCHANGED otaVars
  BY <1>1 DEF otaVars, history, OtaInv, OtaTypeOK
<1>2. ASSUME NEW v \in Versions, Receive(v) PROVE OtaInv'
  BY <1>2, ReceiveKeeps
<1>3. CASE Apply
  BY <1>3, ApplyKeeps
<1>4. ASSUME NEW scope \in {"img", "man", "all"}, Clear(scope) PROVE OtaInv'
  BY <1>4, ClearKeeps
<1>5. CASE OtaRestart \/ Rollback
  BY <1>5, RestartKeeps, RollbackKeeps
<1>6. CASE StorageStep
  <2>1. CASE Removes BY <2>1, RemovesKeeps
  <2>2. CASE Promotes BY <2>2, PromotesKeeps
  <2>3. CASE WritesManifest BY <2>3, WritesManifestKeeps
  <2>4. CASE Erases BY <2>4, ErasesKeeps
  <2>5. CASE Flashes BY <2>5, FlashesKeeps
  <2>6. CASE FlashesAndRestarts BY <2>6, FlashesAndRestartsKeeps
  <2>7. CASE TruncatesRecord BY <2>7, TruncatesRecordKeeps
  <2>8. CASE WritesRecord BY <2>8, WritesRecordKeeps
  <2>9. CASE Loads BY <2>9, LoadsKeeps
  <2>10. CASE Confirms BY <2>10, ConfirmsKeeps
  <2> QED BY <1>6, <2>1, <2>2, <2>3, <2>4, <2>5, <2>6, <2>7, <2>8, <2>9, <2>10 DEF StorageStep
<1>7. CASE Fails
  BY <1>7, FailsKeeps
<1>8. ASSUME NEW id \in EventIds, Publish(id) PROVE OtaInv'
  BY <1>8, PublishKeeps
<1>9. CASE NoticeTick
  BY <1>9, NoticeTickKeeps
<1>10. CASE SendOk
  BY <1>10, SendOkKeeps
<1>11. CASE Pops
  BY <1>11, PopsKeeps
<1>12. CASE SendRefused
  BY <1>12, SendRefusedKeeps
<1> QED BY <1>1, <1>2, <1>3, <1>4, <1>5, <1>6, <1>7, <1>8, <1>9, <1>10, <1>11, <1>12 DEF OtaNext

(* OtaInv holds along every run of the update: what the remaining steps of  *)
(* the handler save and confirm agrees with the images, the record, the     *)
(* queue of events and the notices the radio took.                          *)
THEOREM OtaInvariant == OtaSpec => []OtaInv
BY OtaStarts, OtaStep, PTL DEF OtaSpec

(* The flash of a slave, the record and the queue of events stay well       *)
(* formed: the queue within mandatory_event_max_queue, the storage steps of *)
(* a handler a list of the steps it has.                                    *)
THEOREM OtaTypeCorrect == OtaSpec => []OtaTypeOK
<1>1. OtaInv => OtaTypeOK
  BY DEF OtaInv
<1> QED BY <1>1, OtaInvariant, PTL

(* markBootSuccessful confirms the image that applyOtaImage wrote, whatever *)
(* the faults, power cuts, rollbacks and further updates in between, unless *)
(* the device booted another image meanwhile and no gate looked.            *)
THEOREM ConfirmsWhatWasApplied == OtaSpec => []ConfirmedIsApplied
<1>1. OtaInv => ConfirmedIsApplied
  BY DEF OtaInv, Sound, ConfirmedIsApplied
<1> QED BY <1>1, OtaInvariant, PTL

(* A device that runs an update has a record of it, and the boot-complete   *)
(* notice of tickOtaBootCompletionNotice goes out exactly once per          *)
(* confirmation, unless a save of the record was cut short.                 *)
THEOREM UpdatesAreTold == OtaSpec => []UpdateIsTold
<1>1. OtaInv => UpdateIsTold
  <2> SUFFICES ASSUME OtaInv PROVE UpdateIsTold
    OBVIOUS
  <2>1. OtaIdle /\ apps.run # 1 /\ ~eroded => disk.rec.state # "none"
    BY IdleAgenda DEF OtaInv, Recorded, Updated
  <2>2. disk.rec.state = "boot_ok" /\ ~disk.rec.report => told >= 1
    BY DEF OtaInv, TellsOnce
  <2>3. disk.rec.state = "boot_ok" /\ ~eroded => told <= 1
    BY DEF OtaInv, TellsOnce, OtaTypeOK
  <2> QED BY <2>1, <2>2, <2>3 DEF UpdateIsTold
<1> QED BY <1>1, OtaInvariant, PTL
=============================================================================
