---------------------------- MODULE BesitzbuchProofs ----------------------------
(* Possession and money in the city: the cache shows the database, an       *)
(* estate is in one piece, with one owner and one list of builders, what was *)
(* paid was granted and pays for what is held, and no builder loses his      *)
(* right; for any plots, players, estates, prices and faults.                *)
EXTENDS Besitzbuch, FiniteSetTheorems, TLAPS

Kinds == {"keine", "anlegen", "gruppe", "erstatten"}

RowTypes ==
  /\ parzelle \in [Plots -> Parzelle]
  /\ mitbauer \in [Estates -> SUBSET Players]
  /\ cache \in [Plots -> Parzelle \cup {None}]
  /\ answered \in BOOLEAN

\* The command under way; of what it pays nothing is said.
TatTypes ==
  /\ tat = [stufe |-> tat.stufe, wer |-> tat.wer, betrag |-> tat.betrag, felder |-> tat.felder,
            elternId |-> tat.elternId, mitbauer |-> tat.mitbauer]
  /\ tat.stufe \in Kinds /\ tat.wer \in Players \cup {None} /\ tat.felder \subseteq Plots
  /\ tat.elternId \in Estates \cup {None} /\ tat.mitbauer \subseteq Players
  /\ tat.stufe \in {"anlegen", "gruppe"} => tat.wer \in Players

\* What zusammenlegen decided from the cache still fits the rows when it writes.
JoinFits ==
  tat.stufe = "gruppe" =>
    /\ \A h \in tat.felder : parzelle[h].mitbauer \subseteq tat.mitbauer
    /\ tat.elternId # None => \A h \in KinderVon(tat.elternId) :
                                 parzelle[h].eigentuemer = tat.wer /\ parzelle[h].mitbauer \subseteq tat.mitbauer

BesitzInv == RowTypes /\ TatTypes /\ JoinFits /\ EstatesUniform /\ CacheIsTrue
-----------------------------------------------------------------------------
LEMMA NoneFacts == None \notin Players /\ None \notin Estates /\ Neighbours \subseteq Plots \X Plots
  BY BesitzAssumption

LEMMA ParzelleFacts ==
  /\ Free \in Parzelle /\ Free.eigentuemer = None /\ Free.elternId = None /\ Free.mitbauer = {}
  /\ \A z \in Parzelle : /\ z.eigentuemer \in Players \cup {None} /\ z.mitbauer \subseteq Players
                         /\ z.elternId \in Estates \cup {None}
  BY DEF Free, Parzelle

\* A row of which one column is written anew.
LEMMA ColumnFacts ==
  ASSUME NEW z \in Parzelle
  PROVE  /\ \A q \in Players \cup {None} :
              LET n == [z EXCEPT !.eigentuemer = q]
              IN  n \in Parzelle /\ n.eigentuemer = q /\ n.mitbauer = z.mitbauer /\ n.elternId = z.elternId
         /\ \A l \in SUBSET Players :
              LET n == [z EXCEPT !.mitbauer = l]
              IN  n \in Parzelle /\ n.eigentuemer = z.eigentuemer /\ n.mitbauer = l /\ n.elternId = z.elternId
         /\ \A e \in Estates \cup {None} :
              LET n == [z EXCEPT !.elternId = e]
              IN  n \in Parzelle /\ n.eigentuemer = z.eigentuemer /\ n.mitbauer = z.mitbauer /\ n.elternId = e
  BY DEF Parzelle

\* While every answer has arrived, what is looked up is what is written.
LEMMA FindeFacts ==
  ASSUME BesitzInv, answered, NEW f \in Plots
  PROVE  Finde(f) = parzelle[f] /\ parzelle[f] \in Parzelle
  BY DEF BesitzInv, RowTypes, CacheIsTrue, Finde

LEMMA InitInv == Init => BesitzInv
  <1> SUFFICES ASSUME Init PROVE BesitzInv
    OBVIOUS
  <1>1. RowTypes /\ CacheIsTrue
    BY ParzelleFacts DEF Init, Nothing, RowTypes, CacheIsTrue
  <1>2. TatTypes /\ JoinFits
    BY DEF Init, KeineTat, TatTypes, Kinds, JoinFits
  <1>3. \A f \in Plots : parzelle[f].elternId = None
    BY ParzelleFacts DEF Init
  <1>4. EstatesUniform
    BY <1>3, NoneFacts DEF EstatesUniform, KinderVon
  <1> QED
    BY <1>1, <1>2, <1>4 DEF BesitzInv

\* What a write leaves in the cache is true.
LEMMA WrittenCache ==
  ASSUME RowTypes, Written
  PROVE  /\ cache' \in [Plots -> Parzelle \cup {None}] /\ answered' \in BOOLEAN
         /\ answered' => \A f \in Plots : cache'[f] = None
  BY DEF RowTypes, Written, Leeren, Nothing, Unanswered
-----------------------------------------------------------------------------
(* What a write does to the owners and the estates of the cells            *)

OwnersStay  == \A h \in Plots : parzelle'[h].eigentuemer = parzelle[h].eigentuemer
EstatesStay == \A h \in Plots : parzelle'[h].elternId = parzelle[h].elternId

\* The estate is parted, one cell leaves it, or cells join it.
EstateGoes(e) ==
  \A h \in Plots : parzelle'[h].elternId = IF parzelle[h].elternId = e THEN None ELSE parzelle[h].elternId
CellLeaves(f) ==
  \A h \in Plots : parzelle'[h].elternId = IF h = f THEN None ELSE parzelle[h].elternId
CellsJoin(felder, e) ==
  \A h \in Plots : parzelle'[h].elternId = IF h \in felder THEN e ELSE parzelle[h].elternId
-----------------------------------------------------------------------------
(* Steps that write no row                                                  *)

\* The cache takes up what a look finds, or forgets.
LEMMA LookKeeps ==
  ASSUME BesitzInv, UNCHANGED rows, TatTypes', JoinFits', answered' \in BOOLEAN, answered' => answered,
         cache' \in [Plots -> Parzelle \cup {None}],
         answered => \A f \in Plots : cache'[f] \in {None, parzelle[f]}
  PROVE  BesitzInv'
  BY DEF BesitzInv, rows, RowTypes, EstatesUniform, KinderVon, CacheIsTrue

LEMMA FilledCache ==
  ASSUME BesitzInv, answered, NEW f \in Plots, NEW g \in Plots,
         \/ cache' = [cache EXCEPT ![f] = Finde(f)] \/ cache' = [cache EXCEPT ![f] = Finde(f), ![g] = Finde(g)]
  PROVE  /\ cache' \in [Plots -> Parzelle \cup {None}]
         /\ \A h \in Plots : cache'[h] \in {None, parzelle[h]}
  BY FindeFacts DEF BesitzInv, RowTypes, CacheIsTrue

LEMMA LooksInv ==
  ASSUME BesitzInv, NEW f \in Plots, Nachsehen(f) \/ Verfall(f)
  PROVE  BesitzInv'
  <1>1. CASE Nachsehen(f)
    <2>1. answered /\ cache' = [cache EXCEPT ![f] = Finde(f)] /\ UNCHANGED <<rows, tat, answered>>
      BY <1>1 DEF Nachsehen, Ready, ghost
    <2>2. /\ cache' \in [Plots -> Parzelle \cup {None}]
          /\ \A h \in Plots : cache'[h] \in {None, parzelle[h]}
      BY <2>1, FilledCache
    <2>3. TatTypes' /\ JoinFits'
      BY <2>1 DEF BesitzInv, rows, TatTypes, JoinFits, KinderVon
    <2> QED
      BY <2>1, <2>2, <2>3, LookKeeps
  <1>2. CASE Verfall(f)
    <2>1. cache' = [cache EXCEPT ![f] = None] /\ UNCHANGED <<rows, tat, answered>>
      BY <1>2 DEF Verfall, ghost
    <2>2. /\ cache' \in [Plots -> Parzelle \cup {None}]
          /\ answered => \A h \in Plots : cache'[h] \in {None, parzelle[h]}
      BY <2>1 DEF BesitzInv, RowTypes, CacheIsTrue
    <2>3. TatTypes' /\ JoinFits' /\ answered' \in BOOLEAN
      BY <2>1 DEF BesitzInv, RowTypes, rows, TatTypes, JoinFits, KinderVon
    <2> QED
      BY <2>1, <2>2, <2>3, LookKeeps
  <1> QED
    BY <1>1, <1>2

\* The command under way ends, or goes on to its refund.
LEMMA LeavesInv ==
  ASSUME BesitzInv, UNCHANGED rows, answered' \in BOOLEAN, answered' => answered,
         tat' = KeineTat \/ tat' = [tat EXCEPT !.stufe = "erstatten"],
         cache' = cache \/ cache' = Nothing
  PROVE  BesitzInv'
  <1>1. TatTypes' /\ JoinFits'
    <2>1. CASE tat' = KeineTat
      BY <2>1 DEF KeineTat, TatTypes, JoinFits, Kinds
    <2>2. CASE tat' = [tat EXCEPT !.stufe = "erstatten"]
      <3>1. tat' = [stufe |-> "erstatten", wer |-> tat.wer, betrag |-> tat.betrag, felder |-> tat.felder,
                    elternId |-> tat.elternId, mitbauer |-> tat.mitbauer]
        BY <2>2 DEF BesitzInv, TatTypes
      <3> QED
        BY <3>1 DEF BesitzInv, TatTypes, JoinFits, Kinds
    <2> QED
      BY <2>1, <2>2
  <1>2. /\ cache' \in [Plots -> Parzelle \cup {None}]
        /\ answered => \A f \in Plots : cache'[f] \in {None, parzelle[f]}
    BY DEF BesitzInv, RowTypes, CacheIsTrue, Nothing
  <1> QED
    BY <1>1, <1>2, LookKeeps
-----------------------------------------------------------------------------
(* Paid commands: the debit                                                 *)

LEMMA NehmenInv ==
  ASSUME BesitzInv, NEW p \in Players, NEW f \in Plots, Nehmen(p, f)
  PROVE  BesitzInv'
  <1> DEFINE preis == PreisFuerNaechste(AnzahlVon(p))
  <1>1. /\ answered /\ tat = KeineTat /\ cache' = [cache EXCEPT ![f] = Finde(f)] /\ UNCHANGED rows
        /\ Bezahlt([KeineTat EXCEPT !.stufe = "anlegen", !.wer = p, !.betrag = preis, !.felder = {f}])
    BY DEF Nehmen, Ready
  <1> HIDE DEF preis
  <1>2. [KeineTat EXCEPT !.stufe = "anlegen", !.wer = p, !.betrag = preis, !.felder = {f}]
        = [stufe |-> "anlegen", wer |-> p, betrag |-> preis, felder |-> {f}, elternId |-> None, mitbauer |-> {}]
    <2>1. KeineTat = [stufe |-> "keine", wer |-> None, betrag |-> 0, felder |-> {}, elternId |-> None,
                      mitbauer |-> {}]
      BY DEF KeineTat
    <2>2. ASSUME NEW t, t = [stufe |-> "keine", wer |-> None, betrag |-> 0, felder |-> {}, elternId |-> None,
                             mitbauer |-> {}]
          PROVE  [t EXCEPT !.stufe = "anlegen", !.wer = p, !.betrag = preis, !.felder = {f}]
                 = [stufe |-> "anlegen", wer |-> p, betrag |-> preis, felder |-> {f}, elternId |-> None,
                    mitbauer |-> {}]
      <3>1. [t EXCEPT !.stufe = "anlegen"] = [stufe |-> "anlegen", wer |-> None, betrag |-> 0, felder |-> {}, elternId |-> None, mitbauer |-> {}]
        BY <2>2
      <3>2. ASSUME NEW u, u = [stufe |-> "anlegen", wer |-> None, betrag |-> 0, felder |-> {}, elternId |-> None, mitbauer |-> {}] PROVE [u EXCEPT !.wer = p] = [stufe |-> "anlegen", wer |-> p, betrag |-> 0, felder |-> {}, elternId |-> None, mitbauer |-> {}]
        BY <3>2
      <3>3. ASSUME NEW u, u = [stufe |-> "anlegen", wer |-> p, betrag |-> 0, felder |-> {}, elternId |-> None, mitbauer |-> {}] PROVE [u EXCEPT !.betrag = preis] = [stufe |-> "anlegen", wer |-> p, betrag |-> preis, felder |-> {}, elternId |-> None, mitbauer |-> {}]
        BY <3>3
      <3>4. ASSUME NEW u, u = [stufe |-> "anlegen", wer |-> p, betrag |-> preis, felder |-> {}, elternId |-> None, mitbauer |-> {}] PROVE [u EXCEPT !.felder = {f}] = [stufe |-> "anlegen", wer |-> p, betrag |-> preis, felder |-> {f}, elternId |-> None, mitbauer |-> {}]
        BY <3>4
      <3> QED
        BY <3>1, <3>2, <3>3, <3>4, Zenon
    <2> QED
      BY <2>1, <2>2
  <1>3. answered' \in BOOLEAN
    BY <1>1 DEF Bezahlt, Unanswered
  <1>4. TatTypes' /\ JoinFits'
    <2>1. CASE tat' = tat
      BY <1>1, <2>1 DEF KeineTat, TatTypes, JoinFits, Kinds
    <2>2. CASE tat' = [stufe |-> "anlegen", wer |-> p, betrag |-> preis, felder |-> {f}, elternId |-> None,
                       mitbauer |-> {}]
      BY <2>2 DEF TatTypes, JoinFits, Kinds
    <2> QED
      BY <1>1, <1>2, <2>1, <2>2 DEF Bezahlt
  <1> QED
    BY <1>1, <1>3, <1>4, FilledCache, LookKeeps

\* zusammenlegen: the estate it goes to is his, and the new list holds the builders of both.
LEMMA ZusammenlegenInv ==
  ASSUME BesitzInv, NEW p \in Players, NEW f \in Plots, NEW g \in Plots, Zusammenlegen(p, f, g)
  PROVE  BesitzInv'
  <1> DEFINE b == Beitritt(f, g)
             m == Vereinigt(Finde(f), Finde(g))
             gebuehr == ZusammenlegungsGebuehr(Nachher(b))
             neu == [stufe |-> "gruppe", wer |-> p, betrag |-> gebuehr, felder |-> b.felder,
                     elternId |-> b.elternId, mitbauer |-> m]
  <1>1. /\ answered /\ tat = KeineTat /\ UNCHANGED rows
        /\ cache' = [cache EXCEPT ![f] = Finde(f), ![g] = Finde(g)]
        /\ Finde(f).eigentuemer = p /\ Finde(g).eigentuemer = p
        /\ ~(Finde(f).elternId # None /\ Finde(g).elternId # None)
        /\ Bezahlt(neu)
    BY DEF Zusammenlegen, OwnersCommand, Ready
  <1>2. /\ Finde(f) = parzelle[f] /\ Finde(g) = parzelle[g]
        /\ parzelle[f] \in Parzelle /\ parzelle[g] \in Parzelle
    BY <1>1, FindeFacts
  <1>3. m = parzelle[f].mitbauer \cup parzelle[g].mitbauer /\ m \subseteq Players
    BY <1>2, ParzelleFacts DEF Vereinigt
  \* Which estate, which cells: the three cases of Beitritt.
  <1>4. /\ b.felder \subseteq {f, g} /\ b.elternId \in Estates \cup {None}
        /\ b.elternId # None => b.elternId \in {parzelle[f].elternId, parzelle[g].elternId}
    <2>1. CASE parzelle[f].elternId # None
      BY <1>2, <2>1, ParzelleFacts DEF Beitritt
    <2>2. CASE parzelle[f].elternId = None /\ parzelle[g].elternId # None
      BY <1>2, <2>2, ParzelleFacts DEF Beitritt
    <2>3. CASE parzelle[f].elternId = None /\ parzelle[g].elternId = None
      BY <1>2, <2>3 DEF Beitritt
    <2> QED
      BY <2>1, <2>2, <2>3
  <1> HIDE DEF b, m, gebuehr
  <1>5. ASSUME b.elternId # None, NEW h \in KinderVon(b.elternId)
        PROVE  parzelle[h].eigentuemer = p /\ parzelle[h].mitbauer \subseteq m
    <2>1. PICK k \in {f, g} : parzelle[k].elternId = b.elternId
      BY <1>4, <1>5
    <2>2. k \in KinderVon(b.elternId) /\ b.elternId \in Estates
      BY <1>4, <1>5, <2>1 DEF KinderVon
    <2>3. /\ parzelle[h].eigentuemer = parzelle[k].eigentuemer
          /\ parzelle[h].mitbauer = mitbauer[b.elternId] /\ parzelle[k].mitbauer = mitbauer[b.elternId]
      BY <1>5, <2>2 DEF BesitzInv, EstatesUniform
    <2>4. parzelle[k].eigentuemer = p /\ parzelle[k].mitbauer \subseteq m
      BY <1>1, <1>2, <1>3, <2>1
    <2> QED
      BY <2>3, <2>4
  <1>6. answered' \in BOOLEAN
    BY <1>1 DEF Bezahlt, Unanswered
  <1>7. TatTypes' /\ JoinFits'
    <2>1. CASE tat' = tat
      BY <1>1, <2>1 DEF KeineTat, TatTypes, JoinFits, Kinds
    <2>2. CASE tat' = neu
      <3>1. TatTypes'
        BY <1>3, <1>4, <2>2 DEF TatTypes, Kinds
      <3>2. \A h \in b.felder : parzelle[h].mitbauer \subseteq m
        BY <1>3, <1>4
      <3>3. JoinFits'
        BY <1>1, <1>5, <2>2, <3>2 DEF JoinFits, KinderVon, rows
      <3> QED
        BY <3>1, <3>3
    <2> QED
      BY <1>1, <2>1, <2>2 DEF Bezahlt
  <1> QED
    BY <1>1, <1>6, <1>7, FilledCache, LookKeeps
-----------------------------------------------------------------------------
(* Steps that write rows                                                    *)

\* Rows that are typed and uniform after a write make the invariant.
LEMMA WriteKeeps ==
  ASSUME BesitzInv, Written, parzelle' \in [Plots -> Parzelle], mitbauer' \in [Estates -> SUBSET Players],
         EstatesUniform', TatTypes', tat'.stufe # "gruppe"
  PROVE  BesitzInv'
  BY WrittenCache DEF BesitzInv, RowTypes, CacheIsTrue, JoinFits

LEMMA ErteiltTat ==
  ASSUME BesitzInv, Erteilt
  PROVE  TatTypes' /\ tat'.stufe # "gruppe" /\ Written
  <1>1. CASE tat' = KeineTat
    BY <1>1 DEF Erteilt, KeineTat, TatTypes, Kinds
  <1>2. CASE tat' = [tat EXCEPT !.stufe = "erstatten"]
    <2>1. tat' = [stufe |-> "erstatten", wer |-> tat.wer, betrag |-> tat.betrag, felder |-> tat.felder,
                  elternId |-> tat.elternId, mitbauer |-> tat.mitbauer]
      BY <1>2 DEF BesitzInv, TatTypes
    <2> QED
      BY <2>1 DEF Erteilt, BesitzInv, TatTypes, Kinds
  <1> QED
    BY <1>1, <1>2 DEF Erteilt

LEMMA AnlegenInv ==
  ASSUME BesitzInv, Anlegen
  PROVE  /\ BesitzInv'
         /\ \A f \in Plots : parzelle[f].mitbauer \subseteq parzelle'[f].mitbauer
         /\ EstatesStay
         /\ \A h \in Plots : parzelle'[h].eigentuemer = IF h \in tat.felder THEN tat.wer ELSE parzelle[h].eigentuemer
  <1> DEFINE neu == [Free EXCEPT !.eigentuemer = tat.wer]
  <1>1. /\ tat.stufe = "anlegen" /\ \A f \in tat.felder : parzelle[f] = Free
        /\ parzelle' = [f \in Plots |-> IF f \in tat.felder THEN neu ELSE parzelle[f]]
        /\ mitbauer' = mitbauer /\ Erteilt
    BY DEF Anlegen
  <1>2. neu \in Parzelle /\ neu.elternId = None /\ neu.mitbauer = {} /\ neu.eigentuemer = tat.wer
    BY <1>1, ParzelleFacts, ColumnFacts DEF BesitzInv, TatTypes
  <1> HIDE DEF neu
  <1>3. parzelle' \in [Plots -> Parzelle] /\ mitbauer' \in [Estates -> SUBSET Players]
    BY <1>1, <1>2 DEF BesitzInv, RowTypes
  <1>4. \A f \in Plots : parzelle'[f] = parzelle[f] \/ (parzelle[f] = Free /\ parzelle'[f] = neu)
    BY <1>1
  <1>5. EstatesUniform'
    BY <1>1, <1>2, <1>4, NoneFacts DEF BesitzInv, EstatesUniform, KinderVon
  <1>6. \A f \in Plots : parzelle[f].mitbauer \subseteq parzelle'[f].mitbauer
    BY <1>2, <1>4, ParzelleFacts
  <1>7. EstatesStay
    BY <1>2, <1>4, ParzelleFacts DEF EstatesStay
  <1>8. \A h \in Plots : parzelle'[h].eigentuemer = IF h \in tat.felder THEN tat.wer ELSE parzelle[h].eigentuemer
    BY <1>1, <1>2
  <1> QED
    BY <1>1, <1>3, <1>5, <1>6, <1>7, <1>8, ErteiltTat, WriteKeeps

LEMMA GruppeInv ==
  ASSUME BesitzInv, GruppeSetzen
  PROVE  /\ BesitzInv'
         /\ \A f \in Plots : parzelle[f].mitbauer \subseteq parzelle'[f].mitbauer
         /\ OwnersStay
         /\ \E e \in Estates : /\ IF tat.elternId = None THEN KinderVon(e) = {} ELSE e = tat.elternId
                              /\ CellsJoin(tat.felder, e)
  <1>1. PICK e \in Estates :
          /\ IF tat.elternId = None THEN KinderVon(e) = {} ELSE e = tat.elternId
          /\ mitbauer' = [mitbauer EXCEPT ![e] = tat.mitbauer]
          /\ parzelle' = Durchgeschrieben(
               [f \in Plots |-> IF f \in tat.felder THEN [parzelle[f] EXCEPT !.elternId = e]
                                ELSE parzelle[f]], e, tat.mitbauer)
    BY DEF GruppeSetzen
  <1>2. /\ tat.stufe = "gruppe" /\ Erteilt /\ tat.wer \in Players /\ tat.mitbauer \subseteq Players
        /\ \A f \in tat.felder : parzelle[f].eigentuemer = tat.wer /\ parzelle[f].elternId = None
        /\ \A h \in tat.felder : parzelle[h].mitbauer \subseteq tat.mitbauer
    BY DEF GruppeSetzen, BesitzInv, TatTypes, JoinFits
  <1>3. \A h \in KinderVon(e) : parzelle[h].eigentuemer = tat.wer /\ parzelle[h].mitbauer \subseteq tat.mitbauer
    BY <1>1, <1>2 DEF BesitzInv, JoinFits
  \* A cell is one of those that join, one of the estate, or left alone.
  <1>4. ASSUME NEW h \in Plots
        PROVE  /\ parzelle'[h] \in Parzelle /\ parzelle'[h].eigentuemer = parzelle[h].eigentuemer
               /\ h \in tat.felder \cup KinderVon(e) =>
                    parzelle'[h].elternId = e /\ parzelle'[h].mitbauer = tat.mitbauer
               /\ h \notin tat.felder \cup KinderVon(e) => parzelle'[h] = parzelle[h]
    <2> DEFINE z == IF h \in tat.felder THEN [parzelle[h] EXCEPT !.elternId = e] ELSE parzelle[h]
    <2>1. parzelle'[h] = IF z.elternId = e THEN [z EXCEPT !.mitbauer = tat.mitbauer] ELSE z
      BY <1>1 DEF Durchgeschrieben
    <2>2. /\ z \in Parzelle /\ z.eigentuemer = parzelle[h].eigentuemer
          /\ h \in tat.felder => z.elternId = e
          /\ h \notin tat.felder => z = parzelle[h]
      BY ColumnFacts DEF BesitzInv, RowTypes
    <2> HIDE DEF z
    <2>3. LET n == [z EXCEPT !.mitbauer = tat.mitbauer]
          IN  n \in Parzelle /\ n.eigentuemer = z.eigentuemer /\ n.mitbauer = tat.mitbauer /\ n.elternId = z.elternId
      BY <1>2, <2>2, ColumnFacts
    <2>4. h \in KinderVon(e) <=> parzelle[h].elternId = e
      BY DEF KinderVon
    <2> QED
      BY <2>1, <2>2, <2>3, <2>4
  <1>5. parzelle' \in [Plots -> Parzelle] /\ mitbauer' \in [Estates -> SUBSET Players]
    <2>1. DOMAIN parzelle' = Plots /\ parzelle' = [f \in Plots |-> parzelle'[f]]
      BY <1>1 DEF Durchgeschrieben
    <2> QED
      BY <1>1, <1>2, <1>4, <2>1 DEF BesitzInv, RowTypes
  <1>6. \A f \in Plots : parzelle[f].mitbauer \subseteq parzelle'[f].mitbauer
    BY <1>2, <1>3, <1>4
  <1>7. EstatesUniform'
    <2> SUFFICES ASSUME NEW d \in Estates, NEW h \in Plots, NEW k \in Plots,
                        parzelle'[h].elternId = d, parzelle'[k].elternId = d
                 PROVE  /\ parzelle'[h].eigentuemer = parzelle'[k].eigentuemer /\ parzelle'[h].eigentuemer # None
                        /\ parzelle'[h].mitbauer = mitbauer'[d]
      BY DEF EstatesUniform, KinderVon
    <2>1. CASE d = e
      <3>1. \A i \in {h, k} : i \in tat.felder \cup KinderVon(e)
        BY <1>4, <2>1 DEF KinderVon
      <3>2. \A i \in {h, k} : parzelle'[i].eigentuemer = tat.wer /\ parzelle'[i].mitbauer = tat.mitbauer
        BY <1>2, <1>3, <1>4, <3>1
      <3> QED
        BY <1>1, <1>2, <2>1, <3>2, NoneFacts DEF BesitzInv, RowTypes
    <2>2. CASE d # e
      <3>1. \A i \in {h, k} : parzelle'[i] = parzelle[i]
        BY <1>4, <2>2
      <3>2. mitbauer'[d] = mitbauer[d]
        BY <1>1, <2>2 DEF BesitzInv, RowTypes
      <3> QED
        BY <3>1, <3>2 DEF BesitzInv, EstatesUniform, KinderVon
    <2> QED
      BY <2>1, <2>2
  <1>8. OwnersStay /\ CellsJoin(tat.felder, e)
    BY <1>4 DEF OwnersStay, CellsJoin, KinderVon
  <1> QED
    BY <1>1, <1>2, <1>5, <1>6, <1>7, <1>8, ErteiltTat, WriteKeeps

\* Commands that cost nothing leave the one under way alone: there is none.
LEMMA FreeCommands ==
  ASSUME BesitzInv, Ready, Schreibt, parzelle' \in [Plots -> Parzelle], mitbauer' \in [Estates -> SUBSET Players],
         EstatesUniform'
  PROVE  BesitzInv'
  <1>1. tat' = KeineTat /\ Written
    BY DEF Ready, Schreibt
  <1>2. TatTypes' /\ tat'.stufe # "gruppe"
    BY <1>1 DEF KeineTat, TatTypes, Kinds
  <1> QED
    BY <1>1, <1>2, WriteKeeps

LEMMA LoeseFacts ==
  ASSUME BesitzInv, NEW e \in Estates, Loese(e)
  PROVE  /\ parzelle' \in [Plots -> Parzelle] /\ mitbauer' \in [Estates -> SUBSET Players] /\ EstatesUniform'
         /\ \A h \in Plots : parzelle'[h].mitbauer = parzelle[h].mitbauer
         /\ OwnersStay /\ EstateGoes(e)
  <1>1. /\ parzelle' = [f \in Plots |-> IF parzelle[f].elternId = e THEN [parzelle[f] EXCEPT !.elternId = None]
                                        ELSE parzelle[f]]
        /\ mitbauer' = [mitbauer EXCEPT ![e] = {}]
    BY DEF Loese
  <1>2. ASSUME NEW h \in Plots
        PROVE  /\ parzelle'[h] \in Parzelle /\ parzelle'[h].mitbauer = parzelle[h].mitbauer
               /\ parzelle'[h] = parzelle[h] \/ parzelle'[h].elternId = None
               /\ parzelle'[h].elternId # e /\ parzelle'[h].eigentuemer = parzelle[h].eigentuemer
               /\ parzelle'[h].elternId = IF parzelle[h].elternId = e THEN None ELSE parzelle[h].elternId
    BY <1>1, ColumnFacts, NoneFacts DEF BesitzInv, RowTypes
  <1>3. parzelle' \in [Plots -> Parzelle] /\ mitbauer' \in [Estates -> SUBSET Players]
    BY <1>1, <1>2 DEF BesitzInv, RowTypes
  <1>4. EstatesUniform'
    <2> SUFFICES ASSUME NEW d \in Estates, NEW h \in Plots, NEW k \in Plots,
                        parzelle'[h].elternId = d, parzelle'[k].elternId = d
                 PROVE  /\ parzelle'[h].eigentuemer = parzelle'[k].eigentuemer /\ parzelle'[h].eigentuemer # None
                        /\ parzelle'[h].mitbauer = mitbauer'[d]
      BY DEF EstatesUniform, KinderVon
    <2>1. d # e /\ d # None /\ mitbauer'[d] = mitbauer[d]
      BY <1>1, <1>2, NoneFacts DEF BesitzInv, RowTypes
    <2>2. parzelle'[h] = parzelle[h] /\ parzelle'[k] = parzelle[k]
      BY <1>2, <2>1
    <2> QED
      BY <2>1, <2>2 DEF BesitzInv, EstatesUniform, KinderVon
  <1> QED
    BY <1>2, <1>3, <1>4 DEF OwnersStay, EstateGoes

\* One cell is written that afterwards is in no estate.
LEMMA LooseCell ==
  ASSUME BesitzInv, NEW f \in Plots, NEW z \in Parzelle, z.elternId = None,
         parzelle' = [parzelle EXCEPT ![f] = z], mitbauer' = mitbauer
  PROVE  parzelle' \in [Plots -> Parzelle] /\ mitbauer' \in [Estates -> SUBSET Players] /\ EstatesUniform'
  <1>1. \A h \in Plots : h # f => parzelle'[h] = parzelle[h]
    BY DEF BesitzInv, RowTypes
  <1>2. parzelle'[f] = z
    BY DEF BesitzInv, RowTypes
  <1>3. EstatesUniform'
    BY <1>1, <1>2, NoneFacts DEF BesitzInv, EstatesUniform, KinderVon
  <1> QED
    BY <1>3 DEF BesitzInv, RowTypes

LEMMA AuftrennenInv ==
  ASSUME BesitzInv, NEW p \in Players, NEW f \in Plots, Auftrennen(p, f)
  PROVE  /\ BesitzInv' /\ \A h \in Plots : parzelle'[h].mitbauer = parzelle[h].mitbauer
         /\ OwnersStay /\ \E e \in Estates : EstateGoes(e)
  <1>1. Ready /\ answered /\ Schreibt /\ Loese(Finde(f).elternId) /\ Finde(f).elternId # None
    BY DEF Auftrennen, OwnersCommand, Ready
  <1>2. Finde(f).elternId \in Estates
    BY <1>1, FindeFacts, ParzelleFacts
  <1> QED
    BY <1>1, <1>2, LoeseFacts, FreeCommands

LEMMA HerausloesenInv ==
  ASSUME BesitzInv, NEW p \in Players, NEW f \in Plots, Herausloesen(p, f)
  PROVE  /\ BesitzInv' /\ \A h \in Plots : parzelle'[h].mitbauer = parzelle[h].mitbauer
         /\ OwnersStay
         /\ \/ \E e \in Estates : EstateGoes(e)
            \/ /\ CellLeaves(f) /\ parzelle[f].elternId \in Estates
               /\ Cardinality(KinderVon(parzelle[f].elternId)) > 2
               /\ HaengtZusammen(KinderVon(parzelle[f].elternId) \ {f})
  <1>1. /\ Ready /\ answered /\ Schreibt /\ Finde(f).elternId # None
        /\ \/ /\ parzelle' = [parzelle EXCEPT ![f].elternId = None] /\ UNCHANGED mitbauer
              /\ Cardinality(KinderVon(Finde(f).elternId)) > 2
              /\ HaengtZusammen(KinderVon(Finde(f).elternId) \ {f})
           \/ Loese(Finde(f).elternId)
    BY DEF Herausloesen, OwnersCommand, Ready, LoestEinzeln, BleibtGanzOhne
  <1>2. Finde(f).elternId \in Estates
    BY <1>1, FindeFacts, ParzelleFacts
  <1>3. CASE Loese(Finde(f).elternId)
    BY <1>1, <1>2, <1>3, LoeseFacts, FreeCommands
  <1>4. CASE /\ parzelle' = [parzelle EXCEPT ![f].elternId = None] /\ UNCHANGED mitbauer
             /\ Cardinality(KinderVon(Finde(f).elternId)) > 2
             /\ HaengtZusammen(KinderVon(Finde(f).elternId) \ {f})
    <2> DEFINE z == [parzelle[f] EXCEPT !.elternId = None]
    <2>1. /\ z \in Parzelle /\ z.elternId = None /\ z.mitbauer = parzelle[f].mitbauer
          /\ z.eigentuemer = parzelle[f].eigentuemer
      <3>1. parzelle[f] \in Parzelle
        BY DEF BesitzInv, RowTypes
      <3> QED
        BY <3>1, ColumnFacts
    <2>2. parzelle' = [parzelle EXCEPT ![f] = z] /\ mitbauer' = mitbauer
      BY <1>4
    <2> HIDE DEF z
    <2>3. BesitzInv'
      BY <1>1, <2>1, <2>2, LooseCell, FreeCommands
    <2>4. ASSUME NEW h \in Plots
          PROVE  /\ parzelle'[h].mitbauer = parzelle[h].mitbauer /\ parzelle'[h].eigentuemer = parzelle[h].eigentuemer
                 /\ parzelle'[h].elternId = IF h = f THEN None ELSE parzelle[h].elternId
      BY <2>1, <2>2 DEF BesitzInv, RowTypes
    <2>5. Finde(f) = parzelle[f]
      BY <1>1, FindeFacts
    <2> QED
      BY <1>2, <1>4, <2>3, <2>4, <2>5 DEF OwnersStay, CellLeaves
  <1> QED
    BY <1>1, <1>3, <1>4, Zenon

LEMMA AufgebenInv ==
  ASSUME BesitzInv, NEW p \in Players, NEW f \in Plots, Aufgeben(p, f)
  PROVE  /\ BesitzInv' /\ \A h \in Plots : parzelle'[h] = parzelle[h] \/ parzelle'[h] = Free
         /\ EstatesStay
  <1>1. /\ Ready /\ answered /\ Schreibt /\ parzelle' = [parzelle EXCEPT ![f] = Free] /\ mitbauer' = mitbauer
        /\ Finde(f).elternId = None
    BY DEF Aufgeben, OwnersCommand, Ready
  <1>2. BesitzInv'
    BY <1>1, ParzelleFacts, LooseCell, FreeCommands
  <1>3. parzelle[f].elternId = None
    BY <1>1, FindeFacts
  <1>4. \A h \in Plots : parzelle'[h] = IF h = f THEN Free ELSE parzelle[h]
    BY <1>1 DEF BesitzInv, RowTypes
  <1> QED
    BY <1>2, <1>3, <1>4, ParzelleFacts DEF EstatesStay

\* mitbauerSetzen writes the list to every cell of the estate, or to the one cell.
LEMMA SetzenFacts ==
  ASSUME BesitzInv, answered, NEW f \in Plots, NEW liste \in SUBSET Players, MitbauerSetzen(f, liste)
  PROVE  /\ parzelle' \in [Plots -> Parzelle] /\ mitbauer' \in [Estates -> SUBSET Players] /\ EstatesUniform'
         /\ \A h \in Plots : \/ parzelle'[h] = parzelle[h]
                             \/ parzelle[h].mitbauer = parzelle[f].mitbauer /\ parzelle'[h].mitbauer = liste
         /\ OwnersStay /\ EstatesStay
  <1>1. Finde(f) = parzelle[f] /\ parzelle[f] \in Parzelle
    BY FindeFacts
  <1>2. CASE parzelle[f].elternId = None
    <2> DEFINE z == [parzelle[f] EXCEPT !.mitbauer = liste]
    <2>1. /\ z \in Parzelle /\ z.elternId = None /\ z.mitbauer = liste
          /\ z.eigentuemer = parzelle[f].eigentuemer
      BY <1>1, <1>2, ColumnFacts
    <2>2. parzelle' = [parzelle EXCEPT ![f] = z] /\ mitbauer' = mitbauer
      BY <1>1, <1>2 DEF MitbauerSetzen
    <2> HIDE DEF z
    <2>3. \A h \in Plots : parzelle'[h] = IF h = f THEN z ELSE parzelle[h]
      BY <2>2 DEF BesitzInv, RowTypes
    <2>4. OwnersStay /\ EstatesStay
      BY <1>2, <2>1, <2>3 DEF OwnersStay, EstatesStay
    <2> QED
      BY <2>1, <2>2, <2>3, <2>4, LooseCell
  <1>3. CASE parzelle[f].elternId # None
    <2> DEFINE e == parzelle[f].elternId
    <2>1. /\ e \in Estates /\ mitbauer' = [mitbauer EXCEPT ![e] = liste]
          /\ parzelle' = [h \in Plots |-> IF parzelle[h].elternId = e THEN [parzelle[h] EXCEPT !.mitbauer = liste]
                                          ELSE parzelle[h]]
      BY <1>1, <1>3, ParzelleFacts DEF MitbauerSetzen, Durchgeschrieben
    <2> HIDE DEF e
    <2>2. ASSUME NEW h \in Plots
          PROVE  /\ parzelle'[h] \in Parzelle /\ parzelle'[h].elternId = parzelle[h].elternId
                 /\ parzelle'[h].eigentuemer = parzelle[h].eigentuemer
                 /\ parzelle[h].elternId = e => parzelle'[h].mitbauer = liste
                 /\ parzelle[h].elternId # e => parzelle'[h] = parzelle[h]
      <3> DEFINE n == [parzelle[h] EXCEPT !.mitbauer = liste]
      <3>1. parzelle[h] \in Parzelle
        BY DEF BesitzInv, RowTypes
      <3>2. /\ n \in Parzelle /\ n.eigentuemer = parzelle[h].eigentuemer
            /\ n.mitbauer = liste /\ n.elternId = parzelle[h].elternId
        BY <3>1, ColumnFacts
      <3>3. parzelle'[h] = IF parzelle[h].elternId = e THEN n ELSE parzelle[h]
        BY <2>1
      <3> HIDE DEF n
      <3> QED
        BY <3>1, <3>2, <3>3
    <2>3. parzelle' \in [Plots -> Parzelle] /\ mitbauer' \in [Estates -> SUBSET Players]
      BY <2>1, <2>2 DEF BesitzInv, RowTypes
    <2>4. EstatesUniform'
      <3> SUFFICES ASSUME NEW d \in Estates, NEW h \in Plots, NEW k \in Plots,
                          parzelle'[h].elternId = d, parzelle'[k].elternId = d
                   PROVE  /\ parzelle'[h].eigentuemer = parzelle'[k].eigentuemer /\ parzelle'[h].eigentuemer # None
                          /\ parzelle'[h].mitbauer = mitbauer'[d]
        BY DEF EstatesUniform, KinderVon
      <3>1. parzelle[h].elternId = d /\ parzelle[k].elternId = d
        BY <2>2
      <3>2. /\ parzelle[h].eigentuemer = parzelle[k].eigentuemer /\ parzelle[h].eigentuemer # None
            /\ parzelle[h].mitbauer = mitbauer[d]
        BY <3>1 DEF BesitzInv, EstatesUniform, KinderVon
      <3>3. mitbauer'[d] = IF d = e THEN liste ELSE mitbauer[d]
        BY <2>1 DEF BesitzInv, RowTypes
      <3> QED
        BY <2>2, <3>1, <3>2, <3>3
    <2>5. ASSUME NEW h \in Plots
          PROVE  \/ parzelle'[h] = parzelle[h]
                 \/ parzelle[h].mitbauer = parzelle[f].mitbauer /\ parzelle'[h].mitbauer = liste
      <3>1. parzelle[h].elternId = e => parzelle[h].mitbauer = mitbauer[e] /\ parzelle[f].mitbauer = mitbauer[e]
        BY <2>1 DEF BesitzInv, EstatesUniform, KinderVon, e
      <3> QED
        BY <2>2, <3>1
    <2> QED
      BY <2>2, <2>3, <2>4, <2>5 DEF OwnersStay, EstatesStay
  <1> QED
    BY <1>2, <1>3

LEMMA HinzufuegenInv ==
  ASSUME BesitzInv, NEW p \in Players, NEW f \in Plots, NEW q \in Players, MitbauerHinzufuegen(p, f, q)
  PROVE  /\ BesitzInv' /\ \A h \in Plots : parzelle[h].mitbauer \subseteq parzelle'[h].mitbauer
         /\ OwnersStay /\ EstatesStay
  <1> DEFINE liste == Finde(f).mitbauer \cup {q}
  <1>1. Ready /\ answered /\ Schreibt /\ MitbauerSetzen(f, liste)
    BY DEF MitbauerHinzufuegen, OwnersCommand, Ready
  <1>2. liste \in SUBSET Players /\ parzelle[f].mitbauer \subseteq liste
    BY <1>1, FindeFacts, ParzelleFacts
  <1> HIDE DEF liste
  <1> QED
    BY <1>1, <1>2, SetzenFacts, FreeCommands

LEMMA EntfernenInv ==
  ASSUME BesitzInv, NEW p \in Players, NEW f \in Plots, NEW q \in Players, MitbauerEntfernen(p, f, q)
  PROVE  /\ BesitzInv' /\ \A h \in Plots : parzelle[h].mitbauer \ {q} \subseteq parzelle'[h].mitbauer
         /\ OwnersStay /\ EstatesStay
  <1> DEFINE liste == Finde(f).mitbauer \ {q}
  <1>1. Ready /\ answered /\ Schreibt /\ MitbauerSetzen(f, liste)
    BY DEF MitbauerEntfernen, OwnersCommand, Ready
  <1>2. liste \in SUBSET Players /\ liste = parzelle[f].mitbauer \ {q}
    BY <1>1, FindeFacts, ParzelleFacts
  <1> HIDE DEF liste
  <1> QED
    BY <1>1, <1>2, SetzenFacts, FreeCommands
-----------------------------------------------------------------------------
\* What a step does to a builder: his right stays, his cell is given up, or he is removed.
RightsStay ==
  \A f \in Plots, q \in Players :
    q \in parzelle[f].mitbauer /\ parzelle'[f] # Free /\ q \notin parzelle'[f].mitbauer
      => \E p \in Players, g \in Plots : MitbauerEntfernen(p, g, q)

LEMMA RowsKept == UNCHANGED rows => RightsStay
  BY DEF rows, RightsStay

LEMMA NextInv == BesitzInv /\ [Next]_vars => BesitzInv' /\ RightsStay
  <1> SUFFICES ASSUME BesitzInv, [Next]_vars PROVE BesitzInv' /\ RightsStay
    OBVIOUS
  <1>1. ASSUME NEW p \in Players, NEW f \in Plots, Nehmen(p, f) PROVE BesitzInv' /\ RightsStay
    BY <1>1, NehmenInv, RowsKept DEF Nehmen
  <1>2. ASSUME NEW p \in Players, NEW f \in Plots, Auftrennen(p, f) PROVE BesitzInv' /\ RightsStay
    BY <1>2, AuftrennenInv DEF RightsStay
  <1>3. ASSUME NEW p \in Players, NEW f \in Plots, Herausloesen(p, f) PROVE BesitzInv' /\ RightsStay
    BY <1>3, HerausloesenInv DEF RightsStay
  <1>4. ASSUME NEW p \in Players, NEW f \in Plots, Aufgeben(p, f) PROVE BesitzInv' /\ RightsStay
    BY <1>4, AufgebenInv DEF RightsStay
  <1>5. ASSUME NEW p \in Players, NEW f \in Plots, NEW g \in Plots, Zusammenlegen(p, f, g)
        PROVE  BesitzInv' /\ RightsStay
    BY <1>5, ZusammenlegenInv, RowsKept DEF Zusammenlegen
  <1>6. ASSUME NEW p \in Players, NEW f \in Plots, NEW q \in Players, MitbauerHinzufuegen(p, f, q)
        PROVE  BesitzInv' /\ RightsStay
    BY <1>6, HinzufuegenInv DEF RightsStay
  <1>7. ASSUME NEW p \in Players, NEW f \in Plots, NEW q \in Players, MitbauerEntfernen(p, f, q)
        PROVE  BesitzInv' /\ RightsStay
    <2>1. BesitzInv' /\ \A h \in Plots : parzelle[h].mitbauer \ {q} \subseteq parzelle'[h].mitbauer
      BY <1>7, EntfernenInv
    <2> SUFFICES ASSUME NEW h \in Plots, NEW r \in Players, r \in parzelle[h].mitbauer, r \notin parzelle'[h].mitbauer
                 PROVE  \E s \in Players, g \in Plots : MitbauerEntfernen(s, g, r)
      BY <2>1 DEF RightsStay
    <2>2. r = q
      BY <2>1
    <2> QED
      BY <1>7, <2>2
  <1>8. ASSUME NEW f \in Plots, Nachsehen(f) \/ Verfall(f) PROVE BesitzInv' /\ RightsStay
    BY <1>8, LooksInv, RowsKept DEF Nachsehen, Verfall
  <1>9. CASE Anlegen
    BY <1>9, AnlegenInv DEF RightsStay
  <1>10. CASE GruppeSetzen
    BY <1>10, GruppeInv DEF RightsStay
  <1>11. CASE Verweigert
    <2>1. UNCHANGED <<rows, cache, answered>> /\ tat' = [tat EXCEPT !.stufe = "erstatten"]
      BY <1>11 DEF Verweigert, Fehlgeschlagen, ghost
    <2>2. answered' \in BOOLEAN
      BY <2>1 DEF BesitzInv, RowTypes
    <2> QED
      BY <2>1, <2>2, LeavesInv, RowsKept
  <1>12. CASE Gutschreiben
    <2>1. UNCHANGED <<rows, cache>> /\ tat' = KeineTat
      BY <1>12 DEF Gutschreiben
    <2>2. answered' \in BOOLEAN /\ (answered' => answered)
      <3>1. answered \in BOOLEAN
        BY DEF BesitzInv, RowTypes
      <3>2. answered' = answered \/ answered' = FALSE
        <4>1. UNCHANGED answered \/ Unanswered
          BY <1>12, Zenon DEF Gutschreiben
        <4> QED
          BY <4>1, Zenon DEF Unanswered
      <3>3. CASE answered' = answered
        BY <3>1, <3>3
      <3>4. CASE answered' = FALSE
        BY <3>4, Zenon
      <3> QED
        BY <3>2, <3>3, <3>4
    <2> QED
      BY <2>1, <2>2, LeavesInv, RowsKept
  <1>13. CASE Absturz
    <2>1. UNCHANGED <<rows, answered>> /\ tat' = KeineTat /\ cache' = Nothing
      BY <1>13 DEF Absturz, Leeren
    <2>2. answered' \in BOOLEAN
      BY <2>1 DEF BesitzInv, RowTypes
    <2> QED
      BY <2>1, <2>2, LeavesInv, RowsKept
  <1>14. CASE UNCHANGED vars
    BY <1>14, RowsKept
    DEF vars, rows, ghost, BesitzInv, RowTypes, TatTypes, JoinFits, EstatesUniform, KinderVon, CacheIsTrue
  <1> QED
    BY <1>1, <1>2, <1>3, <1>4, <1>5, <1>6, <1>7, <1>8, <1>9, <1>10, <1>11, <1>12, <1>13, <1>14 DEF Next, Tut
-----------------------------------------------------------------------------
(* The shape of estates: in one piece, and never of one cell.               *)

\* zusammenlegen chose cells that touch each other, or one that touches the estate.
JoinTouches ==
  tat.stufe = "gruppe" =>
    IF tat.elternId = None
      THEN \E f, g \in Plots : tat.felder = {f, g} /\ <<f, g>> \in Neighbours
      ELSE \E f, h \in Plots : tat.felder = {f} /\ parzelle[h].elternId = tat.elternId /\ <<f, h>> \in Neighbours

ShapeInv == JoinTouches /\ EstatesInOnePiece /\ EstatesHaveTwo

LEMMA EdgeFacts ==
  /\ IsFiniteSet(Plots)
  /\ \A f, g \in Plots : <<f, g>> \in Neighbours => f # g /\ <<g, f>> \in Neighbours
  BY BesitzAssumption

LEMMA Pair ==
  ASSUME NEW f, NEW g, f # g
  PROVE  IsFiniteSet({f, g}) /\ Cardinality({f, g}) = 2
  <1>1. IsFiniteSet({f}) /\ Cardinality({f}) = 1
    BY FS_Singleton
  <1>2. IsFiniteSet({f} \cup {g}) /\ Cardinality({f} \cup {g}) = 2
    BY <1>1, FS_AddElement
  <1>3. {f} \cup {g} = {f, g}
    OBVIOUS
  <1> QED
    BY <1>2, <1>3

\* Wherever the search of haengtZusammen begins: no part of the cells is closed but all of them.
LEMMA OnePiece ==
  ASSUME NEW felder \in SUBSET Plots
  PROVE  HaengtZusammen(felder) <=>
           \A teil \in SUBSET felder : teil # {} /\ Geschlossen(teil, felder) => teil = felder
  <1> DEFINE start == CHOOSE f \in felder : TRUE
             Ganz == \A teil \in SUBSET felder : teil # {} /\ Geschlossen(teil, felder) => teil = felder
  <1>1. IsFiniteSet(felder) /\ Cardinality(felder) \in Nat
    BY EdgeFacts, FS_Subset, FS_CardinalityType
  <1>2. CASE Cardinality(felder) <= 1
    <2>1. \A f, g \in felder : f = g
      <3> SUFFICES ASSUME NEW f \in felder, NEW g \in felder, f # g PROVE FALSE
        OBVIOUS
      <3>1. IsFiniteSet({f, g}) /\ Cardinality({f, g}) = 2
        BY Pair
      <3>2. {f, g} \in SUBSET felder
        OBVIOUS
      <3>3. Cardinality({f, g}) <= Cardinality(felder)
        BY <1>1, <3>2, FS_Subset
      <3> QED
        BY <1>1, <1>2, <3>1, <3>3
    <2>2. Ganz
      BY <2>1
    <2> QED
      BY <1>2, <2>2 DEF HaengtZusammen
  <1>3. CASE ~(Cardinality(felder) <= 1)
    <2>1. felder # {}
      BY <1>3, FS_EmptySet
    <2>2. start \in felder
      BY <2>1
    <2> HIDE DEF start
    <2>3. HaengtZusammen(felder) <=> Erreicht(felder, start) = felder
      BY <1>3 DEF HaengtZusammen, start
    <2>4. ASSUME Ganz PROVE Erreicht(felder, start) = felder
      BY <2>2, <2>4 DEF Erreicht
    <2>5. ASSUME Erreicht(felder, start) = felder PROVE Ganz
      <3> SUFFICES ASSUME NEW teil \in SUBSET felder, teil # {}, Geschlossen(teil, felder)
                   PROVE  teil = felder
        OBVIOUS
      <3>1. CASE start \in teil
        BY <2>5, <3>1 DEF Erreicht
      <3>2. CASE start \notin teil
        <4> DEFINE rest == felder \ teil
        <4>1. Geschlossen(rest, felder)
          BY EdgeFacts DEF Geschlossen
        <4>2. start \in rest /\ rest \in SUBSET felder
          BY <2>2, <3>2
        <4>3. felder \subseteq rest
          BY <2>5, <4>1, <4>2 DEF Erreicht
        <4> QED
          BY <4>3
      <3> QED
        BY <3>1, <3>2
    <2> QED
      BY <2>3, <2>4, <2>5
  <1> QED
    BY <1>2, <1>3

\* One piece and a cell that touches it are one piece.
LEMMA PieceGrows ==
  ASSUME NEW felder \in SUBSET Plots, HaengtZusammen(felder), NEW h \in felder, NEW f \in Plots, <<f, h>> \in Neighbours
  PROVE  HaengtZusammen(felder \cup {f})
  <1> DEFINE alle == felder \cup {f}
  <1>1. alle \in SUBSET Plots /\ <<h, f>> \in Neighbours
    BY EdgeFacts
  <1>2. ASSUME NEW teil \in SUBSET alle, teil # {}, Geschlossen(teil, alle)
        PROVE  teil = alle
    <2> DEFINE alt == teil \cap felder
    <2>1. Geschlossen(alt, felder) /\ alt \in SUBSET felder
      BY <1>2 DEF Geschlossen
    <2>2. alt # {}
      BY <1>2 DEF Geschlossen
    <2>3. alt = felder
      BY <2>1, <2>2, OnePiece
    <2>4. f \in teil
      BY <1>1, <1>2, <2>3 DEF Geschlossen
    <2> QED
      BY <2>3, <2>4
  <1> HIDE DEF alle
  <1>3. HaengtZusammen(alle)
    BY <1>1, <1>2, OnePiece
  <1> QED
    BY <1>3 DEF alle

LEMMA TwoCells ==
  ASSUME NEW f \in Plots, NEW g \in Plots, <<f, g>> \in Neighbours
  PROVE  HaengtZusammen({f, g}) /\ Cardinality({f, g}) = 2
  <1>1. f # g /\ <<g, f>> \in Neighbours
    BY EdgeFacts
  <1>2. \A teil \in SUBSET {f, g} : teil # {} /\ Geschlossen(teil, {f, g}) => teil = {f, g}
    BY <1>1 DEF Geschlossen
  <1>3. HaengtZusammen({f, g})
    BY <1>2, OnePiece
  <1>4. Cardinality({f, g}) = 2
    BY <1>1, Pair
  <1> QED
    BY <1>3, <1>4

LEMMA NoCells == HaengtZusammen({}) /\ Cardinality({}) # 1
  BY FS_EmptySet DEF HaengtZusammen

LEMMA EstatesAreFinite ==
  ASSUME NEW e
  PROVE  KinderVon(e) \in SUBSET Plots /\ IsFiniteSet(KinderVon(e)) /\ Cardinality(KinderVon(e)) \in Nat
  BY EdgeFacts, FS_Subset, FS_CardinalityType DEF KinderVon

LEMMA EstatesStayWhole ==
  ASSUME ShapeInv, EstatesStay
  PROVE  EstatesInOnePiece' /\ EstatesHaveTwo'
  <1>1. \A e \in Estates : KinderVon(e)' = KinderVon(e)
    BY DEF EstatesStay, KinderVon
  <1> QED
    BY <1>1 DEF ShapeInv, EstatesInOnePiece, EstatesHaveTwo

LEMMA PartedEstate ==
  ASSUME ShapeInv, NEW e \in Estates, EstateGoes(e)
  PROVE  EstatesInOnePiece' /\ EstatesHaveTwo'
  <1>1. \A d \in Estates : KinderVon(d)' = IF d = e THEN {} ELSE KinderVon(d)
    BY NoneFacts DEF EstateGoes, KinderVon
  <1> QED
    BY <1>1, NoCells DEF ShapeInv, EstatesInOnePiece, EstatesHaveTwo

LEMMA SmallerEstate ==
  ASSUME ShapeInv, NEW f \in Plots, CellLeaves(f), NEW e \in Estates, e = parzelle[f].elternId,
         Cardinality(KinderVon(e)) > 2, HaengtZusammen(KinderVon(e) \ {f})
  PROVE  EstatesInOnePiece' /\ EstatesHaveTwo'
  <1>1. \A d \in Estates : KinderVon(d)' = IF d = e THEN KinderVon(e) \ {f} ELSE KinderVon(d)
    BY NoneFacts DEF CellLeaves, KinderVon
  <1>2. f \in KinderVon(e)
    BY DEF KinderVon
  <1>3. Cardinality(KinderVon(e) \ {f}) = Cardinality(KinderVon(e)) - 1
    <2>1. IsFiniteSet(KinderVon(e)) /\ Cardinality(KinderVon(e)) \in Nat
      BY EstatesAreFinite
    <2> QED
      BY <1>2, <2>1, FS_RemoveElement, Zenon
  <1>4. Cardinality(KinderVon(e) \ {f}) # 1
    BY <1>3, EstatesAreFinite
  <1> QED
    BY <1>1, <1>4 DEF ShapeInv, EstatesInOnePiece, EstatesHaveTwo

LEMMA LargerEstate ==
  ASSUME ShapeInv, tat.stufe = "gruppe", NEW e \in Estates,
         IF tat.elternId = None THEN KinderVon(e) = {} ELSE e = tat.elternId,
         CellsJoin(tat.felder, e), \A f \in tat.felder : parzelle[f].elternId = None
  PROVE  EstatesInOnePiece' /\ EstatesHaveTwo'
  <1>1. tat.felder \subseteq Plots
    BY DEF ShapeInv, JoinTouches
  <1>2. \A d \in Estates : KinderVon(d)' = IF d = e THEN KinderVon(e) \cup tat.felder ELSE KinderVon(d)
    <2> SUFFICES ASSUME NEW d \in Estates PROVE KinderVon(d)' = IF d = e THEN KinderVon(e) \cup tat.felder ELSE KinderVon(d)
      OBVIOUS
    <2>1. \A h \in Plots : h \in KinderVon(d)' <=> IF h \in tat.felder THEN d = e ELSE h \in KinderVon(d)
      BY DEF CellsJoin, KinderVon
    <2>2. \A h \in tat.felder : h \notin KinderVon(d)
      BY NoneFacts DEF KinderVon
    <2>3. KinderVon(d)' \subseteq Plots /\ KinderVon(d) \subseteq Plots
      BY DEF KinderVon
    <2> QED
      BY <1>1, <2>1, <2>2, <2>3
  <1>3. HaengtZusammen(KinderVon(e) \cup tat.felder) /\ Cardinality(KinderVon(e) \cup tat.felder) # 1
    <2>1. CASE tat.elternId = None
      <3>1. PICK f, g \in Plots : tat.felder = {f, g} /\ <<f, g>> \in Neighbours
        BY <2>1 DEF ShapeInv, JoinTouches
      <3>2. KinderVon(e) \cup tat.felder = {f, g}
        BY <2>1, <3>1
      <3> QED
        BY <3>1, <3>2, TwoCells
    <2>2. CASE tat.elternId # None
      <3>1. PICK f, h \in Plots : tat.felder = {f} /\ parzelle[h].elternId = e /\ <<f, h>> \in Neighbours
        BY <2>2 DEF ShapeInv, JoinTouches
      <3>2. h \in KinderVon(e) /\ f \notin KinderVon(e)
        BY <3>1, NoneFacts DEF KinderVon
      <3>3. HaengtZusammen(KinderVon(e) \cup {f})
        BY <3>1, <3>2, EstatesAreFinite, PieceGrows DEF ShapeInv, EstatesInOnePiece
      <3>4. Cardinality(KinderVon(e) \cup {f}) = Cardinality(KinderVon(e)) + 1
        BY <3>2, EstatesAreFinite, FS_AddElement
      <3>5. Cardinality(KinderVon(e)) # 0
        BY <3>2, EstatesAreFinite, FS_EmptySet
      <3> QED
        BY <3>1, <3>3, <3>4, <3>5, EstatesAreFinite
    <2> QED
      BY <2>1, <2>2
  <1> QED
    BY <1>2, <1>3 DEF ShapeInv, EstatesInOnePiece, EstatesHaveTwo

LEMMA ShapeInit == Init => ShapeInv
  <1> SUFFICES ASSUME Init PROVE ShapeInv
    OBVIOUS
  <1>1. \A e \in Estates : KinderVon(e) = {}
    BY ParzelleFacts, NoneFacts DEF Init, KinderVon
  <1>2. JoinTouches
    BY DEF Init, KeineTat, JoinTouches
  <1> QED
    BY <1>1, <1>2, NoCells DEF ShapeInv, EstatesInOnePiece, EstatesHaveTwo

\* A step that writes no row, and decides nothing about cells.
LEMMA ShapeUntouched ==
  ASSUME ShapeInv, UNCHANGED rows, tat' = tat \/ tat'.stufe # "gruppe"
  PROVE  ShapeInv'
  <1>1. EstatesStay /\ parzelle' = parzelle
    BY DEF EstatesStay, rows
  <1>2. JoinTouches'
    BY <1>1 DEF ShapeInv, JoinTouches
  <1> QED
    BY <1>1, <1>2, EstatesStayWhole DEF ShapeInv

LEMMA ZusammenlegenShape ==
  ASSUME BesitzInv, ShapeInv, NEW p \in Players, NEW f \in Plots, NEW g \in Plots, Zusammenlegen(p, f, g)
  PROVE  ShapeInv'
  <1> DEFINE b == Beitritt(f, g)
             neu == [stufe |-> "gruppe", wer |-> p, betrag |-> ZusammenlegungsGebuehr(Nachher(b)), felder |-> b.felder,
                     elternId |-> b.elternId, mitbauer |-> Vereinigt(Finde(f), Finde(g))]
  <1>1. /\ answered /\ UNCHANGED rows /\ Bezahlt(neu)
        /\ <<f, g>> \in Neighbours /\ <<g, f>> \in Neighbours
    BY EdgeFacts DEF Zusammenlegen, OwnersCommand, Ready
  <1>2. tat' = tat \/ tat' = neu
    BY <1>1 DEF Bezahlt
  <1>3. CASE tat' = tat
    BY <1>1, <1>3, ShapeUntouched
  <1>4. CASE tat' = neu
    <2>1. Finde(f) = parzelle[f] /\ Finde(g) = parzelle[g]
      BY <1>1, FindeFacts
    <2>2. IF b.elternId = None THEN b.felder = {f, g}
          ELSE \/ b.felder = {g} /\ parzelle[f].elternId = b.elternId
               \/ b.felder = {f} /\ parzelle[g].elternId = b.elternId
      <3>1. CASE parzelle[f].elternId # None
        BY <2>1, <3>1 DEF Beitritt
      <3>2. CASE parzelle[f].elternId = None /\ parzelle[g].elternId # None
        BY <2>1, <3>2 DEF Beitritt
      <3>3. CASE parzelle[f].elternId = None /\ parzelle[g].elternId = None
        BY <2>1, <3>3 DEF Beitritt
      <3> QED
        BY <3>1, <3>2, <3>3
    <2> HIDE DEF b
    <2>3. tat'.elternId = b.elternId /\ tat'.felder = b.felder /\ parzelle' = parzelle
      BY <1>1, <1>4 DEF rows
    <2>4. JoinTouches'
      BY <1>1, <2>2, <2>3 DEF JoinTouches
    <2>5. EstatesStay
      BY <2>3 DEF EstatesStay
    <2> QED
      BY <2>4, <2>5, EstatesStayWhole DEF ShapeInv
  <1> QED
    BY <1>2, <1>3, <1>4

\* What the refund and the free commands do to the command under way.
LEMMA TatFacts ==
  ASSUME BesitzInv
  PROVE  /\ KeineTat.stufe # "gruppe"
         /\ tat' = [tat EXCEPT !.stufe = "erstatten"] => tat'.stufe # "gruppe"
         /\ Erteilt => tat'.stufe # "gruppe"
         /\ Ready /\ Schreibt => tat'.stufe # "gruppe"
  <1>1. KeineTat.stufe # "gruppe"
    BY DEF KeineTat
  <1>2. ASSUME tat' = [tat EXCEPT !.stufe = "erstatten"] PROVE tat'.stufe # "gruppe"
    <2>1. tat' = [stufe |-> "erstatten", wer |-> tat.wer, betrag |-> tat.betrag, felder |-> tat.felder,
                  elternId |-> tat.elternId, mitbauer |-> tat.mitbauer]
      BY <1>2 DEF BesitzInv, TatTypes
    <2> QED
      BY <2>1
  <1>3. Erteilt => tat'.stufe # "gruppe"
    BY ErteiltTat
  <1>4. Ready /\ Schreibt => tat'.stufe # "gruppe"
    BY <1>1 DEF Ready, Schreibt
  <1> QED
    BY <1>1, <1>2, <1>3, <1>4

\* Commands that write rows: whatever they do to the estates, nothing is left to be written.
LEMMA WrittenShape ==
  ASSUME EstatesInOnePiece', EstatesHaveTwo', tat'.stufe # "gruppe"
  PROVE  ShapeInv'
  BY DEF ShapeInv, JoinTouches

LEMMA ShapeNext == BesitzInv /\ ShapeInv /\ [Next]_vars => ShapeInv'
  <1> SUFFICES ASSUME BesitzInv, ShapeInv, [Next]_vars PROVE ShapeInv'
    OBVIOUS
  <1>1. ASSUME NEW p \in Players, NEW f \in Plots, Nehmen(p, f) PROVE ShapeInv'
    <2> DEFINE neu == [KeineTat EXCEPT !.stufe = "anlegen", !.wer = p, !.betrag = PreisFuerNaechste(AnzahlVon(p)),
                                       !.felder = {f}]
    <2>1. UNCHANGED rows /\ (tat' = tat \/ tat' = neu)
      BY <1>1 DEF Nehmen, Bezahlt
    <2>2. neu.stufe # "gruppe"
      BY DEF KeineTat
    <2> HIDE DEF neu
    <2> QED
      BY <2>1, <2>2, ShapeUntouched
  <1>2. ASSUME NEW p \in Players, NEW f \in Plots, Auftrennen(p, f) PROVE ShapeInv'
    BY <1>2, AuftrennenInv, PartedEstate, TatFacts, WrittenShape DEF Auftrennen, OwnersCommand
  <1>3. ASSUME NEW p \in Players, NEW f \in Plots, Herausloesen(p, f) PROVE ShapeInv'
    BY <1>3, HerausloesenInv, PartedEstate, SmallerEstate, TatFacts, WrittenShape DEF Herausloesen, OwnersCommand
  <1>4. ASSUME NEW p \in Players, NEW f \in Plots, Aufgeben(p, f) PROVE ShapeInv'
    BY <1>4, AufgebenInv, EstatesStayWhole, TatFacts, WrittenShape DEF Aufgeben, OwnersCommand
  <1>5. ASSUME NEW p \in Players, NEW f \in Plots, NEW q \in Players,
               MitbauerHinzufuegen(p, f, q) \/ MitbauerEntfernen(p, f, q)
        PROVE  ShapeInv'
    BY <1>5, HinzufuegenInv, EntfernenInv, EstatesStayWhole, TatFacts, WrittenShape
    DEF MitbauerHinzufuegen, MitbauerEntfernen, OwnersCommand
  <1>6. ASSUME NEW p \in Players, NEW f \in Plots, NEW g \in Plots, Zusammenlegen(p, f, g) PROVE ShapeInv'
    BY <1>6, ZusammenlegenShape
  <1>7. ASSUME NEW f \in Plots, Nachsehen(f) \/ Verfall(f) PROVE ShapeInv'
    BY <1>7, ShapeUntouched DEF Nachsehen, Verfall
  <1>8. CASE Anlegen
    BY <1>8, AnlegenInv, EstatesStayWhole, TatFacts, WrittenShape DEF Anlegen
  <1>9. CASE GruppeSetzen
    <2>1. /\ tat.stufe = "gruppe" /\ \A f \in tat.felder : parzelle[f].elternId = None
          /\ tat'.stufe # "gruppe"
      BY <1>9, TatFacts DEF GruppeSetzen
    <2> QED
      BY <1>9, <2>1, GruppeInv, LargerEstate, WrittenShape
  <1>10. CASE Verweigert
    BY <1>10, TatFacts, ShapeUntouched DEF Verweigert, Fehlgeschlagen
  <1>11. CASE Gutschreiben
    BY <1>11, TatFacts, ShapeUntouched DEF Gutschreiben
  <1>12. CASE Absturz
    BY <1>12, TatFacts, ShapeUntouched DEF Absturz
  <1>13. CASE UNCHANGED vars
    BY <1>13, ShapeUntouched DEF vars
  <1> QED
    BY <1>1, <1>2, <1>3, <1>4, <1>5, <1>6, <1>7, <1>8, <1>9, <1>10, <1>11, <1>12, <1>13 DEF Next, Tut
-----------------------------------------------------------------------------
(* What a ladder of n plots costs, counted in Marks                         *)

Stufe(i)   == {i} \X (1..PreisFuerNaechste(i))
Staffel(n) == UNION {Stufe(i) : i \in 0..(n - 1)}

LEMMA GesamtpreisFacts == \A n : GesamtpreisFuer(n) = Cardinality(Staffel(n))
  BY DEF GesamtpreisFuer, Staffel, Stufe

LEMMA PreisIsNat ==
  ASSUME NEW n \in Nat
  PROVE  PreisFuerNaechste(n) \in Nat
  <1>1. CASE n = 0
    BY <1>1 DEF PreisFuerNaechste
  <1>2. CASE n # 0
    <2>1. Verdopplungen(n) \in 0..MaxVerdopplungen
      BY <1>2, BesitzAssumption DEF Verdopplungen
    <2>2. \A k \in 0..MaxVerdopplungen : GroundPrice * 2^k \in Nat
      BY BesitzAssumption
    <2>3. PreisFuerNaechste(n) = GroundPrice * 2^Verdopplungen(n)
      BY <1>2 DEF PreisFuerNaechste
    <2> HIDE DEF Verdopplungen
    <2> QED
      BY <2>1, <2>2, <2>3, Zenon
  <1> QED
    BY <1>1, <1>2

LEMMA StufeFacts ==
  ASSUME NEW n \in Nat
  PROVE  IsFiniteSet(Stufe(n)) /\ Cardinality(Stufe(n)) = PreisFuerNaechste(n)
  <1> DEFINE preis == PreisFuerNaechste(n)
  <1>1. preis \in Nat
    BY PreisIsNat
  <1> HIDE DEF preis
  <1>2. IsFiniteSet({n}) /\ Cardinality({n}) = 1
    BY FS_Singleton
  <1>3. IsFiniteSet(1..preis) /\ Cardinality(1..preis) = preis
    BY <1>1, FS_Interval
  <1>4. /\ IsFiniteSet({n} \X (1..preis))
        /\ Cardinality({n} \X (1..preis)) = Cardinality({n}) * Cardinality(1..preis)
    BY <1>2, <1>3, FS_Product, Zenon
  <1>5. Stufe(n) = {n} \X (1..preis)
    BY DEF Stufe, preis
  <1> QED
    BY <1>1, <1>2, <1>3, <1>4, <1>5 DEF preis

LEMMA StaffelIsFinite ==
  ASSUME NEW n \in Nat
  PROVE  IsFiniteSet(Staffel(n)) /\ Cardinality(Staffel(n)) \in Nat
  <1> DEFINE stufen == {Stufe(i) : i \in 0..(n - 1)}
  <1>1. IsFiniteSet(0..(n - 1))
    BY FS_Interval
  <1>2. IsFiniteSet(stufen)
    <2> DEFINE f == [i \in 0..(n - 1) |-> Stufe(i)]
    <2>1. f \in Surjection(0..(n - 1), stufen)
      BY DEF Surjection
    <2> QED
      BY <1>1, <2>1, FS_Surjection
  <1>3. \A T \in stufen : IsFiniteSet(T)
    BY StufeFacts
  <1> HIDE DEF stufen
  <1>4. IsFiniteSet(UNION stufen)
    BY <1>2, <1>3, FS_UNION
  <1> QED
    BY <1>4, FS_CardinalityType DEF Staffel, stufen

\* One plot more costs what the next step costs; fewer never cost more.
LEMMA LadderGrows ==
  ASSUME NEW n \in Nat
  PROVE  /\ GesamtpreisFuer(n) \in Nat
         /\ GesamtpreisFuer(n + 1) = GesamtpreisFuer(n) + PreisFuerNaechste(n)
         /\ \A m \in 0..n : GesamtpreisFuer(m) <= GesamtpreisFuer(n)
  <1>1. GesamtpreisFuer(n) \in Nat
    BY StaffelIsFinite, GesamtpreisFacts
  <1>2. GesamtpreisFuer(n + 1) = GesamtpreisFuer(n) + PreisFuerNaechste(n)
    <2>1. Staffel(n + 1) = Staffel(n) \cup Stufe(n)
      <3>1. \A i : i \in 0..((n + 1) - 1) <=> i \in 0..(n - 1) \/ i = n
        OBVIOUS
      <3> HIDE DEF Stufe
      <3> QED
        BY <3>1, Zenon DEF Staffel
    <2>2. Staffel(n) \cap Stufe(n) = {}
      <3> SUFFICES ASSUME NEW x \in Staffel(n), x \in Stufe(n) PROVE FALSE
        OBVIOUS
      <3>1. PICK i \in 0..(n - 1) : x \in Stufe(i)
        BY DEF Staffel
      <3>2. x[1] = i /\ x[1] = n
        BY <3>1 DEF Stufe
      <3> QED
        BY <3>1, <3>2
    <2>3. Cardinality(Staffel(n) \cap Stufe(n)) = 0
      BY <2>2, FS_EmptySet
    <2>4. Cardinality(Staffel(n) \cup Stufe(n))
          = Cardinality(Staffel(n)) + Cardinality(Stufe(n)) - Cardinality(Staffel(n) \cap Stufe(n))
      BY StaffelIsFinite, StufeFacts, FS_Union
    <2>5. Cardinality(Stufe(n)) = PreisFuerNaechste(n) /\ PreisFuerNaechste(n) \in Nat
      BY StufeFacts, PreisIsNat
    <2>6. Cardinality(Staffel(n)) \in Nat
      BY StaffelIsFinite
    <2>7. Cardinality(Staffel(n + 1)) = Cardinality(Staffel(n)) + PreisFuerNaechste(n)
      <3> DEFINE a == Cardinality(Staffel(n))  b == Cardinality(Stufe(n))
                 c == Cardinality(Staffel(n) \cap Stufe(n))  d == Cardinality(Staffel(n + 1))
      <3>1. d = a + b - c
        BY <2>1, <2>4, Zenon
      <3>2. a \in Nat /\ b \in Nat /\ c = 0 /\ b = PreisFuerNaechste(n)
        BY <2>3, <2>5, <2>6, Zenon
      <3> HIDE DEF a, b, c, d
      <3>3. d = a + PreisFuerNaechste(n)
        BY <3>1, <3>2
      <3> QED
        BY <3>3 DEF a, d
    <2> QED
      BY <2>7, GesamtpreisFacts
  <1>3. ASSUME NEW m \in 0..n PROVE GesamtpreisFuer(m) <= GesamtpreisFuer(n)
    <2>1. \A i \in 0..(m - 1) : i \in 0..(n - 1)
      OBVIOUS
    <2>2. Staffel(m) \subseteq Staffel(n)
      BY <2>1, Zenon DEF Staffel
    <2> QED
      BY <2>2, StaffelIsFinite, FS_Subset, GesamtpreisFacts
  <1> QED
    BY <1>1, <1>2, <1>3
-----------------------------------------------------------------------------
(* Money: what is spent is granted, or due to the command under way         *)

MoneyTypes ==
  /\ mark \in [Players -> Nat] /\ granted \in [Players -> Nat] /\ joined \in [Players -> Nat]
  /\ unrefunded \in BOOLEAN /\ tat.betrag \in Nat

\* What the command under way has taken from him, and will grant or give back.
Due(p) == IF tat.wer = p THEN tat.betrag ELSE 0

\* The price was that of his next plot, and still is.
PriceFits ==
  tat.stufe = "anlegen" =>
    /\ tat.betrag = PreisFuerNaechste(AnzahlVon(tat.wer))
    /\ \E f \in Plots : tat.felder = {f}

AllAccounted ==
  answered => \A p \in Players : /\ Spent(p) - Due(p) >= granted[p]
                                 /\ ~unrefunded => Spent(p) - Due(p) = granted[p]
LadderIsPaid ==
  answered => \A p \in Players : Spent(p) - Due(p) - joined[p] >= GesamtpreisFuer(AnzahlVon(p))

MoneyInv == MoneyTypes /\ PriceFits /\ AllAccounted /\ LadderIsPaid

LEMMA CountFacts ==
  ASSUME NEW p
  PROVE  /\ AnzahlVon(p) \in Nat
         /\ OwnersStay => AnzahlVon(p)' = AnzahlVon(p)
  <1>1. AnzahlVon(p) \in Nat
    BY EdgeFacts, FS_Subset, FS_CardinalityType DEF AnzahlVon
  <1>2. ASSUME OwnersStay PROVE AnzahlVon(p)' = AnzahlVon(p)
    <2>1. {f \in Plots : parzelle'[f].eigentuemer = p} = {f \in Plots : parzelle[f].eigentuemer = p}
      BY <1>2 DEF OwnersStay
    <2> QED
      BY <2>1 DEF AnzahlVon
  <1> QED
    BY <1>1, <1>2

LEMMA MoneyFacts ==
  ASSUME MoneyInv, NEW p \in Players
  PROVE  /\ StartMoney[p] \in Nat /\ mark[p] \in Nat /\ granted[p] \in Nat /\ joined[p] \in Nat
         /\ Due(p) \in Nat /\ Spent(p) \in Int /\ Spent(p) = StartMoney[p] - mark[p]
         /\ GesamtpreisFuer(AnzahlVon(p)) \in Nat
  <1>1. StartMoney[p] \in Nat
    BY BesitzAssumption
  <1>2. mark[p] \in Nat /\ granted[p] \in Nat /\ joined[p] \in Nat /\ tat.betrag \in Nat
    BY DEF MoneyInv, MoneyTypes
  <1>3. GesamtpreisFuer(AnzahlVon(p)) \in Nat
    BY CountFacts, LadderGrows
  <1> QED
    BY <1>1, <1>2, <1>3 DEF Due, Spent

LEMMA MoneyInit == Init => MoneyInv
  <1> SUFFICES ASSUME Init PROVE MoneyInv
    OBVIOUS
  <1>1. StartMoney \in [Players -> Nat]
    BY BesitzAssumption
  <1>2. tat.betrag = 0 /\ tat.stufe = "keine" /\ tat.wer = None
    BY DEF Init, KeineTat
  <1>3. MoneyTypes /\ PriceFits
    <2>1. mark = StartMoney /\ granted = [p \in Players |-> 0] /\ joined = [p \in Players |-> 0] /\ unrefunded = FALSE
      BY DEF Init
    <2>2. mark \in [Players -> Nat] /\ granted \in [Players -> Nat] /\ joined \in [Players -> Nat]
      BY <1>1, <2>1
    <2>3. unrefunded \in BOOLEAN
      BY <2>1, Zenon
    <2> QED
      BY <1>2, <2>2, <2>3 DEF MoneyTypes, PriceFits
  <1>4. ASSUME NEW p \in Players PROVE Spent(p) = 0 /\ Due(p) = 0 /\ granted[p] = 0 /\ joined[p] = 0
    BY <1>1, <1>2 DEF Init, Spent, Due
  <1>5. ASSUME NEW p \in Players PROVE GesamtpreisFuer(AnzahlVon(p)) = 0
    <2>1. {f \in Plots : parzelle[f].eigentuemer = p} = {}
      BY ParzelleFacts, NoneFacts DEF Init
    <2>2. AnzahlVon(p) = 0
      BY <2>1, FS_EmptySet DEF AnzahlVon
    <2>3. \A i : i \notin 0..(0 - 1)
      OBVIOUS
    <2>4. Staffel(0) = {}
      BY <2>3, Zenon DEF Staffel
    <2> QED
      BY <2>2, <2>4, GesamtpreisFacts, FS_EmptySet
  <1>6. AllAccounted /\ LadderIsPaid
    BY <1>4, <1>5 DEF AllAccounted, LadderIsPaid
  <1> QED
    BY <1>3, <1>6 DEF MoneyInv

\* Steps that move no money and write no owner.
LEMMA MoneyUntouched ==
  ASSUME MoneyInv, UNCHANGED <<mark, tat, granted, joined, unrefunded>>, OwnersStay, answered' => answered
  PROVE  MoneyInv'
  <1>1. MoneyTypes'
    BY DEF MoneyInv, MoneyTypes
  <1>2. PriceFits'
    BY CountFacts DEF MoneyInv, PriceFits
  <1>3. \A p \in Players : Spent(p)' = Spent(p) /\ Due(p)' = Due(p)
    BY DEF Spent, Due
  <1>4. AllAccounted' /\ LadderIsPaid'
    BY <1>3, CountFacts DEF MoneyInv, AllAccounted, LadderIsPaid
  <1> QED
    BY <1>1, <1>2, <1>4 DEF MoneyInv

\* The debit: what leaves the account is due, unless its answer is lost.
LEMMA MoneyDebited ==
  ASSUME MoneyInv, NEW p \in Players, NEW betrag \in Nat, Abbuchen(p, betrag), tat = KeineTat, answered,
         UNCHANGED <<rows, granted, joined, unrefunded>>, NEW neu, Bezahlt(neu),
         neu.wer = p, neu.betrag = betrag,
         neu.stufe = "anlegen" => betrag = PreisFuerNaechste(AnzahlVon(p)) /\ \E f \in Plots : neu.felder = {f}
  PROVE  MoneyInv'
  <1>1. /\ mark[p] \in Nat /\ mark' = [mark EXCEPT ![p] = @ - betrag] /\ mark[p] >= betrag
        /\ mark \in [Players -> Nat] /\ tat.betrag \in Nat
    BY DEF Abbuchen, MoneyInv, MoneyTypes
  <1>2. tat.stufe = "keine" /\ tat.wer = None
    BY DEF KeineTat
  <1>3. OwnersStay
    BY DEF OwnersStay, rows
  <1>4. (tat' = neu /\ answered' = answered) \/ (tat' = tat /\ answered' = FALSE)
    BY Zenon DEF Bezahlt, Unanswered
  <1>5. MoneyTypes'
    <2>1. mark' \in [Players -> Nat]
      BY <1>1
    <2>2. tat'.betrag \in Nat
      BY <1>1, <1>4
    <2> QED
      BY <2>1, <2>2 DEF MoneyInv, MoneyTypes
  <1>6. PriceFits'
    <2>1. CASE tat' = neu
      BY <1>3, <2>1, CountFacts DEF PriceFits
    <2>2. CASE tat' = tat
      BY <1>2, <2>2 DEF PriceFits
    <2> QED
      BY <1>4, <2>1, <2>2
  <1>7. ASSUME answered', NEW q \in Players PROVE Spent(q)' - Due(q)' = Spent(q) - Due(q) /\ Spent(q)' - Due(q)' \in Int
    <2>1. tat' = neu
      BY <1>4, <1>7
    <2>2. Due(q) = 0
      BY <1>2, NoneFacts DEF Due
    <2>3. StartMoney[q] \in Nat /\ mark[q] \in Nat
      BY MoneyFacts
    <2>4. CASE q = p
      BY <1>1, <2>1, <2>2, <2>3, <2>4 DEF Spent, Due
    <2>5. CASE q # p
      BY <1>1, <2>1, <2>2, <2>3, <2>5 DEF Spent, Due
    <2> QED
      BY <2>4, <2>5
  <1>8. AllAccounted' /\ LadderIsPaid'
    BY <1>3, <1>7, CountFacts DEF MoneyInv, AllAccounted, LadderIsPaid
  <1> QED
    BY <1>5, <1>6, <1>8 DEF MoneyInv

\* What the command took is granted: for a plot the ladder has one step more, for an estate
\* the part for joining is more.
LEMMA MoneyGranted ==
  ASSUME MoneyInv, Erteilt, tat.wer \in Players,
         \/ joined' = joined /\ tat.stufe = "anlegen"
            /\ \A p \in Players : AnzahlVon(p)' = IF p = tat.wer THEN AnzahlVon(p) + 1 ELSE AnzahlVon(p)
         \/ joined' = [joined EXCEPT ![tat.wer] = @ + tat.betrag] /\ OwnersStay
  PROVE  MoneyInv'
  <1> DEFINE w == tat.wer
             n == tat.betrag
  <1>1. /\ granted' = [granted EXCEPT ![w] = @ + n] /\ UNCHANGED <<mark, unrefunded>>
        /\ tat' = IF answered' THEN KeineTat ELSE [tat EXCEPT !.stufe = "erstatten"]
        /\ answered' => answered
    BY DEF Erteilt, Written, Unanswered
  <1>2. n \in Nat /\ w \in Players /\ granted \in [Players -> Nat] /\ joined \in [Players -> Nat]
    BY DEF MoneyInv, MoneyTypes
  <1>3. KeineTat.betrag = 0 /\ KeineTat.stufe = "keine" /\ KeineTat.wer = None
    BY DEF KeineTat
  <1> HIDE DEF w, n
  <1>4. tat'.betrag \in Nat /\ tat'.stufe # "anlegen"
    <2>1. CASE tat' = KeineTat
      BY <1>3, <2>1
    <2>2. CASE tat' = [tat EXCEPT !.stufe = "erstatten"]
      BY <1>2, <2>2 DEF n
    <2> QED
      BY <1>1, <2>1, <2>2
  <1>5. MoneyTypes' /\ PriceFits'
    BY <1>1, <1>2, <1>4 DEF MoneyInv, MoneyTypes, PriceFits, w, n
  <1>6. ASSUME answered', NEW q \in Players
        PROVE  /\ Due(q)' = 0 /\ Spent(q)' = Spent(q) /\ Due(q) = IF q = w THEN n ELSE 0
               /\ granted'[q] = granted[q] + Due(q)
               /\ joined'[q] + GesamtpreisFuer(AnzahlVon(q))' = joined[q] + GesamtpreisFuer(AnzahlVon(q)) + Due(q)
               /\ joined'[q] \in Nat /\ GesamtpreisFuer(AnzahlVon(q))' \in Nat
    <2>1. Due(q)' = 0 /\ Spent(q)' = Spent(q) /\ Due(q) = IF q = w THEN n ELSE 0
      BY <1>1, <1>3, <1>6, NoneFacts DEF Due, Spent, w, n
    <2>2. granted'[q] = granted[q] + Due(q)
      BY <1>1, <1>2, <2>1
    <2>3. AnzahlVon(q) \in Nat /\ GesamtpreisFuer(AnzahlVon(q)) \in Nat /\ joined[q] \in Nat
      BY MoneyFacts, CountFacts
    <2>4. CASE /\ joined' = joined /\ tat.stufe = "anlegen"
               /\ \A p \in Players : AnzahlVon(p)' = IF p = tat.wer THEN AnzahlVon(p) + 1 ELSE AnzahlVon(p)
      <3>1. n = PreisFuerNaechste(AnzahlVon(w))
        BY <2>4 DEF MoneyInv, PriceFits, w, n
      <3>2. GesamtpreisFuer(AnzahlVon(q))' = GesamtpreisFuer(AnzahlVon(q)')
        BY DEF GesamtpreisFuer
      <3>3. CASE q = w
        <4>1. AnzahlVon(q)' = AnzahlVon(q) + 1
          BY <2>4, <3>3 DEF w
        <4>2. GesamtpreisFuer(AnzahlVon(q) + 1) = GesamtpreisFuer(AnzahlVon(q)) + n
          BY <2>3, <3>1, <3>3, LadderGrows
        <4>3. GesamtpreisFuer(AnzahlVon(q))' = GesamtpreisFuer(AnzahlVon(q)) + n
          BY <3>2, <4>1, <4>2
        <4>4. Due(q) = n /\ joined'[q] = joined[q]
          BY <2>1, <2>4, <3>3
        <4> QED
          BY <1>2, <2>1, <2>2, <2>3, <4>3, <4>4
      <3>4. CASE q # w
        <4>1. GesamtpreisFuer(AnzahlVon(q))' = GesamtpreisFuer(AnzahlVon(q))
          BY <2>4, <3>2, <3>4 DEF w
        <4>2. Due(q) = 0 /\ joined'[q] = joined[q]
          BY <2>1, <2>4, <3>4
        <4> QED
          BY <2>1, <2>2, <2>3, <4>1, <4>2
      <3> QED
        BY <3>3, <3>4
    <2>5. CASE joined' = [joined EXCEPT ![w] = @ + n] /\ OwnersStay
      <3>1. GesamtpreisFuer(AnzahlVon(q))' = GesamtpreisFuer(AnzahlVon(q))
        BY <2>5, CountFacts DEF GesamtpreisFuer
      <3>2. joined'[q] = joined[q] + Due(q)
        BY <1>2, <2>1, <2>5
      <3> QED
        BY <1>2, <2>1, <2>2, <2>3, <3>1, <3>2
    <2> QED
      BY <2>1, <2>2, <2>4, <2>5 DEF w, n
  <1>7. AllAccounted'
    <2> SUFFICES ASSUME answered', NEW q \in Players
                 PROVE  /\ Spent(q)' - Due(q)' >= granted'[q]
                        /\ ~unrefunded' => Spent(q)' - Due(q)' = granted'[q]
      BY DEF AllAccounted
    <2>1. Spent(q) - Due(q) >= granted[q] /\ (~unrefunded => Spent(q) - Due(q) = granted[q])
      BY <1>1 DEF MoneyInv, AllAccounted
    <2>2. Spent(q) \in Int /\ Due(q) \in Nat /\ granted[q] \in Nat
      BY MoneyFacts
    <2> QED
      BY <1>1, <1>6, <2>1, <2>2
  <1>8. LadderIsPaid'
    <2> SUFFICES ASSUME answered', NEW q \in Players
                 PROVE  Spent(q)' - Due(q)' - joined'[q] >= GesamtpreisFuer(AnzahlVon(q))'
      BY DEF LadderIsPaid
    <2>1. Spent(q) - Due(q) - joined[q] >= GesamtpreisFuer(AnzahlVon(q))
      BY <1>1 DEF MoneyInv, LadderIsPaid
    <2>2. Spent(q) \in Int /\ Due(q) \in Nat /\ joined[q] \in Nat /\ GesamtpreisFuer(AnzahlVon(q)) \in Nat
      BY MoneyFacts
    <2> QED
      BY <1>6, <2>1, <2>2
  <1> QED
    BY <1>5, <1>7, <1>8 DEF MoneyInv

\* The command ends with or without the refund; without it that is remembered.
LEMMA MoneyReturned ==
  ASSUME MoneyInv, UNCHANGED <<rows, granted, joined>>, tat' = KeineTat, answered' => answered,
         unrefunded' \in BOOLEAN, unrefunded => unrefunded',
         \/ mark' = [mark EXCEPT ![tat.wer] = @ + tat.betrag]
         \/ mark' = mark /\ (unrefunded' \/ tat = KeineTat)
  PROVE  MoneyInv'
  <1>1. KeineTat.betrag = 0 /\ KeineTat.stufe = "keine" /\ KeineTat.wer = None
    BY DEF KeineTat
  <1>2. mark \in [Players -> Nat] /\ tat.betrag \in Nat
    BY DEF MoneyInv, MoneyTypes
  <1>3. OwnersStay
    BY DEF OwnersStay, rows
  <1>4. mark' \in [Players -> Nat] /\ \A q \in Players : mark'[q] = mark[q] + Due(q) \/ mark'[q] = mark[q]
    BY <1>2 DEF Due
  <1>5. MoneyTypes' /\ PriceFits'
    BY <1>1, <1>4 DEF MoneyInv, MoneyTypes, PriceFits
  <1>6. ASSUME NEW q \in Players
        PROVE  /\ Spent(q)' - Due(q)' \in Int /\ Spent(q)' - Due(q)' >= Spent(q) - Due(q)
               /\ ~unrefunded' => Spent(q)' - Due(q)' = Spent(q) - Due(q)
    <2>1. Due(q)' = 0
      BY <1>1, NoneFacts DEF Due
    <2>2. StartMoney[q] \in Nat /\ mark[q] \in Nat /\ Due(q) \in Nat /\ Spent(q) = StartMoney[q] - mark[q]
      BY MoneyFacts
    <2>3. Spent(q)' = StartMoney[q] - mark'[q]
      BY DEF Spent
    <2>4. ~unrefunded' => mark'[q] = mark[q] + Due(q)
      <3>1. CASE mark' = [mark EXCEPT ![tat.wer] = @ + tat.betrag]
        BY <1>2, <3>1 DEF Due
      <3>2. CASE mark' = mark /\ tat = KeineTat
        BY <1>1, <1>2, <3>2, NoneFacts DEF Due
      <3> QED
        BY <3>1, <3>2
    <2> QED
      BY <1>4, <2>1, <2>2, <2>3, <2>4
  <1>7. ASSUME answered', NEW q \in Players
        PROVE  /\ Spent(q)' - Due(q)' >= granted'[q]
               /\ ~unrefunded' => Spent(q)' - Due(q)' = granted'[q]
               /\ Spent(q)' - Due(q)' - joined'[q] >= GesamtpreisFuer(AnzahlVon(q))'
    <2>1. /\ Spent(q) - Due(q) >= granted[q] /\ (~unrefunded => Spent(q) - Due(q) = granted[q])
          /\ Spent(q) - Due(q) - joined[q] >= GesamtpreisFuer(AnzahlVon(q))
      BY <1>7 DEF MoneyInv, AllAccounted, LadderIsPaid
    <2>2. /\ Spent(q) \in Int /\ Due(q) \in Nat /\ granted[q] \in Nat /\ joined[q] \in Nat
          /\ GesamtpreisFuer(AnzahlVon(q)) \in Nat
      BY MoneyFacts
    <2>3. GesamtpreisFuer(AnzahlVon(q))' = GesamtpreisFuer(AnzahlVon(q))
      BY <1>3, CountFacts DEF GesamtpreisFuer
    <2>4. ~unrefunded' => ~unrefunded
      OBVIOUS
    <2> QED
      BY <1>6, <2>1, <2>2, <2>3, <2>4
  <1>8. AllAccounted' /\ LadderIsPaid'
    BY <1>7 DEF AllAccounted, LadderIsPaid
  <1> QED
    BY <1>5, <1>8 DEF MoneyInv

LEMMA NehmenMoney ==
  ASSUME BesitzInv, MoneyInv, NEW p \in Players, NEW f \in Plots, Nehmen(p, f)
  PROVE  MoneyInv'
  <1> DEFINE preis == PreisFuerNaechste(AnzahlVon(p))
             neu == [KeineTat EXCEPT !.stufe = "anlegen", !.wer = p, !.betrag = preis, !.felder = {f}]
  <1>1. /\ tat = KeineTat /\ answered /\ UNCHANGED <<rows, granted, joined, unrefunded>>
        /\ Abbuchen(p, preis) /\ Bezahlt(neu)
    BY DEF Nehmen, Ready
  <1>2. preis \in Nat
    BY CountFacts, PreisIsNat
  <1>3. neu.wer = p /\ neu.betrag = preis /\ neu.felder = {f}
    <2> HIDE DEF preis
    <2> QED
      BY DEF KeineTat
  <1>4. preis = PreisFuerNaechste(AnzahlVon(p)) /\ \E g \in Plots : neu.felder = {g}
    BY <1>3
  <1> HIDE DEF preis, neu
  <1> QED
    BY <1>1, <1>2, <1>3, <1>4, MoneyDebited

LEMMA ZusammenlegenMoney ==
  ASSUME BesitzInv, MoneyInv, NEW p \in Players, NEW f \in Plots, NEW g \in Plots, Zusammenlegen(p, f, g)
  PROVE  MoneyInv'
  <1> DEFINE b == Beitritt(f, g)
             gebuehr == ZusammenlegungsGebuehr(Nachher(b))
             neu == [stufe |-> "gruppe", wer |-> p, betrag |-> gebuehr, felder |-> b.felder,
                     elternId |-> b.elternId, mitbauer |-> Vereinigt(Finde(f), Finde(g))]
  <1>1. /\ tat = KeineTat /\ answered /\ UNCHANGED <<rows, granted, joined, unrefunded>>
        /\ Abbuchen(p, gebuehr) /\ Bezahlt(neu)
    BY DEF Zusammenlegen, OwnersCommand, Ready
  <1>2. gebuehr \in Nat
    <2>1. Nachher(b) \in Nat
      <3> HIDE DEF b
      <3> QED
        BY EstatesAreFinite DEF Nachher
    <2>2. JoinPrice \in Nat
      BY BesitzAssumption
    <2>3. ASSUME NEW x \in Nat, NEW y \in Nat PROVE x * y \in Nat
      BY <2>3
    <2> HIDE DEF b
    <2> QED
      BY <2>1, <2>2, <2>3 DEF ZusammenlegungsGebuehr
  <1> HIDE DEF gebuehr, b
  <1>3. neu.wer = p /\ neu.betrag = gebuehr /\ neu.stufe = "gruppe"
    OBVIOUS
  <1> HIDE DEF neu
  <1> QED
    BY <1>1, <1>2, <1>3, MoneyDebited

LEMMA AnlegenMoney ==
  ASSUME BesitzInv, MoneyInv, Anlegen
  PROVE  MoneyInv'
  <1>1. /\ tat.stufe = "anlegen" /\ joined' = joined /\ Erteilt
        /\ \A h \in tat.felder : parzelle[h] = Free
    BY DEF Anlegen
  <1>2. tat.wer \in Players
    BY <1>1 DEF BesitzInv, TatTypes
  <1>3. PICK f \in Plots : tat.felder = {f}
    BY <1>1 DEF MoneyInv, PriceFits
  <1>4. \A h \in Plots : parzelle'[h].eigentuemer = IF h = f THEN tat.wer ELSE parzelle[h].eigentuemer
    BY <1>3, AnlegenInv
  <1>5. parzelle[f].eigentuemer = None
    BY <1>1, <1>3, ParzelleFacts
  <1>6. ASSUME NEW p \in Players PROVE AnzahlVon(p)' = IF p = tat.wer THEN AnzahlVon(p) + 1 ELSE AnzahlVon(p)
    <2> DEFINE alt == {h \in Plots : parzelle[h].eigentuemer = p}
    <2>1. IsFiniteSet(alt) /\ f \notin alt
      BY <1>5, NoneFacts, EdgeFacts, FS_Subset
    <2>2. {h \in Plots : parzelle'[h].eigentuemer = p} = IF p = tat.wer THEN alt \cup {f} ELSE alt
      BY <1>4, <1>5, NoneFacts
    <2>3. AnzahlVon(p) = Cardinality(alt) /\ AnzahlVon(p)' = Cardinality(IF p = tat.wer THEN alt \cup {f} ELSE alt)
      BY <2>2 DEF AnzahlVon
    <2> HIDE DEF alt
    <2>4. Cardinality(alt \cup {f}) = Cardinality(alt) + 1
      BY <2>1, FS_AddElement
    <2> QED
      BY <2>3, <2>4
  <1> QED
    BY <1>1, <1>2, <1>6, MoneyGranted

\* A plot given up is paid for all the same: the ladder only gets shorter.
LEMMA AufgebenMoney ==
  ASSUME BesitzInv, MoneyInv, NEW p \in Players, NEW f \in Plots, Aufgeben(p, f)
  PROVE  MoneyInv'
  <1>1. /\ tat = KeineTat /\ UNCHANGED <<mark, tat, granted, joined, unrefunded>> /\ answered
        /\ parzelle' = [parzelle EXCEPT ![f] = Free]
    BY DEF Aufgeben, OwnersCommand, Ready, Schreibt
  <1>2. ASSUME NEW q \in Players
        PROVE  /\ AnzahlVon(q) \in Nat /\ AnzahlVon(q)' \in Nat /\ AnzahlVon(q)' <= AnzahlVon(q)
    <2> DEFINE alt == {h \in Plots : parzelle[h].eigentuemer = q}
               neu == {h \in Plots : parzelle'[h].eigentuemer = q}
    <2>1. \A h \in Plots : parzelle'[h] = parzelle[h] \/ parzelle'[h].eigentuemer = None
      BY AufgebenInv, ParzelleFacts
    <2>2. neu \in SUBSET alt
      BY <2>1, NoneFacts
    <2>3. alt \in SUBSET Plots
      OBVIOUS
    <2>4. AnzahlVon(q) = Cardinality(alt) /\ AnzahlVon(q)' = Cardinality(neu)
      BY DEF AnzahlVon
    <2> HIDE DEF alt, neu
    <2>5. IsFiniteSet(alt) /\ Cardinality(alt) \in Nat
      BY <2>3, EdgeFacts, FS_Subset, FS_CardinalityType
    <2>6. IsFiniteSet(neu) /\ Cardinality(neu) <= Cardinality(alt) /\ Cardinality(neu) \in Nat
      BY <2>2, <2>5, FS_Subset, FS_CardinalityType
    <2> QED
      BY <2>4, <2>5, <2>6
  <1>3. tat.stufe = "keine"
    BY <1>1 DEF KeineTat
  <1>4. MoneyTypes' /\ PriceFits'
    BY <1>1, <1>3 DEF MoneyInv, MoneyTypes, PriceFits
  <1>5. \A q \in Players : Spent(q)' = Spent(q) /\ Due(q)' = Due(q)
    BY <1>1 DEF Spent, Due
  <1>6. AllAccounted'
    BY <1>1, <1>5 DEF MoneyInv, AllAccounted
  <1>7. ASSUME NEW q \in Players PROVE Spent(q)' - Due(q)' - joined'[q] >= GesamtpreisFuer(AnzahlVon(q))'
    <2>1. GesamtpreisFuer(AnzahlVon(q))' = GesamtpreisFuer(AnzahlVon(q)')
      BY DEF GesamtpreisFuer
    <2>2. AnzahlVon(q)' \in 0..AnzahlVon(q) /\ AnzahlVon(q) \in Nat
      BY <1>2
    <2>3. GesamtpreisFuer(AnzahlVon(q)') <= GesamtpreisFuer(AnzahlVon(q)) /\ GesamtpreisFuer(AnzahlVon(q)') \in Nat
      BY <1>2, <2>2, LadderGrows
    <2>4. Spent(q) - Due(q) - joined[q] >= GesamtpreisFuer(AnzahlVon(q))
      BY <1>1 DEF MoneyInv, LadderIsPaid
    <2>5. Spent(q) \in Int /\ Due(q) \in Nat /\ joined[q] \in Nat /\ GesamtpreisFuer(AnzahlVon(q)) \in Nat
      BY MoneyFacts
    <2> QED
      BY <1>1, <1>5, <2>1, <2>3, <2>4, <2>5
  <1> QED
    BY <1>4, <1>6, <1>7 DEF MoneyInv, LadderIsPaid

LEMMA MoneyNext == BesitzInv /\ MoneyInv /\ [Next]_vars => MoneyInv'
  <1> SUFFICES ASSUME BesitzInv, MoneyInv, [Next]_vars PROVE MoneyInv'
    OBVIOUS
  <1> DEFINE Quiet == UNCHANGED <<mark, tat, granted, joined, unrefunded>> /\ (answered' => answered)
  <1>a. Ready /\ Schreibt => Quiet
    BY DEF Ready, Schreibt
  <1>b. rows' = rows => OwnersStay
    BY DEF OwnersStay, rows
  <1>c. Quiet /\ OwnersStay => MoneyInv'
    BY MoneyUntouched
  <1>1. ASSUME NEW p \in Players, NEW f \in Plots, Nehmen(p, f) PROVE MoneyInv'
    BY <1>1, NehmenMoney
  <1>2. ASSUME NEW p \in Players, NEW f \in Plots, Auftrennen(p, f) PROVE MoneyInv'
    <2>1. Ready /\ Schreibt /\ OwnersStay
      BY <1>2, AuftrennenInv DEF Auftrennen, OwnersCommand
    <2> HIDE DEF Quiet
    <2> QED
      BY <1>a, <1>c, <2>1
  <1>3. ASSUME NEW p \in Players, NEW f \in Plots, Herausloesen(p, f) PROVE MoneyInv'
    <2>1. Ready /\ Schreibt /\ OwnersStay
      BY <1>3, HerausloesenInv DEF Herausloesen, OwnersCommand
    <2> HIDE DEF Quiet
    <2> QED
      BY <1>a, <1>c, <2>1
  <1>4. ASSUME NEW p \in Players, NEW f \in Plots, Aufgeben(p, f) PROVE MoneyInv'
    BY <1>4, AufgebenMoney
  <1>5. ASSUME NEW p \in Players, NEW f \in Plots, NEW q \in Players,
               MitbauerHinzufuegen(p, f, q) \/ MitbauerEntfernen(p, f, q)
        PROVE  MoneyInv'
    <2>1. Ready /\ Schreibt /\ OwnersStay
      BY <1>5, HinzufuegenInv, EntfernenInv DEF MitbauerHinzufuegen, MitbauerEntfernen, OwnersCommand
    <2> HIDE DEF Quiet
    <2> QED
      BY <1>a, <1>c, <2>1
  <1>6. ASSUME NEW p \in Players, NEW f \in Plots, NEW g \in Plots, Zusammenlegen(p, f, g) PROVE MoneyInv'
    BY <1>6, ZusammenlegenMoney
  <1>7. ASSUME NEW f \in Plots, Nachsehen(f) \/ Verfall(f) PROVE MoneyInv'
    <2>1. Quiet /\ rows' = rows
      BY <1>7 DEF Nachsehen, Verfall, ghost
    <2> HIDE DEF Quiet
    <2> QED
      BY <1>b, <1>c, <2>1
  <1>8. CASE Anlegen
    BY <1>8, AnlegenMoney
  <1>9. CASE GruppeSetzen
    <2>1. /\ tat.stufe = "gruppe" /\ Erteilt
          /\ joined' = [joined EXCEPT ![tat.wer] = @ + tat.betrag]
      BY <1>9 DEF GruppeSetzen
    <2>2. tat.wer \in Players
      BY <2>1 DEF BesitzInv, TatTypes
    <2> QED
      BY <1>9, <2>1, <2>2, GruppeInv, MoneyGranted
  <1>10. CASE Verweigert
    <2>1. tat' = [tat EXCEPT !.stufe = "erstatten"] /\ UNCHANGED <<rows, mark, granted, joined, unrefunded, answered>>
      BY <1>10 DEF Verweigert, Fehlgeschlagen, ghost
    <2>2. tat'.wer = tat.wer /\ tat'.betrag = tat.betrag /\ tat'.stufe # "anlegen"
      <3>1. tat' = [stufe |-> "erstatten", wer |-> tat.wer, betrag |-> tat.betrag, felder |-> tat.felder,
                    elternId |-> tat.elternId, mitbauer |-> tat.mitbauer]
        BY <2>1 DEF BesitzInv, TatTypes
      <3> QED
        BY <3>1
    <2>3. \A q \in Players : /\ Spent(q)' = Spent(q) /\ Due(q)' = Due(q)
                             /\ GesamtpreisFuer(AnzahlVon(q))' = GesamtpreisFuer(AnzahlVon(q))
      BY <1>b, <2>1, <2>2, CountFacts DEF Spent, Due, GesamtpreisFuer
    <2>4. MoneyTypes' /\ PriceFits'
      BY <2>1, <2>2 DEF MoneyInv, MoneyTypes, PriceFits
    <2> QED
      BY <2>1, <2>3, <2>4 DEF MoneyInv, AllAccounted, LadderIsPaid
  <1>11. CASE Gutschreiben
    <2>1. /\ UNCHANGED <<rows, granted, joined>> /\ tat' = KeineTat
          /\ \/ mark' = [mark EXCEPT ![tat.wer] = @ + tat.betrag] /\ unrefunded' = unrefunded
             \/ mark' = mark /\ unrefunded' = TRUE
      BY <1>11, Zenon DEF Gutschreiben
    <2>2. answered' = answered \/ answered' = FALSE
      BY <1>11, Zenon DEF Gutschreiben, Unanswered
    <2>3. answered' => answered
      BY <2>2, Zenon
    <2>4. unrefunded' \in BOOLEAN /\ (unrefunded => unrefunded')
      <3>1. unrefunded \in BOOLEAN
        BY DEF MoneyInv, MoneyTypes
      <3>2. CASE unrefunded' = unrefunded
        BY <3>1, <3>2
      <3>3. CASE unrefunded' = TRUE
        BY <3>3
      <3> QED
        BY <2>1, <3>2, <3>3
    <2>5. \/ mark' = [mark EXCEPT ![tat.wer] = @ + tat.betrag]
          \/ mark' = mark /\ (unrefunded' \/ tat = KeineTat)
      BY <2>1, Zenon
    <2> QED
      BY <2>1, <2>3, <2>4, <2>5, MoneyReturned, Zenon
  <1>12. CASE Absturz
    <2>1. /\ UNCHANGED <<rows, mark, granted, joined, answered>> /\ tat' = KeineTat
          /\ unrefunded' = (unrefunded \/ tat # KeineTat)
      BY <1>12 DEF Absturz
    <2>2. unrefunded \in BOOLEAN
      BY DEF MoneyInv, MoneyTypes
    <2>3. unrefunded' \in BOOLEAN /\ (unrefunded => unrefunded') /\ (unrefunded' \/ tat = KeineTat)
      BY <2>1, <2>2
    <2> QED
      BY <2>1, <2>3, MoneyReturned
  <1>13. CASE UNCHANGED vars
    <2>1. Quiet /\ rows' = rows
      BY <1>13 DEF vars, ghost
    <2> HIDE DEF Quiet
    <2> QED
      BY <1>b, <1>c, <2>1
  <1> QED
    BY <1>1, <1>2, <1>3, <1>4, <1>5, <1>6, <1>7, <1>8, <1>9, <1>10, <1>11, <1>12, <1>13 DEF Next, Tut
-----------------------------------------------------------------------------
LEMMA InvariantOfPossession == Spec => []BesitzInv
  BY InitInv, NextInv, PTL DEF Spec

LEMMA ShapeOfEstates == Spec => []ShapeInv
  BY ShapeInit, ShapeNext, InvariantOfPossession, PTL DEF Spec

LEMMA InvariantOfMoney == Spec => []MoneyInv
  BY MoneyInit, MoneyNext, InvariantOfPossession, PTL DEF Spec

\* The rows, the command under way and the accounts keep their types: no account is ever
\* overdrawn (abbuchen), no price is negative (HOECHSTER_GRUNDPREIS).
THEOREM BesitzTypesHold == Spec => []TypeOK
  <1>1. BesitzInv /\ MoneyInv => TypeOK
    <2> SUFFICES ASSUME BesitzInv, MoneyInv PROVE TypeOK
      OBVIOUS
    <2>1. tat \in Tat
      BY DEF BesitzInv, TatTypes, Kinds, MoneyInv, MoneyTypes, Tat
    <2> QED
      BY <2>1 DEF BesitzInv, RowTypes, MoneyInv, MoneyTypes, TypeOK
  <1> QED
    BY <1>1, InvariantOfPossession, InvariantOfMoney, PTL

\* Between two commands what a player has spent is what he was granted (nehmen,
\* zusammenlegenWeg and their refunds), and what he holds has cost him at least what the
\* ladder asks for so many plots, the fees for joining apart (aufgeben).
THEOREM MoneyAlwaysMatches == Spec => []MoneyMatchesPlots
  <1>1. MoneyInv => PaidIsGranted
    <2> SUFFICES ASSUME MoneyInv, answered, tat = KeineTat, NEW p \in Players
                 PROVE  Spent(p) >= granted[p] /\ (~unrefunded => Spent(p) = granted[p])
      BY DEF PaidIsGranted
    <2>1. Due(p) = 0
      BY NoneFacts DEF Due, KeineTat
    <2>2. Spent(p) - Due(p) >= granted[p] /\ (~unrefunded => Spent(p) - Due(p) = granted[p])
      BY DEF MoneyInv, AllAccounted
    <2>3. Spent(p) \in Int /\ granted[p] \in Nat
      BY MoneyFacts
    <2> QED
      BY <2>1, <2>2, <2>3
  <1>2. MoneyInv => HeldIsPaid
    <2> SUFFICES ASSUME MoneyInv, answered, NEW p \in Players
                 PROVE  Spent(p) - joined[p] >= GesamtpreisFuer(AnzahlVon(p))
      BY DEF HeldIsPaid
    <2>1. Spent(p) - Due(p) - joined[p] >= GesamtpreisFuer(AnzahlVon(p))
      BY DEF MoneyInv, LadderIsPaid
    <2>2. /\ Spent(p) \in Int /\ Due(p) \in Nat /\ joined[p] \in Nat /\ GesamtpreisFuer(AnzahlVon(p)) \in Nat
      BY MoneyFacts
    <2> QED
      BY <2>1, <2>2
  <1> QED
    BY <1>1, <1>2, InvariantOfMoney, PTL DEF MoneyMatchesPlots

\* ZwischenspeicherLager shows what the database holds, whichever way a command ends, as long
\* as every answer arrived.
THEOREM CacheStaysTrue == Spec => []CacheIsTrue
  <1>1. BesitzInv => CacheIsTrue
    BY DEF BesitzInv
  <1> QED
    BY <1>1, InvariantOfPossession, PTL

\* In whatever order cells join, leave, are parted and given up, the cells of an estate have
\* one owner and the builders written at the estate (gruppeSetzen), they are in one piece, and
\* there are two of them at least (herausloesen).
THEOREM EstatesAlwaysWhole == Spec => []EstatesAreWhole
  <1>1. BesitzInv /\ ShapeInv => EstatesAreWhole
    BY DEF BesitzInv, ShapeInv, EstatesAreWhole
  <1> QED
    BY <1>1, InvariantOfPossession, ShapeOfEstates, PTL

\* No joining, parting or giving up of other cells takes a builder his right: only the owner's
\* command that names him does (schreibeMitbauerDurch).
THEOREM RightsAreKept == Spec => BuildersKeepTheirRight
  <1>1. BesitzInv /\ [Next]_vars => [RightsStay]_vars
    BY NextInv
  <1>2. Spec => [][RightsStay]_vars
    BY <1>1, InvariantOfPossession, PTL DEF Spec
  <1> QED
    BY <1>2 DEF BuildersKeepTheirRight, RightsStay

=============================================================================
