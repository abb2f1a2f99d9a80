------------------------------ MODULE Besitzbuch ------------------------------
(***************************************************************************)
(* Freimarken, the plugin of the city server: who owns which plot, which   *)
(* plots are joined to one estate, who else may build there, and what was  *)
(* paid for it.  Besitzbuch decides by what ZwischenspeicherLager, a cache *)
(* in front of the database, shows it; it pays in one transaction and      *)
(* writes the possession in another.  All commands run in the main thread  *)
(* of the server: between their steps there are only failures of the       *)
(* database, lost answers and the end of the server.                       *)
(***************************************************************************)
EXTENDS Integers, FiniteSets

CONSTANTS
  Players,       (* who takes plots and builds                              *)
  Plots,         (* the cells of the grid inside the city                   *)
  Neighbours,    (* pairs of cells with a common edge, both ways            *)
  Estates,       (* numbers of estates (rows of art 'gruppe')               *)
  None,          (* no owner, no estate, nothing looked up                  *)
  StartMoney,    (* what each player has: startguthaben and his earnings    *)
  GroundPrice,   (* grundpreis                                              *)
  MaxVerdopplungen, (* MAX_VERDOPPLUNGEN, after which prices stay           *)
  JoinPrice,     (* zusammenlegungJeFeld                                    *)
  MaxPlots,      (* hoechstzahl of the player's rank                        *)
  MaxFields,     (* hoechsteFelder of the player's rank                     *)
  Faults         (* what may go wrong, a subset of FaultKinds               *)

FaultKinds == {"refused", "no_answer", "crash"}

ASSUME BesitzAssumption ==
  /\ None \notin Players \cup Plots \cup Estates
  /\ IsFiniteSet(Plots)
  /\ Neighbours \subseteq Plots \X Plots
  /\ \A f, g \in Plots : <<f, g>> \in Neighbours => f # g /\ <<g, f>> \in Neighbours
  /\ StartMoney \in [Players -> Nat]
  /\ {GroundPrice, MaxVerdopplungen, JoinPrice, MaxPlots, MaxFields} \subseteq Nat
  /\ \A k \in 0..MaxVerdopplungen : GroundPrice * 2^k \in Nat   \* HOECHSTER_GRUNDPREIS
  /\ Faults \subseteq FaultKinds

VARIABLES
  parzelle,   (* the row of each cell, see Parzelle                         *)
  mitbauer,   (* the builders written at each estate's own row              *)
  mark,       (* kassen.mark of each player, opened when he first joined    *)
  cache,      (* what ZwischenspeicherLager holds: a row, or None           *)
  tat,        (* the paid command under way, see Tat                        *)
  granted,    (* what the plots and estates a player ever got were worth    *)
  joined,     (* the part of it that was for joining plots                  *)
  unrefunded, (* a refund failed, or the server ended before it             *)
  answered    (* no answer of the database was lost                         *)

rows  == <<parzelle, mitbauer>>
ghost == <<granted, joined, unrefunded, answered>>
vars  == <<rows, mark, cache, tat, ghost>>

(* A cell that is free has no owner; elternId is the estate it belongs to. *)
Parzelle == [eigentuemer : Players \cup {None}, mitbauer : SUBSET Players,
             elternId : Estates \cup {None}]
Free == [eigentuemer |-> None, mitbauer |-> {}, elternId |-> None]

Tat == [stufe : {"keine", "anlegen", "gruppe", "erstatten"},
        wer : Players \cup {None}, betrag : Nat, felder : SUBSET Plots,
        elternId : Estates \cup {None}, mitbauer : SUBSET Players]
KeineTat == [stufe |-> "keine", wer |-> None, betrag |-> 0, felder |-> {},
             elternId |-> None, mitbauer |-> {}]

TypeOK ==
  /\ parzelle \in [Plots -> Parzelle]
  /\ mitbauer \in [Estates -> SUBSET Players]
  /\ mark \in [Players -> Nat]
  /\ cache \in [Plots -> Parzelle \cup {None}]
  /\ tat \in Tat
  /\ granted \in [Players -> Nat]
  /\ joined \in [Players -> Nat]
  /\ unrefunded \in BOOLEAN
  /\ answered \in BOOLEAN

Nothing == [f \in Plots |-> None]

Init ==
  /\ parzelle = [f \in Plots |-> Free]
  /\ mitbauer = [e \in Estates |-> {}]
  /\ mark = StartMoney
  /\ cache = Nothing
  /\ tat = KeineTat
  /\ granted = [p \in Players |-> 0]
  /\ joined = [p \in Players |-> 0]
  /\ unrefunded = FALSE
  /\ answered = TRUE
-----------------------------------------------------------------------------
(* Reading                                                                 *)

\* finde: what the cache holds, else the row of the database.
Finde(f) == IF cache[f] = None THEN parzelle[f] ELSE cache[f]

\* Mutant of AnzahlVon: forgets the cells of an estate.
AnzahlLoser(p) == Cardinality({f \in Plots : parzelle[f].eigentuemer = p
                                             /\ parzelle[f].elternId = None})

\* anzahlVon and kinderVon pass the cache by.
AnzahlVon(p) == Cardinality({f \in Plots : parzelle[f].eigentuemer = p})
KinderVon(e) == {f \in Plots : parzelle[f].elternId = e}

\* The first plot is free, every further one costs twice the one before, up to a cap.
Verdopplungen(n) == IF n - 1 <= MaxVerdopplungen THEN n - 1 ELSE MaxVerdopplungen
PreisFuerNaechste(n) == IF n = 0 THEN 0 ELSE GroundPrice * 2^Verdopplungen(n)
ZusammenlegungsGebuehr(n) == JoinPrice * n

\* haengtZusammen: the cells a search over edges reaches from one of them are
\* those of every part that holds it and has no edge that leads out.
Geschlossen(teil, felder) ==
  \A f \in teil, g \in felder : <<f, g>> \in Neighbours => g \in teil
Erreicht(felder, start) ==
  {g \in felder : \A teil \in SUBSET felder :
                    start \in teil /\ Geschlossen(teil, felder) => g \in teil}

HaengtZusammen(felder) ==
  Cardinality(felder) <= 1 \/ Erreicht(felder, CHOOSE f \in felder : TRUE) = felder
-----------------------------------------------------------------------------
(* The server is at a new command, as long as every answer has arrived.    *)
Ready == tat = KeineTat /\ answered

\* The command of the owner of the cell he stands on (hindernis).
OwnersCommand(p, f) == Ready /\ Finde(f).eigentuemer = p

\* Mutant of Leeren: keeps what it holds of the cells of estates.
LeerenOhneVerbund ==
  cache' = [f \in Plots |-> IF parzelle'[f].elternId # None THEN cache[f] ELSE None]

\* leeren: every write empties the whole cache.
Leeren == cache' = Nothing

\* The answer to a committed transaction is lost (socketTimeout).
Unanswered == "no_answer" \in Faults /\ answered' = FALSE

(* One transaction at the store.  It may be refused: nothing has happened. *)
(* Or it is committed and its answer is lost: then the exception leaves    *)
(* before the cache is emptied.                                            *)
Written ==
  \/ Leeren /\ UNCHANGED answered
  \/ Unanswered /\ UNCHANGED cache

\* A block is built or broken (darfBauen), or a command looks and refuses.
Nachsehen(f) ==
  /\ Ready
  /\ cache' = [cache EXCEPT ![f] = Finde(f)]
  /\ UNCHANGED <<rows, mark, tat, ghost>>

Verfall(f) ==
  /\ cache[f] # None
  /\ cache' = [cache EXCEPT ![f] = None]
  /\ UNCHANGED <<rows, mark, tat, ghost>>
-----------------------------------------------------------------------------
(* Paid commands: abbuchen, then the write, then perhaps the refund.       *)

\* abbuchen: all of it, if it is covered, or nothing.
Abbuchen(p, betrag) ==
  /\ mark[p] >= betrag
  /\ mark' = [mark EXCEPT ![p] = @ - betrag]

\* The command goes on, or the answer to the debit is lost.
Bezahlt(naechste) ==
  \/ tat' = naechste /\ UNCHANGED answered
  \/ Unanswered /\ UNCHANGED tat

Nehmen(p, f) ==
  /\ Ready
  /\ Finde(f) = Free
  /\ AnzahlVon(p) < MaxPlots
  /\ LET preis == PreisFuerNaechste(AnzahlVon(p))
     IN  /\ Abbuchen(p, preis)
         /\ Bezahlt([KeineTat EXCEPT !.stufe = "anlegen", !.wer = p, !.betrag = preis,
                                     !.felder = {f}])
  /\ cache' = [cache EXCEPT ![f] = Finde(f)]
  /\ UNCHANGED <<rows, granted, joined, unrefunded>>

\* Mutant of Vereinigt: the builders of the cell he stands on.
NurDesErsten(a, b) == a.mitbauer
Vereinigt(a, b) == a.mitbauer \cup b.mitbauer

\* Which of the two is the estate, if any, and which cells join it.
Beitritt(f, g) ==
  LET a == Finde(f)  b == Finde(g)
  IN CASE a.elternId # None -> [elternId |-> a.elternId, felder |-> {g}]
       [] a.elternId = None /\ b.elternId # None -> [elternId |-> b.elternId, felder |-> {f}]
       [] OTHER -> [elternId |-> None, felder |-> {f, g}]

Nachher(beitritt) ==
  IF beitritt.elternId = None THEN 2 ELSE Cardinality(KinderVon(beitritt.elternId)) + 1

Zusammenlegen(p, f, g) ==
  /\ OwnersCommand(p, f)
  /\ <<f, g>> \in Neighbours
  /\ Finde(g).eigentuemer = p
  /\ ~(Finde(f).elternId # None /\ Finde(g).elternId # None)
  /\ LET beitritt == Beitritt(f, g)
         gebuehr  == ZusammenlegungsGebuehr(Nachher(beitritt))
     IN  /\ Nachher(beitritt) <= MaxFields
         /\ Abbuchen(p, gebuehr)
         /\ Bezahlt([stufe |-> "gruppe", wer |-> p, betrag |-> gebuehr,
                     felder |-> beitritt.felder, elternId |-> beitritt.elternId,
                     mitbauer |-> Vereinigt(Finde(f), Finde(g))])
  /\ cache' = [cache EXCEPT ![f] = Finde(f), ![g] = Finde(g)]
  /\ UNCHANGED <<rows, granted, joined, unrefunded>>

\* What follows the write: it is done, or its answer is lost and the command
\* goes on as if it had failed.
Erteilt ==
  /\ granted' = [granted EXCEPT ![tat.wer] = @ + tat.betrag]
  /\ Written
  /\ tat' = IF answered' THEN KeineTat ELSE [tat EXCEPT !.stufe = "erstatten"]
  /\ UNCHANGED <<mark, unrefunded>>

Fehlgeschlagen ==
  /\ tat' = [tat EXCEPT !.stufe = "erstatten"]
  /\ UNCHANGED <<rows, mark, cache, ghost>>

\* anlegen: one INSERT under the unique key of the place.
Anlegen ==
  /\ tat.stufe = "anlegen"
  /\ \A f \in tat.felder : parzelle[f] = Free
  /\ parzelle' = [f \in Plots |-> IF f \in tat.felder
                                  THEN [Free EXCEPT !.eigentuemer = tat.wer] ELSE parzelle[f]]
  /\ UNCHANGED <<mitbauer, joined>>
  /\ Erteilt

\* schreibeMitbauerDurch: the estate and all its cells get the same list.
Durchgeschrieben(alt, e, liste) ==
  [f \in Plots |-> IF alt[f].elternId = e THEN [alt[f] EXCEPT !.mitbauer = liste] ELSE alt[f]]

\* gruppeSetzen: a new estate or an old one, the cells (his, and loose), the
\* builders of all.
GruppeSetzen ==
  /\ tat.stufe = "gruppe"
  /\ \A f \in tat.felder : parzelle[f].eigentuemer = tat.wer /\ parzelle[f].elternId = None
  /\ \E e \in Estates :
       /\ IF tat.elternId = None THEN KinderVon(e) = {} ELSE e = tat.elternId
       /\ mitbauer' = [mitbauer EXCEPT ![e] = tat.mitbauer]
       /\ parzelle' = Durchgeschrieben(
            [f \in Plots |-> IF f \in tat.felder THEN [parzelle[f] EXCEPT !.elternId = e]
                             ELSE parzelle[f]], e, tat.mitbauer)
  /\ joined' = [joined EXCEPT ![tat.wer] = @ + tat.betrag]
  /\ Erteilt

Verweigert ==
  /\ tat.stufe \in {"anlegen", "gruppe"}
  /\ "refused" \in Faults
  /\ Fehlgeschlagen

\* Mutant of Gutschreiben: an exception leaves without the refund.
OhneGegenbuchung ==
  /\ tat.stufe = "erstatten"
  /\ tat' = KeineTat
  /\ UNCHANGED <<rows, mark, cache, ghost>>

\* The refund, which the database may refuse too.
Gutschreiben ==
  /\ tat.stufe = "erstatten"
  /\ \/ /\ mark' = [mark EXCEPT ![tat.wer] = @ + tat.betrag]
        /\ UNCHANGED unrefunded
        /\ UNCHANGED answered \/ Unanswered
     \/ "refused" \in Faults /\ unrefunded' = TRUE /\ UNCHANGED <<mark, answered>>
  /\ tat' = KeineTat
  /\ UNCHANGED <<rows, cache, granted, joined>>
-----------------------------------------------------------------------------
(* Commands that cost nothing                                              *)

Schreibt == UNCHANGED <<mark, tat, granted, joined, unrefunded>> /\ Written

\* auftrennen: the cells are loose again, the estate's row goes.
Loese(e) ==
  /\ parzelle' = [f \in Plots |-> IF parzelle[f].elternId = e
                                  THEN [parzelle[f] EXCEPT !.elternId = None] ELSE parzelle[f]]
  /\ mitbauer' = [mitbauer EXCEPT ![e] = {}]

Auftrennen(p, f) ==
  /\ OwnersCommand(p, f)
  /\ Finde(f).elternId # None
  /\ Loese(Finde(f).elternId)
  /\ Schreibt

\* Mutants of the two conditions of herausloesen.
LoestAuchAusZweien(felder) == Cardinality(felder) > 1
BleibtImmerGanz(felder, f) == TRUE

LoestEinzeln(felder) == Cardinality(felder) > 2
BleibtGanzOhne(felder, f) == HaengtZusammen(felder \ {f})

Herausloesen(p, f) ==
  /\ OwnersCommand(p, f)
  /\ Finde(f).elternId # None
  /\ LET felder == KinderVon(Finde(f).elternId)
     IN \/ /\ LoestEinzeln(felder)
           /\ BleibtGanzOhne(felder, f)
           /\ parzelle' = [parzelle EXCEPT ![f].elternId = None]
           /\ UNCHANGED mitbauer
        \/ /\ ~LoestEinzeln(felder)
           /\ Loese(Finde(f).elternId)
  /\ Schreibt

\* Mutant of MitbauerSetzen: writes the row of the cell he stands on.
MitbauerAmFeld(f, liste) ==
  /\ parzelle' = [parzelle EXCEPT ![f].mitbauer = liste]
  /\ UNCHANGED mitbauer

\* mitbauerSetzen at the estate, if the cell is in one (schreibZiel), else at
\* the cell.
MitbauerSetzen(f, liste) ==
  LET e == Finde(f).elternId
  IN IF e = None
     THEN parzelle' = [parzelle EXCEPT ![f].mitbauer = liste] /\ UNCHANGED mitbauer
     ELSE /\ mitbauer' = [mitbauer EXCEPT ![e] = liste]
          /\ parzelle' = Durchgeschrieben(parzelle, e, liste)

MitbauerHinzufuegen(p, f, q) ==
  /\ OwnersCommand(p, f)
  /\ q \notin Finde(f).mitbauer \cup {p}
  /\ MitbauerSetzen(f, Finde(f).mitbauer \cup {q})
  /\ Schreibt

MitbauerEntfernen(p, f, q) ==
  /\ OwnersCommand(p, f)
  /\ q \in Finde(f).mitbauer
  /\ MitbauerSetzen(f, Finde(f).mitbauer \ {q})
  /\ Schreibt

\* aufgeben: not a cell of an estate, and without money back.
Aufgeben(p, f) ==
  /\ OwnersCommand(p, f)
  /\ Finde(f).elternId = None
  /\ parzelle' = [parzelle EXCEPT ![f] = Free]
  /\ UNCHANGED mitbauer
  /\ Schreibt
-----------------------------------------------------------------------------
\* The server is killed, or loses its power, and comes back.
Absturz ==
  /\ "crash" \in Faults
  /\ UNCHANGED <<rows, mark, granted, joined, answered>>
  /\ unrefunded' = (unrefunded \/ tat # KeineTat)
  /\ tat' = KeineTat
  /\ Leeren

Tut(p) ==
  \E f \in Plots :
    \/ Nehmen(p, f) \/ Auftrennen(p, f) \/ Herausloesen(p, f) \/ Aufgeben(p, f)
    \/ \E g \in Plots : Zusammenlegen(p, f, g)
    \/ \E q \in Players : MitbauerHinzufuegen(p, f, q) \/ MitbauerEntfernen(p, f, q)

Next ==
  \/ \E p \in Players : Tut(p)
  \/ \E f \in Plots : Nachsehen(f) \/ Verfall(f)
  \/ Anlegen \/ GruppeSetzen \/ Verweigert \/ Gutschreiben
  \/ Absturz

Spec == Init /\ [][Next]_vars
-----------------------------------------------------------------------------
(* Properties                                                              *)

Spent(p) == StartMoney[p] - mark[p]

\* What n plots cost, counted Mark by Mark over the steps of the ladder.
GesamtpreisFuer(n) ==
  Cardinality(UNION {{i} \X (1..PreisFuerNaechste(i)) : i \in 0..(n - 1)})

(* Nobody gets possession he has not paid for, and nobody pays for nothing *)
(* (the refund in nehmen and zusammenlegen): between two commands what a   *)
(* player has spent is what he was ever granted.  More only if the server  *)
(* or the database failed at the refund itself, and as long as no answer   *)
(* of the database was lost.                                               *)
PaidIsGranted ==
  answered /\ tat = KeineTat =>
    \A p \in Players : /\ Spent(p) >= granted[p]
                       /\ ~unrefunded => Spent(p) = granted[p]

(* Buying and giving up is no way around the ladder of prices (comment at  *)
(* aufgeben): whatever the order of his commands, a player has paid for n  *)
(* plots at least what n plots cost, the fees for joining them apart.      *)
HeldIsPaid ==
  answered => \A p \in Players : Spent(p) - joined[p] >= GesamtpreisFuer(AnzahlVon(p))

(* Every cell of an estate carries the estate's owner and builders, so the *)
(* one look of darfBauen is right wherever one stands on it.               *)
EstatesUniform ==
  \A e \in Estates : \A f, g \in KinderVon(e) :
    /\ parzelle[f].eigentuemer = parzelle[g].eigentuemer /\ parzelle[f].eigentuemer # None
    /\ parzelle[f].mitbauer = mitbauer[e]

(* An estate is one piece (HAELT_ZUSAMMEN): the seams between its cells    *)
(* are building land and belong to it.                                     *)
EstatesInOnePiece == \A e \in Estates : HaengtZusammen(KinderVon(e))

(* "eine Gruppe aus einem Feld gibt es nicht" (herausloesen), whatever the *)
(* order in which cells join, leave and are given up.                      *)
EstatesHaveTwo == \A e \in Estates : Cardinality(KinderVon(e)) # 1

(* An estate is what the map, the protection and the prices take it for,   *)
(* whatever the order of joining, leaving and giving up.                   *)
EstatesAreWhole == EstatesUniform /\ EstatesInOnePiece /\ EstatesHaveTwo

(* What was paid, what was granted and what is held agree.                 *)
MoneyMatchesPlots == PaidIsGranted /\ HeldIsPaid

(* The cache shows the database: every write empties it, whichever way the *)
(* command that made it ends.                                              *)
CacheIsTrue == answered => \A f \in Plots : cache[f] \in {None, parzelle[f]}

(* Joining, parting and giving up other cells takes no builder his right   *)
(* ("stiller Rechteverlust"): only a command of the owner that names him,  *)
(* or that gives the cell up, does.                                        *)
BuildersKeepTheirRight ==
  [][\A f \in Plots, q \in Players :
       q \in parzelle[f].mitbauer /\ parzelle'[f] # Free /\ q \notin parzelle'[f].mitbauer
         => \E p \in Players, g \in Plots : MitbauerEntfernen(p, g, q)]_vars

(* "Keine Geldbewegung, die eine Gruppe verschenkt" (the comment in        *)
(* zusammenlegenWeg calls it the worse end): no plot and money back, also  *)
(* when an answer is lost.                                                 *)
NeverGivenAway == \A p \in Players : Spent(p) >= granted[p]
=============================================================================
