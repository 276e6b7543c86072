------------------------------ MODULE MCIngest ------------------------------
(***************************************************************************)
(* What an ingest is made of, one subject a behaviour: the store of one    *)
(* process, the fetch of prices, the vintages of MACRO, and the commands   *)
(* with the thesis panel that reads what they publish.                     *)
(***************************************************************************)
EXTENDS SilverStore, PriceFetch, MacroVintages, IngestPanel

CONSTANTS qqq, soxx, vixcls, indpro

VARIABLE subject

MCListed == (qqq :> 0 @@ soxx :> 1)
MCRequests == {<<qqq>>, <<soxx, qqq>>}
MCLag == (vixcls :> 1)

\* day 3 is a holiday: what is dated on it is published after the next session
Unrevised == (0 :> {1} @@ 1 :> {2} @@ 2 :> {4} @@ 3 :> {5})
Revised == {(0 :> a @@ 1 :> b) : a \in {{1}, {2, 5}}, b \in {{3}, {3, 4}, {5, 6}}}
MCArchives == {(vixcls :> Unrevised @@ indpro :> f) : f \in Revised}

PricesRest == PriceInit
MacroRests == MacroInit /\ today = Min(MacroDay) /\ archive = CHOOSE a \in Archives : TRUE
PanelRests == PanelInit /\ date = Min(FirstDates) /\ prices = [t \in PanelTickers |-> {}]
              /\ macroOf = [d \in {"fx", "cpi"} |-> {}]

IngestInit ==
  \/ subject = "store" /\ Init /\ PricesRest /\ MacroRests /\ PanelRests
  \/ subject = "prices" /\ Init /\ PriceInit /\ MacroRests /\ PanelRests
  \/ subject = "macro" /\ Init /\ PricesRest /\ MacroInit /\ PanelRests
  \/ subject = "panel" /\ Init /\ PricesRest /\ MacroRests /\ PanelInit
IngestNext ==
  /\ UNCHANGED subject
  /\ \/ subject = "store" /\ Next /\ UNCHANGED <<priceVars, macroVars, panelVars>>
     \/ subject = "prices" /\ PriceNext /\ UNCHANGED <<vars, macroVars, panelVars>>
     \/ subject = "macro" /\ MacroNext /\ UNCHANGED <<vars, priceVars, panelVars>>
     \/ subject = "panel" /\ PanelNext /\ UNCHANGED <<vars, priceVars, macroVars>>
IngestSpec == IngestInit /\ [][IngestNext]_<<subject, vars, priceVars, macroVars, panelVars>>

\* The gate keeps the vendor's pace, no decision sees a macro value early, a
\* command's exit tells the truth and a thesis run is backed by its panel.
IngestSound == GateKeepsPace /\ MacroPointInTime /\ ExitTellsTruth /\ WaveBacked

\* What a step of an ingest may do: a publication covers its request, a
\* backfill only extends, and growing data never move the panel back.
IngestSteps == PublishCovers /\ BackfillExtends /\ PanelAdvances
=============================================================================
