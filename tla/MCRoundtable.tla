----------------------------- MODULE MCRoundtable -----------------------------
(* Roundtable for TLC: the teams, ceilings and answers of small instances.  *)
EXTENDS Roundtable

CONSTANTS m1, m2, x, y, pm, arch, dev

\* Two meetings on two topics, of two members that say little.
MCTopicOf == (m1 :> x) @@ (m2 :> y)
MCTeamOf == (x :> {pm, dev}) @@ (y :> {pm, dev})
MCRoundsOf == (x :> 2) @@ (y :> 2)
MCSpeechesOf == (pm :> {<<"neutral", 50>>}) @@ (dev :> {<<"neutral", 50>>})
Symmetry == Permutations({pm, dev})

\* One meeting of three.  One member adds to what is proposed or opposes it, so
\* that two that agree just carry it.
RoundsTopicOf == m1 :> x
RoundsTeamOf == x :> {pm, arch, dev}
RoundsRoundsOf == x :> 3
RoundsSpeechesOf ==
  (pm :> {<<"agree", 90>>, <<"agree", 40>>}) @@ (dev :> {<<"agree", 90>>, <<"agree", 40>>})
    @@ (arch :> {<<"supplement", 50>>, <<"oppose", 80>>})
===============================================================================
