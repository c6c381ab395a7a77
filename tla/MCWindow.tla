-------------------------------- MODULE MCWindow --------------------------------
EXTENDS Window, PageWork

(* Three commands: two with a common word, one without; what is typed may match
   two, one or none of them. *)
MCLabel == <<<<"n", "e", "w", " ", "t">>, <<"t", "e", "n">>, <<"w">>>>
MCLetter == {"e", "t", "w", "z"}

(* Pages share a word, two words share a bucket, one page has no words; two pages
   have the same words, once and three times. *)
MCPage == {<<>>, <<"cake", "recipe">>, <<"cake", "recipe", "cake", "recipe", "cake", "recipe">>,
           <<"cake", "cake", "rust">>, <<"language">>}
MCBucketOf == [w \in {"cake", "recipe", "rust", "language"} |->
  CASE w = "cake" -> 1 [] w = "recipe" -> 2 [] OTHER -> 3]

(* Scores of rounded unit vectors: the same words three times have another one
   than once, as in f32, where they differ in the last place. *)
Unit(v) == CASE v = <<1, 1, 0>> -> <<70, 70, 0>> [] v = <<3, 3, 0>> -> <<71, 71, 0>>
             [] v = <<2, 0, 1>> -> <<89, 0, 45>> [] v = <<0, 0, 1>> -> <<0, 0, 100>>
             [] v = <<0, 0, 0>> -> <<0, 0, 0>>
Embeddings == {<<0, 0, 0>>, <<1, 1, 0>>, <<3, 3, 0>>, <<2, 0, 1>>, <<0, 0, 1>>}
MCCosine == [u, v \in Embeddings |->
  Unit(u)[1] * Unit(v)[1] + Unit(u)[2] * Unit(v)[2] + Unit(u)[3] * Unit(v)[3]]

(* Three packages: the second asks for something sensitive, the third for every
   address. *)
MCVersion == 1 .. 3
MCSensitive == {"cookies"}
MCAsks == [v \in MCVersion |->
  [permissions |-> IF v = 2 THEN {"tabs", "cookies"} ELSE {"tabs"},
   hostOrigins |-> IF v = 3 THEN {"<all_urls>"} ELSE {}]]

-------------------------------------------------------------------------------
(* The pure parts, over bounded inputs. *)
Upto(S, n) == UNION {[1 .. k -> S] : k \in 0 .. n}

ASSUME PaletteAssumption ==
  \A query \in Upto(MCLetter, 3) : Palette!MatchesAreSubsequences(query)

ASSUME BatchAssumption ==
  \A items \in Upto([layer : {0, 1}, kind : {"rect", "text"}], 4) : BatchesKeepTheList(items)

Sample == [cpu_ms : 0 .. 3, gpu_ms : 0 .. 3, window_ms : {0, 1, 2}, hw_video : BOOLEAN]
ASSUME EnergyAssumption == \A a, b \in Sample : EnergyAddsUp(a, b)

ASSUME BudgetAssumption ==
  \A level \in {"Off", "Standard", "Strict", "Maximum"} :
    \A costs \in Upto({-1, 0, 1, 3, 8}, 4), unit \in {1, 2} : BudgetBounds(level, unit, costs)
===============================================================================
