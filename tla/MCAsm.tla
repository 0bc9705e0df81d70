------------------------------- MODULE MCAsm --------------------------------
(* Two symbols and two assigned names; "all" and "f" are symbols as well.  *)
EXTENDS RenderedFunctions

Start(n) == [kind |-> "start", name |-> n]
Name(n)  == [kind |-> "name", name |-> n]

NamesMC  == {"all", "f", "g"}
LinesMC  == {[kind |-> "code"], [kind |-> "end"], Start("f"), Start("g"),
             Name("all"), Name("f")}
=============================================================================
