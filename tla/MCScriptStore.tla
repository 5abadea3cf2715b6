--------------------------- MODULE MCScriptStore ---------------------------
EXTENDS ScriptStore

X == [name |-> "x", kind |-> "number", choices |-> {}, required |-> TRUE,
      default |-> "1", perMachine |-> FALSE]
Y == [X EXCEPT !.kind = "choice", !.choices = {"eu"}, !.default = "eu"]
MCDefinitions == {[name |-> <<"a">>, body |-> "p", inputs |-> <<X>>],
                  [name |-> <<"b">>, body |-> "q", inputs |-> <<Y>>]}
MCVariables == [site |-> "1"]
MCRequests == {[shared |-> <<>>, perMachine |-> <<>>]}
=============================================================================
