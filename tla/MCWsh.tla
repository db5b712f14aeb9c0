------------------------------- MODULE MCWsh -------------------------------
(* Sessions of the shell for TLC: one of commands and history, one of      *)
(* variables, one of pipelines.                                            *)
EXTENDS Wsh

HistorySet(n) == <<Word("history"), Word("set"), Word(n)>>
Commands == { <<Word("ls")>>, <<Word("ps")>>, <<Word("history")>>,
              <<Word("history"), Word("2")>>, HistorySet("0"), HistorySet("1"),
              HistorySet("3"), <<Word("cd"), Word("ls")>>, <<Word("exit")>> }
Variables == { <<Word("ls"), Var("x")>>, <<Word("ls")>>, <<Var("y")>>, <<Word("local"), Word("x")>>,
               <<Word("local"), Assign("x", "a")>>, <<Word("local"), Assign("x", "b")>>,
               <<Word("local"), Assign("x", "")>>, <<Word("local"), Assign("y", "a")>>,
               <<Word("export"), Assign("y", "b")>>, <<Word("export"), Assign("x", "a")>>,
               <<Word("vars")>>, <<Word("export"), Word("y")>>, <<Word("local"), Assign("y", "")>> }
Pipelines == { <<Word("ls"), Pipe, Word("ps")>>,
               <<Word("ls"), Pipe, Word("ps"), Pipe, Word("ls")>>,
               <<Word("bad"), Pipe, Word("ps")>>, <<Word("cd"), Pipe, Word("ps")>>,
               <<Word("bad")>>, HistorySet("1") }
AllSessions == {Commands, Variables, Pipelines}
=============================================================================
