------------------------------ MODULE MCShell -------------------------------
EXTENDS Shell

Line(left, right, bg) == [left |-> left, right |-> right, bg |-> bg]

\* One command of every kind alone, and pipelines of every kind of command.
MCLines ==
    {Line("ps", None, TRUE), Line("mem", None, FALSE), Line("kill", None, FALSE),
     Line("cat", None, TRUE), Line("filter", None, FALSE), Line("unknown", None, FALSE),
     Line("test_mm", None, TRUE), Line("test_synchro", None, FALSE), Line("loop", None, FALSE),
     Line("echo", "wc", FALSE), Line("ps", "filter", TRUE), Line("cat", "ps", FALSE),
     Line("test_mm", "cat", FALSE), Line("kill", "wc", FALSE), Line("loop", "echo", TRUE),
     Line("test_processes", None, FALSE), Line("test_synchro", "wc", TRUE)}
=============================================================================
