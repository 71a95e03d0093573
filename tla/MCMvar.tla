------------------------------- MODULE MCMvar -------------------------------
EXTENDS Mvar

\* Two on one side and one on the other.
MCLaunches == {<<2, 1>>, <<1, 2>>}
=============================================================================
