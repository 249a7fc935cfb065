---------------------------- MODULE MCEchoRollout ----------------------------
EXTENDS EchoRollout

\* Text, one call, a finish tool that does not exist, a submit under a padded
\* name, a submit and a call after it; a submit after a block that is not JSON.
WellFormed == {<<"text">>, <<"call">>, <<"stop">>, <<"text", "padded">>, <<"submit", "call">>}
Malformed  == {<<"text">>, <<"call">>, <<"submit">>, <<"broken", "submit">>}

==============================================================================
