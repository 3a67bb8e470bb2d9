---------------------------- MODULE MCTimeManager ----------------------------
EXTENDS TimeManager

\* West and east of Greenwich; a configuration file has no negative numbers.
MCTimeZones == {-3, 2}

=============================================================================
