---------------------------- MODULE MCLifeCycle ----------------------------
EXTENDS LifeCycle
OneCard == <<"card0">>
=============================================================================
