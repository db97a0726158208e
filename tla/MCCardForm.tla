------------------------------ MODULE MCCardForm ------------------------------
\* One buyer at the plain card form, whose card is of an issuer the form does not
\* list.
EXTENDS CardForm

MCNumbers == {<<6, 2, 0, 0, 0, 0, 0, 0, 0, 0, 0, 0, 0, 0, 0, 5>>}

MCExpiries == {[mm |-> Half, yy |-> Half], [mm |-> 12, yy |-> 29], [mm |-> 1, yy |-> 30]}
=============================================================================
