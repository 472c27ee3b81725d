---------------------------- MODULE MCInterpolation ----------------------------
EXTENDS Interpolation
MCOrigins == {<<0, 0>>, <<8, 4>>, <<16, 12>>}
MCWhole == {<<0, 0>>, <<-3, 5>>, <<40, -30>>}
MCUsable(v) == v # <<2, 2>>
MCOther == {<<8, -16>>, <<4, 4>>, <<3, 8>>}
=============================================================================
