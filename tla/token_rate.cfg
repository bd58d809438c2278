CONSTANTS
    Token = {t1}
    Handler = {h1, h2}
    Rates = {0, 1, 2}
    Caps = {0, 1, 2}
    Minute = 2
SYMMETRY Interchangeable
SPECIFICATION Spec
PROPERTY RateAsConfigured
